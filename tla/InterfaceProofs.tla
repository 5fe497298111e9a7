-------------------------- MODULE InterfaceProofs --------------------------
(***************************************************************************)
(* Theorems about the frontend's asynchronous components, each by itself:  *)
(* the proxy event listeners, the two demos, the replay of packets, the AI *)
(* panel, the session files.  They share no state, and MCInterface names   *)
(* the instances.  Last, what the AI panel puts into its prompts.          *)
(***************************************************************************)
EXTENDS MCInterface, ArrangementProofs

----------------------------------------------------------------------------
(* Proxy event listeners: any events and number of registrations *)

(***************************************************************************)
(* Registrations are numbered as they begin, and the effect in force is    *)
(* the latest.                                                             *)
(***************************************************************************)
NumbersInv ==
  /\ \A r \in Regs : phase[r] # "none" <=> r <= generation
  /\ mounted # NoReg => mounted = generation

(***************************************************************************)
(* Who holds the cleanup: a registration that got all its listeners, and   *)
(* once it has settled only the one whose effect is in force; and that one *)
(* does hold it.  Without this nothing would say that a settled holder's   *)
(* effect still knows it has listeners to remove.                          *)
(***************************************************************************)
HolderInv ==
  /\ holder # NoReg => phase[holder] \in {"resolved", "settled"}
  /\ holder # NoReg /\ phase[holder] = "settled" => mounted = holder
  /\ mounted # NoReg /\ phase[mounted] \in {"resolved", "settled"} => holder = mounted

ListenersInv == TypeOK /\ NumbersInv /\ HolderInv /\ ListenersAreOwned

LEMMA RegsAreNumbers == MaxRegs \in Nat /\ Regs \subseteq Nat \ {0} /\ NoReg \notin Regs
BY RegsAssumption DEF Regs, NoReg

LEMMA ListenersInit == Init => ListenersInv
<1> SUFFICES ASSUME Init PROVE ListenersInv
  OBVIOUS
<1>1. TypeOK
  <2>1. generation \in 0 .. MaxRegs
    BY RegsAssumption DEF Init
  <2>2. phase \in [Regs -> Phases]
    BY DEF Init, Phases
  <2>3. nativeError \in BOOLEAN
    BY DEF Init
  <2>4. holder \in Regs \cup {NoReg} /\ mounted \in Regs \cup {NoReg} /\ subs \subseteq Regs \X Events
    BY DEF Init
  <2> QED
    BY <2>1, <2>2, <2>3, <2>4 DEF TypeOK
<1>2. NumbersInv /\ HolderInv /\ ListenersAreOwned
  BY RegsAreNumbers DEF Init, NumbersInv, HolderInv, ListenersAreOwned, NoReg
<1> QED
  BY <1>1, <1>2 DEF ListenersInv

(***************************************************************************)
(* A new registration takes the holder's listeners away, whether the old   *)
(* effect's cleanup already did so or not.                                 *)
(***************************************************************************)
LEMMA RegisterKeeps ==
  ASSUME ListenersInv, NEW old \in SUBSET subs, Register(old),
         phase' = [phase EXCEPT ![generation + 1] = "listening"], UNCHANGED nativeError
  PROVE  ListenersInv'
<1>1. generation + 1 \in Regs /\ phase[generation + 1] = "none"
  BY RegsAssumption DEF ListenersInv, TypeOK, NumbersInv, Register, Regs
<1>2. TypeOK'
  BY <1>1, RegsAssumption DEF ListenersInv, TypeOK, Register, Regs, NoReg, Phases
<1>3. NumbersInv'
  BY <1>1, RegsAreNumbers DEF ListenersInv, TypeOK, NumbersInv, Register, Regs
<1>4. HolderInv'
  BY <1>1, RegsAreNumbers DEF ListenersInv, TypeOK, HolderInv, Register
<1>5. \A s \in subs' : s[1] # holder /\ phase[s[1]] \in {"listening", "failed"} /\ s[1] \in Regs
  BY DEF ListenersInv, TypeOK, ListenersAreOwned, Register, SubsOf
<1>6. ListenersAreOwned'
  BY <1>1, <1>5 DEF ListenersInv, TypeOK, ListenersAreOwned, Register
<1> QED
  BY <1>2, <1>3, <1>4, <1>6 DEF ListenersInv

LEMMA UnmountKeeps == ListenersInv /\ Unmount => ListenersInv'
<1> SUFFICES ASSUME ListenersInv, Unmount PROVE ListenersInv'
  OBVIOUS
<1>1. mounted = generation /\ mounted \in Regs
  BY DEF Unmount, ListenersInv, NumbersInv, TypeOK
<1>2. TypeOK' /\ NumbersInv'
  BY DEF Unmount, Unlisten, ListenersInv, TypeOK, NumbersInv
<1>3. CASE phase[mounted] = "settled"
  <2>1. holder' = NoReg /\ mounted' = NoReg /\ subs' = subs \ SubsOf(holder)
    BY <1>1, <1>3 DEF Unmount, Unlisten
  <2>2. \A s \in subs' : phase[s[1]] \in {"listening", "failed"}
    BY <2>1 DEF ListenersInv, TypeOK, ListenersAreOwned, SubsOf
  <2> QED
    BY <1>2, <2>1, <2>2 DEF ListenersInv, HolderInv, ListenersAreOwned, Unmount
<1>4. CASE phase[mounted] # "settled"
  <2>1. UNCHANGED <<holder, subs, phase, generation>> /\ mounted' = NoReg
    BY <1>4 DEF Unmount
  <2>2. HolderInv'
    BY <1>1, <1>4, <2>1 DEF ListenersInv, HolderInv, ListenersAreOwned
  <2> QED
    BY <1>2, <2>1, <2>2 DEF ListenersInv, ListenersAreOwned, SubsOf
<1> QED
  BY <1>3, <1>4

LEMMA ListenedKeeps ==
  ASSUME ListenersInv, NEW r \in Regs, NEW e \in Events, Listened(r, e)
  PROVE  ListenersInv'
BY DEF ListenersInv, TypeOK, NumbersInv, HolderInv, ListenersAreOwned, Listened, SubsOf

LEMMA ListenFailsKeeps ==
  ASSUME ListenersInv, NEW r \in Regs, ListenFails(r)
  PROVE  ListenersInv'
<1>1. phase[r] = "listening" /\ phase' = [phase EXCEPT ![r] = "failed"]
      /\ UNCHANGED <<generation, holder, mounted, subs>>
  BY DEF ListenFails
<1>2. nativeError' \in BOOLEAN
  BY DEF ListenFails
<1>3. TypeOK'
  BY <1>1, <1>2 DEF ListenersInv, TypeOK, Phases
<1>4. NumbersInv' /\ HolderInv'
  BY <1>1 DEF ListenersInv, TypeOK, NumbersInv, HolderInv
<1>5. ListenersAreOwned'
  BY <1>1 DEF ListenersInv, TypeOK, ListenersAreOwned, SubsOf
<1> QED
  BY <1>3, <1>4, <1>5 DEF ListenersInv

LEMMA ResolvedKeeps ==
  ASSUME ListenersInv, NEW r \in Regs, Resolved(r)
  PROVE  ListenersInv'
<1>1. phase[r] = "listening" /\ phase' = [phase EXCEPT ![r] = "resolved"]
      /\ SubsOf(r) \subseteq subs /\ UNCHANGED <<generation, mounted, nativeError>>
  BY DEF Resolved
<1>2. TypeOK' /\ NumbersInv'
  BY <1>1 DEF Resolved, ListenersInv, TypeOK, NumbersInv, Phases, NoReg, SubsOf
<1>3. CASE r = generation
  <2>1. holder' = r /\ UNCHANGED subs /\ holder = NoReg
    BY <1>1, <1>3 DEF Resolved, ListenersInv, HolderInv, ListenersAreOwned
  <2>2. HolderInv'
    BY <1>1, <1>3, <2>1 DEF ListenersInv, TypeOK, NumbersInv, HolderInv
  <2>3. \A s \in subs : s[1] \in Regs /\ phase[s[1]] \in {"listening", "failed"}
    BY <2>1, RegsAreNumbers DEF ListenersInv, TypeOK, ListenersAreOwned
  <2>4. ListenersAreOwned'
    BY <1>1, <1>3, <2>1, <2>3 DEF ListenersInv, TypeOK, ListenersAreOwned, SubsOf
  <2> QED
    BY <1>2, <2>2, <2>4 DEF ListenersInv
<1>4. CASE r # generation
  <2>1. subs' = subs \ SubsOf(r) /\ UNCHANGED holder
    BY <1>4 DEF Resolved
  <2>2. holder # r
    BY <1>1 DEF ListenersInv, HolderInv, NoReg, Regs
  <2>3. HolderInv'
    BY <1>1, <1>4, <2>1, <2>2 DEF ListenersInv, TypeOK, NumbersInv, HolderInv
  <2>4. \A s \in subs' : s[1] # r /\ (s[1] = holder \/ phase[s[1]] \in {"listening", "failed"})
    BY <2>1 DEF ListenersInv, TypeOK, ListenersAreOwned, SubsOf
  <2>5. holder # NoReg => holder = generation /\ SubsOf(holder) \subseteq subs'
    BY <2>1, <2>2 DEF ListenersInv, ListenersAreOwned, SubsOf
  <2>6. ListenersAreOwned'
    BY <1>1, <2>1, <2>4, <2>5 DEF ListenersInv, TypeOK, ListenersAreOwned, SubsOf
  <2> QED
    BY <1>2, <2>3, <2>6 DEF ListenersInv
<1> QED
  BY <1>3, <1>4

LEMMA SettledKeeps ==
  ASSUME ListenersInv, NEW r \in Regs, Settled(r)
  PROVE  ListenersInv'
<1>1. phase[r] = "resolved" /\ phase' = [phase EXCEPT ![r] = "settled"]
      /\ UNCHANGED <<generation, mounted, nativeError>>
  BY DEF Settled
<1>2. TypeOK' /\ NumbersInv'
  BY <1>1 DEF Settled, Unlisten, ListenersInv, TypeOK, NumbersInv, Phases
<1>3. CASE r # mounted /\ r = generation
  <2>1. holder' = NoReg /\ subs' = subs \ SubsOf(holder) /\ mounted = NoReg
    BY <1>3 DEF Settled, Unlisten, ListenersInv, NumbersInv
  <2>2. \A s \in subs' : s[1] # r /\ s[1] \in Regs /\ phase[s[1]] \in {"listening", "failed"}
    BY <1>1, <2>1 DEF ListenersInv, TypeOK, ListenersAreOwned, SubsOf
  <2> QED
    BY <1>1, <1>2, <2>1, <2>2 DEF ListenersInv, TypeOK, HolderInv, ListenersAreOwned
<1>4. CASE r = mounted \/ r # generation
  <2>1. UNCHANGED <<holder, subs>>
    BY <1>4 DEF Settled, Unlisten
  <2>2. HolderInv'
    BY <1>1, <1>4, <2>1 DEF ListenersInv, TypeOK, NumbersInv, HolderInv, ListenersAreOwned
  <2>3. ListenersAreOwned'
    BY <1>1, <2>1 DEF ListenersInv, TypeOK, ListenersAreOwned, SubsOf
  <2> QED
    BY <1>2, <2>2, <2>3 DEF ListenersInv
<1> QED
  BY <1>3, <1>4

LEMMA ListenersStep == ListenersInv /\ [Next]_listenerVars => ListenersInv'
<1> SUFFICES ASSUME ListenersInv, [Next]_listenerVars PROVE ListenersInv'
  OBVIOUS
<1>1. CASE UNCHANGED listenerVars
  BY <1>1 DEF listenerVars, ListenersInv, TypeOK, NumbersInv, HolderInv, ListenersAreOwned, SubsOf
<1>2. CASE Mount \/ Rerun
  BY <1>2, RegisterKeeps DEF Mount, Rerun
<1>3. CASE Unmount
  BY <1>3, UnmountKeeps
<1>4. ASSUME NEW r \in Regs, PromiseSteps(r) \/ ListenFails(r) PROVE ListenersInv'
  BY <1>4, ListenedKeeps, ResolvedKeeps, SettledKeeps, ListenFailsKeeps DEF PromiseSteps
<1> QED
  BY <1>1, <1>2, <1>3, <1>4 DEF Next

LEMMA ListenersHold == Spec => []ListenersInv
BY ListenersInit, ListenersStep, PTL DEF Spec

(***************************************************************************)
(* Every listener can still be removed: it belongs to the holder of the    *)
(* cleanup, to a registration under way, or it leaked from one that failed *)
(* (lib/proxy-events.ts).                                                  *)
(***************************************************************************)
THEOREM OwnedCorrect == Spec => [](TypeOK /\ ListenersAreOwned)
<1>1. ListenersInv => TypeOK /\ ListenersAreOwned
  BY DEF ListenersInv
<1> QED
  BY <1>1, ListenersHold, PTL

(***************************************************************************)
(* With no promise outstanding the listeners are those of the effect in    *)
(* force and of failed registrations, however registrations and cleanups   *)
(* overlapped (lib/proxy-events.ts, App.tsx).                              *)
(***************************************************************************)
THEOREM MatchCorrect == Spec => []ListenersMatchMount
<1>1. ASSUME ListenersInv PROVE ListenersMatchMount
  <2> SUFFICES ASSUME \A r \in Regs : ~Pending(r)
               PROVE  {s \in subs : phase[s[1]] # "failed"} =
                        IF mounted # NoReg /\ phase[mounted] = "settled" THEN SubsOf(mounted) ELSE {}
    BY DEF ListenersMatchMount
  <2>1. \A s \in subs : phase[s[1]] = "failed" \/ s[1] = holder
    BY <1>1 DEF Pending, ListenersInv, TypeOK, ListenersAreOwned
  <2>2. holder # NoReg => phase[holder] = "settled" /\ mounted = holder
    BY <1>1 DEF Pending, ListenersInv, TypeOK, HolderInv
  <2>3. CASE mounted # NoReg /\ phase[mounted] = "settled"
    <3>1. holder = mounted /\ SubsOf(mounted) \subseteq subs
      BY <1>1, <2>3 DEF ListenersInv, HolderInv, ListenersAreOwned
    <3>2. \A s \in subs : s[1] = mounted => s \in SubsOf(mounted)
      BY <1>1 DEF ListenersInv, TypeOK, SubsOf
    <3>3. \A s \in SubsOf(mounted) : phase[s[1]] # "failed"
      BY <2>3 DEF SubsOf
    <3> QED
      BY <2>1, <2>3, <3>1, <3>2, <3>3
  <2>4. CASE ~(mounted # NoReg /\ phase[mounted] = "settled")
    <3>1. holder = NoReg
      BY <2>2, <2>4
    <3>2. \A s \in subs : s[1] # NoReg
      BY <1>1, RegsAreNumbers DEF ListenersInv, TypeOK
    <3> QED
      BY <2>1, <2>4, <3>1, <3>2
  <2> QED
    BY <2>3, <2>4
<1> QED
  BY <1>1, ListenersHold, PTL

----------------------------------------------------------------------------
(* The demos: any number of demos and of tour steps *)

(***************************************************************************)
(* Which timer may be set: a stream's only while no tour is on, a tour's   *)
(* only while one is.  Stopping clears just its own timer, so without this *)
(* a stopped demo could leave the other one's interval behind.             *)
(***************************************************************************)
TimersInv ==
  /\ tour.on => streamTimer = NoDemo /\ tour.of # NoDemo
  /\ ~tour.on => tourTimer = NoDemo /\ tour.of = NoDemo

ExclusionInv == DemoTypeOK /\ TimersInv /\ OneSourceAtATime

DemoInv == ExclusionInv /\ DemoSessionsEnd

LEMMA NoDemoIsNone == NoDemo \notin Demos
BY DemoAssumption DEF NoDemo, Demos

LEMMA NewDemoIsNew ==
  ASSUME DemoTypeOK, demos < MaxDemos
  PROVE  NewDemo \in Demos /\ NewDemo # NoDemo /\ NewDemo \in 0 .. MaxDemos
BY DemoAssumption DEF DemoTypeOK, NewDemo, Demos, NoDemo

(***************************************************************************)
(* With no tour on, the stream's is the only interval; without a demo      *)
(* there is none.                                                          *)
(***************************************************************************)
LEMMA Intervals ==
  ASSUME ExclusionInv
  PROVE  /\ tour.on => intervals \subseteq {tourTimer}
         /\ ~tour.on => intervals \subseteq {streamTimer}
         /\ demo = NoDemo => intervals = {} /\ streamTimer = NoDemo /\ tourTimer = NoDemo /\ ~tour.on
<1>1. tour.on => intervals \subseteq {tourTimer}
  BY DEF ExclusionInv, TimersInv, OneSourceAtATime
<1>2. ~tour.on => intervals \subseteq {streamTimer}
  BY DEF ExclusionInv, TimersInv, OneSourceAtATime
<1>3. ASSUME demo = NoDemo
      PROVE  intervals = {} /\ streamTimer = NoDemo /\ tourTimer = NoDemo /\ ~tour.on
  <2>1. intervals = {}
    BY <1>3, NoDemoIsNone DEF ExclusionInv, DemoTypeOK, OneSourceAtATime
  <2> QED
    BY <2>1, <1>3 DEF ExclusionInv, TimersInv, OneSourceAtATime
<1> QED
  BY <1>1, <1>2, <1>3

----------------------------------------------------------------------------
(* Sessions and entries *)

(***************************************************************************)
(* A demo that is ended is no longer shown as connected, and nothing else  *)
(* changes.                                                                *)
(***************************************************************************)
LEMMA EndingOne ==
  ASSUME DemoTypeOK, DemoSessionsEnd
  PROVE  /\ Ended(demoSession, demo) \in [Demos -> {"none", "connected", "closed", "removed"}]
         /\ SetStatus(demoEntry, demo, "disconnected") \in [Demos -> {"none", "connected", "disconnected"}]
         /\ \A d \in Demos : /\ Ended(demoSession, demo)[d] # "connected"
                             /\ SetStatus(demoEntry, demo, "disconnected")[d] # "connected"
BY NoDemoIsNone DEF DemoTypeOK, DemoSessionsEnd, Ended, SetStatus

LEMMA BeginningOne ==
  ASSUME DemoTypeOK, DemoSessionsEnd, NEW old \in {demo}, BeginAfter(old)
  PROVE  /\ demo' = NewDemo /\ demos' = NewDemo /\ NewDemo \in Demos /\ NewDemo # NoDemo
         /\ NewDemo \in 0 .. MaxDemos
         /\ demoSession' \in [Demos -> {"none", "connected", "closed", "removed"}]
         /\ demoEntry' \in [Demos -> {"none", "connected", "disconnected"}]
         /\ DemoSessionsEnd'
<1>1. demo' = NewDemo /\ demos' = NewDemo /\ NewDemo \in Demos /\ NewDemo # NoDemo /\ NewDemo \in 0 .. MaxDemos
  BY NewDemoIsNew DEF BeginAfter
<1>2. /\ demoSession' = [Ended(demoSession, demo) EXCEPT ![NewDemo] = "connected"]
      /\ demoEntry' = [SetStatus(demoEntry, demo, "disconnected") EXCEPT ![NewDemo] = "connected"]
  BY DEF BeginAfter
<1>3. /\ demoSession' \in [Demos -> {"none", "connected", "closed", "removed"}]
      /\ demoEntry' \in [Demos -> {"none", "connected", "disconnected"}]
  BY <1>1, <1>2, EndingOne
<1>4. DemoSessionsEnd'
  BY <1>1, <1>2, <1>3, EndingOne DEF DemoSessionsEnd
<1> QED
  BY <1>1, <1>3, <1>4

----------------------------------------------------------------------------
(* The inductive invariant *)

LEMMA DemoInitHolds == DemoInit => DemoInv
<1> SUFFICES ASSUME DemoInit PROVE DemoInv
  OBVIOUS
<1>1. DemoTypeOK
  <2>1. tour \in [on : BOOLEAN, of : Demos \cup {NoDemo}, step : 0 .. Steps - 1, done : BOOLEAN]
    BY DemoAssumption DEF DemoInit, NoTour
  <2>2. nextStep \in 0 .. Steps /\ demos \in 0 .. MaxDemos
    BY DemoAssumption DEF DemoInit
  <2> QED
    BY <2>1, <2>2 DEF DemoInit, DemoTypeOK
<1>2. TimersInv /\ OneSourceAtATime
  BY DEF DemoInit, TimersInv, OneSourceAtATime, NoTour
<1>3. DemoSessionsEnd
  BY NoDemoIsNone DEF DemoInit, DemoSessionsEnd
<1> QED
  BY <1>1, <1>2, <1>3 DEF DemoInv, ExclusionInv

LEMMA StartStreamKeeps == DemoInv /\ StartStream => DemoInv'
<1> SUFFICES ASSUME DemoInv, StartStream PROVE DemoInv'
  OBVIOUS
<1>1. DemoTypeOK /\ DemoSessionsEnd /\ ExclusionInv
  BY DEF DemoInv, ExclusionInv
<1>2. demo = NoDemo /\ BeginAfter(NoDemo)
  BY DEF StartStream
<1>3. intervals = {} /\ tourTimer = NoDemo /\ ~tour.on
  BY <1>1, <1>2, Intervals
<1>4. /\ demo' = NewDemo /\ demos' = NewDemo /\ NewDemo \in Demos /\ NewDemo # NoDemo
      /\ NewDemo \in 0 .. MaxDemos
      /\ demoSession' \in [Demos -> {"none", "connected", "closed", "removed"}]
      /\ demoEntry' \in [Demos -> {"none", "connected", "disconnected"}]
      /\ DemoSessionsEnd'
  BY <1>1, <1>2, BeginningOne
<1>5. DemoTypeOK'
  BY <1>1, <1>3, <1>4 DEF StartStream, DemoTypeOK
<1>6. TimersInv' /\ OneSourceAtATime'
  BY <1>1, <1>3, <1>4 DEF StartStream, CanStart, TimersInv, OneSourceAtATime, ExclusionInv
<1> QED
  BY <1>4, <1>5, <1>6 DEF DemoInv, ExclusionInv

LEMMA StartTourKeeps == DemoInv /\ StartTour => DemoInv'
<1> SUFFICES ASSUME DemoInv, StartTour PROVE DemoInv'
  OBVIOUS
<1>1. DemoTypeOK /\ DemoSessionsEnd /\ ExclusionInv
  BY DEF DemoInv, ExclusionInv
<1>2. ~tour.on /\ BeginAfter(demo)
  BY DEF StartTour
<1>3. streamTimer' = NoDemo /\ intervals' = {NewDemo}
  BY <1>1, <1>2, Intervals DEF StartTour
<1>4. /\ demo' = NewDemo /\ demos' = NewDemo /\ NewDemo \in Demos /\ NewDemo # NoDemo
      /\ NewDemo \in 0 .. MaxDemos
      /\ demoSession' \in [Demos -> {"none", "connected", "closed", "removed"}]
      /\ demoEntry' \in [Demos -> {"none", "connected", "disconnected"}]
      /\ DemoSessionsEnd'
  BY <1>1, <1>2, BeginningOne
<1>5. /\ tour' = [on |-> TRUE, of |-> NewDemo, step |-> 0, done |-> (0 + 1 >= Steps)]
      /\ nextStep' = 0 + 1 /\ shown' = shown \cup {NewDemo}
  BY DEF StartTour, Play
<1>6. DemoTypeOK'
  <2>1. tour' \in [on : BOOLEAN, of : Demos \cup {NoDemo}, step : 0 .. Steps - 1, done : BOOLEAN]
    BY <1>4, <1>5, DemoAssumption
  <2>2. nextStep' \in 0 .. Steps
    BY <1>5, DemoAssumption
  <2> QED
    BY <2>1, <2>2, <1>1, <1>3, <1>4, <1>5 DEF StartTour, DemoTypeOK
<1>7. TimersInv' /\ OneSourceAtATime'
  BY <1>3, <1>4, <1>5 DEF StartTour, CanStart, TimersInv, OneSourceAtATime
<1> QED
  BY <1>4, <1>6, <1>7 DEF DemoInv, ExclusionInv

LEMMA StopStreamKeeps == DemoInv /\ ~tour.on /\ StopStream => DemoInv'
<1> SUFFICES ASSUME DemoInv, ~tour.on, StopStream PROVE DemoInv'
  OBVIOUS
<1>1. DemoTypeOK /\ DemoSessionsEnd /\ ExclusionInv
  BY DEF DemoInv, ExclusionInv
<1>2. intervals' = {} /\ streamTimer' = NoDemo /\ tourTimer' = NoDemo /\ demo' = NoDemo
  BY <1>1, Intervals DEF StopStream, ExclusionInv, TimersInv
<1>3. demoSession' = Ended(demoSession, demo) /\ demoEntry' = SetStatus(demoEntry, demo, "disconnected")
  BY DEF StopStream
<1>4. DemoTypeOK'
  BY <1>1, <1>2, <1>3, EndingOne DEF StopStream, DemoTypeOK
<1>5. TimersInv' /\ OneSourceAtATime'
  BY <1>1, <1>2 DEF StopStream, TimersInv, OneSourceAtATime, ExclusionInv
<1>6. DemoSessionsEnd'
  BY <1>1, <1>2, <1>3, EndingOne, NoDemoIsNone DEF DemoSessionsEnd
<1> QED
  BY <1>4, <1>5, <1>6 DEF DemoInv, ExclusionInv

LEMMA StopTourKeeps == DemoInv /\ StopTour => DemoInv'
<1> SUFFICES ASSUME DemoInv, StopTour PROVE DemoInv'
  OBVIOUS
<1>1. DemoTypeOK /\ DemoSessionsEnd /\ ExclusionInv
  BY DEF DemoInv, ExclusionInv
<1>2. tour.on /\ tour.of = demo
  BY DEF StopTour, DemoInv, ExclusionInv, OneSourceAtATime
<1>3. intervals' = {} /\ streamTimer' = NoDemo /\ tourTimer' = NoDemo /\ demo' = NoDemo /\ tour' = NoTour
  BY <1>1, <1>2, Intervals DEF StopTour, ExclusionInv, TimersInv
<1>4. demoSession' = Ended(demoSession, demo) /\ demoEntry' = SetStatus(demoEntry, demo, "disconnected")
  BY <1>2 DEF StopTour
<1>5. DemoTypeOK'
  <2>1. tour' \in [on : BOOLEAN, of : Demos \cup {NoDemo}, step : 0 .. Steps - 1, done : BOOLEAN]
    BY <1>3, DemoAssumption DEF NoTour
  <2> QED
    BY <2>1, <1>1, <1>3, <1>4, EndingOne DEF StopTour, DemoTypeOK
<1>6. TimersInv' /\ OneSourceAtATime'
  BY <1>1, <1>3 DEF TimersInv, OneSourceAtATime, NoTour
<1>7. DemoSessionsEnd'
  BY <1>1, <1>3, <1>4, EndingOne, NoDemoIsNone DEF DemoSessionsEnd
<1> QED
  BY <1>5, <1>6, <1>7 DEF DemoInv, ExclusionInv

LEMMA ResetTourKeeps == DemoInv /\ ResetTour => DemoInv'
<1> SUFFICES ASSUME DemoInv, ResetTour PROVE DemoInv'
  OBVIOUS
<1>1. DemoTypeOK /\ DemoSessionsEnd /\ ExclusionInv
  BY DEF DemoInv, ExclusionInv
<1>2. /\ tourTimer' = NoDemo /\ context' = NoDemo /\ tour' = NoTour
      /\ intervals' = intervals \ {tourTimer}
      /\ demo' = IF tour.on THEN NoDemo ELSE demo
      /\ demoSession' = IF tour.of = NoDemo THEN demoSession ELSE [demoSession EXCEPT ![tour.of] = "removed"]
      /\ demoEntry' = IF tour.of = NoDemo THEN demoEntry ELSE [demoEntry EXCEPT ![tour.of] = "none"]
      /\ shown' = shown \ {tour.of}
      /\ UNCHANGED <<connection, nextStep, streamTimer, demos>>
  BY DEF ResetTour
<1>3. DemoTypeOK'
  <2>1. tour' \in [on : BOOLEAN, of : Demos \cup {NoDemo}, step : 0 .. Steps - 1, done : BOOLEAN]
    BY <1>2, DemoAssumption DEF NoTour
  <2>2. tour.of \in Demos \cup {NoDemo}
    BY <1>1 DEF DemoTypeOK
  <2>3. /\ demoSession' \in [Demos -> {"none", "connected", "closed", "removed"}]
        /\ demoEntry' \in [Demos -> {"none", "connected", "disconnected"}]
    BY <1>1, <1>2, <2>2 DEF DemoTypeOK
  <2> QED
    BY <2>1, <2>3, <1>1, <1>2 DEF DemoTypeOK
<1>4. CASE tour.on
  <2>1. tour.of = demo /\ demo # NoDemo /\ demo \in Demos
    BY <1>1, <1>4 DEF ExclusionInv, TimersInv, OneSourceAtATime, DemoTypeOK
  <2>2. intervals' = {} /\ streamTimer' = NoDemo /\ demo' = NoDemo
    BY <1>1, <1>2, <1>4, Intervals DEF ExclusionInv, TimersInv
  <2>3. TimersInv' /\ OneSourceAtATime'
    BY <1>2, <2>2 DEF TimersInv, OneSourceAtATime, NoTour
  <2>4. DemoSessionsEnd'
    BY <1>1, <1>2, <2>1, <2>2, NoDemoIsNone DEF DemoSessionsEnd, DemoTypeOK
  <2> QED
    BY <1>3, <2>3, <2>4 DEF DemoInv, ExclusionInv
<1>5. CASE ~tour.on
  <2>1. tour.of = NoDemo /\ tourTimer = NoDemo
    BY <1>1, <1>5 DEF ExclusionInv, TimersInv
  <2>2. intervals' = intervals /\ demo' = demo /\ demoSession' = demoSession /\ demoEntry' = demoEntry
    BY <1>1, <1>2, <1>5, <2>1, NoDemoIsNone DEF DemoTypeOK
  <2>3. TimersInv' /\ OneSourceAtATime'
    BY <1>1, <1>2, <2>1, <2>2 DEF ExclusionInv, TimersInv, OneSourceAtATime, NoTour
  <2>4. DemoSessionsEnd'
    BY <1>1, <2>2 DEF DemoSessionsEnd
  <2> QED
    BY <1>3, <2>3, <2>4 DEF DemoInv, ExclusionInv
<1> QED
  BY <1>4, <1>5

LEMMA StreamTickKeeps ==
  ASSUME DemoInv, NEW d \in Demos, StreamTick(d)
  PROVE  DemoInv'
<1>1. DemoTypeOK'
  BY DEF DemoInv, ExclusionInv, StreamTick, DemoTypeOK
<1>2. TimersInv' /\ OneSourceAtATime' /\ DemoSessionsEnd'
  BY DEF DemoInv, ExclusionInv, StreamTick, TimersInv, OneSourceAtATime, DemoSessionsEnd
<1> QED
  BY <1>1, <1>2 DEF DemoInv, ExclusionInv

LEMMA TourTickKeeps ==
  ASSUME DemoInv, NEW d \in Demos, TourTick(d)
  PROVE  DemoInv'
<1>1. DemoTypeOK /\ DemoSessionsEnd /\ ExclusionInv
  BY DEF DemoInv, ExclusionInv
<1>2. /\ d = tourTimer /\ d \in intervals
      /\ UNCHANGED <<connection, demo, context, streamTimer, demos, demoSession, demoEntry>>
  BY DEF TourTick
<1>3. tour.on /\ streamTimer = NoDemo
  BY <1>1, <1>2, NoDemoIsNone DEF ExclusionInv, TimersInv
<1>4. \/ intervals' = intervals /\ tourTimer' = tourTimer
      \/ intervals' = {} /\ tourTimer' = NoDemo
  BY <1>1, <1>3, Intervals DEF TourTick
<1>5. \/ tour' = tour /\ nextStep' = nextStep /\ shown' = shown
      \/ context # NoDemo /\ nextStep < Steps /\ Play(tour, nextStep, context)
  BY DEF TourTick
<1>6. /\ tour' \in [on : BOOLEAN, of : Demos \cup {NoDemo}, step : 0 .. Steps - 1, done : BOOLEAN]
      /\ nextStep' \in 0 .. Steps /\ shown' \subseteq Demos
      /\ tour'.on = tour.on /\ tour'.of = tour.of
  <2>1. CASE tour' = tour /\ nextStep' = nextStep /\ shown' = shown
    BY <1>1, <2>1 DEF DemoTypeOK
  <2>2. CASE context # NoDemo /\ nextStep < Steps /\ Play(tour, nextStep, context)
    <3>1. nextStep \in 0 .. Steps - 1 /\ nextStep + 1 \in 0 .. Steps
      BY <1>1, <2>2, DemoAssumption DEF DemoTypeOK
    <3>2. (nextStep + 1 >= Steps) \in BOOLEAN
      OBVIOUS
    <3>3. tour' = [tour EXCEPT !.step = nextStep, !.done = (nextStep + 1 >= Steps)]
      BY <2>2 DEF Play
    <3>4. tour' \in [on : BOOLEAN, of : Demos \cup {NoDemo}, step : 0 .. Steps - 1, done : BOOLEAN]
      BY <1>1, <3>1, <3>2, <3>3 DEF DemoTypeOK
    <3>5. tour'.on = tour.on /\ tour'.of = tour.of
      BY <1>1, <3>3 DEF DemoTypeOK
    <3> QED
      BY <1>1, <2>2, <3>1, <3>4, <3>5 DEF DemoTypeOK, Play
  <2> QED
    BY <1>5, <2>1, <2>2
<1>7. DemoTypeOK'
  BY <1>1, <1>2, <1>4, <1>6 DEF DemoTypeOK
<1>8. TimersInv' /\ OneSourceAtATime' /\ DemoSessionsEnd'
  BY <1>1, <1>2, <1>3, <1>4, <1>6 DEF ExclusionInv, TimersInv, OneSourceAtATime, DemoSessionsEnd
<1> QED
  BY <1>7, <1>8 DEF DemoInv, ExclusionInv

LEMMA OthersKeep ==
  ASSUME DemoInv, Connect \/ Opened \/ HangUp \/ ClearHistory \/ UNCHANGED demoVars
  PROVE  DemoInv'
<1>1. ASSUME NEW from \in {"off", "connecting", "open"}, NEW to \in {"off", "connecting", "open"},
             ConnectionGoes(from, to), demo = NoDemo \/ to = "off" \/ from # "off"
      PROVE  DemoInv'
  <2>1. DemoTypeOK'
    BY <1>1 DEF ConnectionGoes, DemoInv, ExclusionInv, DemoTypeOK
  <2>2. TimersInv' /\ OneSourceAtATime' /\ DemoSessionsEnd'
    BY <1>1 DEF ConnectionGoes, DemoInv, ExclusionInv, TimersInv, OneSourceAtATime, DemoSessionsEnd
  <2> QED
    BY <2>1, <2>2 DEF DemoInv, ExclusionInv
<1>2. CASE Connect \/ Opened \/ HangUp
  BY <1>1, <1>2 DEF Connect, Opened, HangUp
<1>3. CASE ClearHistory
  BY <1>3 DEF ClearHistory, DemoInv, ExclusionInv, DemoTypeOK, TimersInv, OneSourceAtATime, DemoSessionsEnd
<1>4. CASE UNCHANGED demoVars
  BY <1>4 DEF demoVars, DemoInv, ExclusionInv, DemoTypeOK, TimersInv, OneSourceAtATime, DemoSessionsEnd
<1> QED
  BY <1>2, <1>3, <1>4

LEMMA DemoStep == DemoInv /\ [DemoNext]_demoVars => DemoInv'
<1> SUFFICES ASSUME DemoInv, [DemoNext]_demoVars PROVE DemoInv'
  OBVIOUS
<1>1. CASE Ticks
  BY <1>1, StreamTickKeeps, TourTickKeeps DEF Ticks
<1>2. CASE HandleStopDemo
  BY <1>2, StopTourKeeps, StopStreamKeeps DEF HandleStopDemo
<1> QED
  BY <1>1, <1>2, StartStreamKeeps, StartTourKeeps, ResetTourKeeps, OthersKeep DEF DemoNext

LEMMA DemosHold == DemoSpec => []DemoInv
BY DemoInitHolds, DemoStep, PTL DEF DemoSpec

(***************************************************************************)
(* Both demos' flags, timers, sessions and list entries keep their types:  *)
(* a tour never steps beyond its last step (investor-demo.ts).             *)
(***************************************************************************)
THEOREM DemoTypeCorrect == DemoSpec => []DemoTypeOK
<1>1. DemoInv => DemoTypeOK
  BY DEF DemoInv, ExclusionInv
<1> QED
  BY <1>1, DemosHold, PTL

(***************************************************************************)
(* At most one demo is active, it alone ticks and is shown as connected,   *)
(* and none runs next to a direct connection (demo-stream.ts,              *)
(* investor-demo.ts).                                                      *)
(***************************************************************************)
THEOREM DemosCorrect == DemoSpec => []DemosExclude
<1>1. DemoInv => DemosExclude
  BY DEF DemoInv, ExclusionInv, DemosExclude
<1> QED
  BY <1>1, DemosHold, PTL

----------------------------------------------------------------------------
(* Replay of packets: any length of a sequence and bounds on runs *)

SentPackets == [run : Nat, frame : Nat]

Increasing(frames) == \A m, n \in DOMAIN frames : m < n => frames[m] < frames[n]

LoopTypeOK(loop) ==
  /\ loop \in [run : 1 .. runId, next : Nat, frames : Seq(Nat)]
  /\ loop.next \in DOMAIN loop.frames
  /\ Increasing(loop.frames)

ReplayTypeOK ==
  /\ kind \in {"idle", "running", "success", "error"}
  /\ runId \in 0 .. MaxRuns
  /\ replaySent \in Seq(SentPackets)
  /\ replaySelected \in 0 .. Len(replaySent)
  /\ \A loop \in loops : LoopTypeOK(loop)

(***************************************************************************)
(* What went out belongs to runs up to the panel's, so a run that begins   *)
(* is later than all of it; a loop's next frame comes after everything     *)
(* its run has sent; and a run has one loop, or two could send its frames  *)
(* in turns.                                                               *)
(***************************************************************************)
OneLoopARun == \A a, b \in loops : a.run = b.run => a = b

LoopGoesOn(loop, list) ==
  \A i \in DOMAIN list : list[i].run = loop.run => list[i].frame < loop.frames[loop.next]

RunsUpTo(list, run) == \A i \in DOMAIN list : list[i].run <= run

InOrder(list) ==
  \A i, j \in DOMAIN list :
    i < j /\ list[i].run # 0 /\ list[j].run # 0 =>
      /\ list[i].run <= list[j].run
      /\ list[i].run = list[j].run => list[i].frame < list[j].frame

ReplayInv ==
  /\ ReplayTypeOK
  /\ OneLoopARun
  /\ \A loop \in loops : LoopGoesOn(loop, replaySent)
  /\ RunsUpTo(replaySent, runId)
  /\ InOrder(replaySent)
  /\ Replay!RunningHasALoop

LEMMA ReplayNumbers == Count \in Nat /\ MaxRuns \in Nat /\ MaxSends \in Nat
BY ReplayAssumption

(***************************************************************************)
(* A packet more: it keeps the order when it belongs to no run, or to one  *)
(* that nothing sent is later than and that it goes on.                    *)
(***************************************************************************)
LEMMA SentAfter ==
  ASSUME NEW list \in Seq(SentPackets), NEW run \in Nat, NEW frame \in Nat
  PROVE  LET more == Append(list, [run |-> run, frame |-> frame])
         IN  /\ more \in Seq(SentPackets)
             /\ Len(more) = Len(list) + 1
             /\ \A i \in DOMAIN more : \/ i \in DOMAIN list /\ more[i] = list[i]
                                       \/ i = Len(list) + 1 /\ more[i].run = run /\ more[i].frame = frame
<1> DEFINE packet == [run |-> run, frame |-> frame]
           more == Append(list, packet)
<1>1. packet \in SentPackets /\ packet.run = run /\ packet.frame = frame
  BY DEF SentPackets
<1>2. more \in Seq(SentPackets) /\ Len(more) = Len(list) + 1
  BY <1>1, AppendProperties
<1>3. ASSUME NEW i \in DOMAIN more
      PROVE  \/ i \in DOMAIN list /\ more[i] = list[i]
             \/ i = Len(list) + 1 /\ more[i] = packet
  <2>1. Len(list) \in Nat /\ DOMAIN list = 1 .. Len(list) /\ DOMAIN more = 1 .. Len(list) + 1
    BY <1>2, LenProperties
  <2>2. CASE i = Len(list) + 1
    BY <1>1, <2>2, AppendProperties
  <2>3. CASE i # Len(list) + 1
    <3>1. i \in 1 .. Len(list)
      BY <1>3, <2>1, <2>3
    <3> QED
      BY <1>1, <2>1, <3>1, AppendProperties
  <2> QED
    BY <2>2, <2>3
<1> QED
  BY <1>1, <1>2, <1>3

LEMMA SendKeepsOrder ==
  ASSUME NEW list \in Seq(SentPackets), NEW run \in Nat, NEW frame \in Nat, InOrder(list),
         run # 0 => \A i \in DOMAIN list : list[i].run <= run /\ (list[i].run = run => list[i].frame < frame)
  PROVE  InOrder(Append(list, [run |-> run, frame |-> frame]))
<1> DEFINE more == Append(list, [run |-> run, frame |-> frame])
<1>1. /\ more \in Seq(SentPackets) /\ Len(more) = Len(list) + 1
      /\ \A i \in DOMAIN more : \/ i \in DOMAIN list /\ more[i] = list[i]
                                \/ i = Len(list) + 1 /\ more[i].run = run /\ more[i].frame = frame
  BY SentAfter
<1>2. Len(list) \in Nat /\ DOMAIN list = 1 .. Len(list) /\ DOMAIN more = 1 .. Len(list) + 1
  BY <1>1, LenProperties
<1> HIDE DEF more
<1> SUFFICES ASSUME NEW i \in DOMAIN more, NEW j \in DOMAIN more, i < j, more[i].run # 0, more[j].run # 0
             PROVE  more[i].run <= more[j].run /\ (more[i].run = more[j].run => more[i].frame < more[j].frame)
  BY DEF InOrder, more
<1>3. i \in DOMAIN list /\ more[i] = list[i]
  BY <1>1, <1>2
<1>4. CASE j \in DOMAIN list /\ more[j] = list[j]
  BY <1>3, <1>4 DEF InOrder
<1>5. CASE j = Len(list) + 1 /\ more[j].run = run /\ more[j].frame = frame
  BY <1>3, <1>5
<1> QED
  BY <1>1, <1>4, <1>5

(***************************************************************************)
(* A whole sequence at once, of a run later than everything sent.          *)
(***************************************************************************)
LEMMA SequenceKeepsOrder ==
  ASSUME NEW list \in Seq(SentPackets), NEW run \in Nat, NEW frames \in Seq(Nat), NEW added,
         InOrder(list), Increasing(frames), \A i \in DOMAIN list : list[i].run < run,
         added = [n \in DOMAIN frames |-> [run |-> run, frame |-> frames[n]]]
  PROVE  LET all == list \o added
         IN  /\ all \in Seq(SentPackets) /\ Len(all) = Len(list) + Len(frames)
             /\ InOrder(all) /\ RunsUpTo(all, run)
             /\ \A i \in DOMAIN all : (i \in DOMAIN list /\ all[i] = list[i]) \/ all[i].run = run
<1> DEFINE all == list \o added
           l == Len(list)
           m == Len(frames)
<1>1. l \in Nat /\ m \in Nat /\ DOMAIN list = 1 .. l /\ DOMAIN frames = 1 .. m
  BY LenProperties
<1>2. added \in Seq(SentPackets) /\ Len(added) = m
  <2>1. added \in [1 .. m -> SentPackets]
    BY <1>1, ElementOfSeq DEF SentPackets
  <2> QED
    BY <1>1, <2>1, SeqDef, LenProperties
<1>3. all \in Seq(SentPackets) /\ Len(all) = l + m
  <2>1. added \in Seq(SentPackets)
    BY <1>2
  <2>2. list \o added \in Seq(SentPackets) /\ Len(list \o added) = Len(list) + Len(added)
    BY <2>1, ConcatProperties
  <2> QED
    BY <1>2, <2>2
<1>4. DOMAIN all = 1 .. l + m
  BY <1>1, <1>3, LenProperties
<1>5. ASSUME NEW i \in DOMAIN all
      PROVE  \/ i \in DOMAIN list /\ all[i] = list[i]
             \/ /\ i > l /\ i - l \in DOMAIN frames
                /\ all[i].run = run /\ all[i].frame = frames[i - l]
  <2>1. i \in 1 .. l + m /\ all[i] = IF i <= l THEN list[i] ELSE added[i - l]
    BY <1>2, <1>4, <1>5, ConcatProperties
  <2>2. CASE i <= l
    BY <1>1, <2>1, <2>2
  <2>3. CASE i > l
    <3>1. i - l \in 1 .. m
      BY <1>1, <2>1, <2>3
    <3>2. all[i] = added[i - l]
      BY <1>1, <2>1, <2>3
    <3>3. added[i - l] = [run |-> run, frame |-> frames[i - l]]
      BY <1>1, <3>1
    <3> QED
      BY <1>1, <2>3, <3>1, <3>2, <3>3
  <2> QED
    BY <1>1, <2>1, <2>2, <2>3
<1> HIDE DEF all
<1>6. \A i \in DOMAIN list : list[i].run \in Nat
  <2>1. \A i \in DOMAIN list : list[i] \in SentPackets
    BY <1>1, ElementOfSeq
  <2> QED
    BY <2>1 DEF SentPackets
<1>7. \A i \in DOMAIN all : all[i].run <= run
  <2> SUFFICES ASSUME NEW i \in DOMAIN all PROVE all[i].run <= run
    OBVIOUS
  <2>1. CASE i \in DOMAIN list /\ all[i] = list[i]
    BY <1>6, <2>1
  <2>2. CASE all[i].run = run
    BY <2>2
  <2> QED
    BY <1>5, <2>1, <2>2
<1>8. InOrder(all)
  <2> SUFFICES ASSUME NEW i \in DOMAIN all, NEW j \in DOMAIN all, i < j, all[i].run # 0, all[j].run # 0
               PROVE  all[i].run <= all[j].run /\ (all[i].run = all[j].run => all[i].frame < all[j].frame)
    BY DEF InOrder
  <2> DEFINE Old(k) == k \in DOMAIN list /\ all[k] = list[k]
             New(k) == /\ k > l /\ k - l \in DOMAIN frames
                       /\ all[k].run = run /\ all[k].frame = frames[k - l]
  <2>1. (Old(i) \/ New(i)) /\ (Old(j) \/ New(j)) /\ i \in Nat /\ j \in Nat
    BY <1>1, <1>4, <1>5
  <2>2. CASE Old(i) /\ Old(j)
    BY <2>2 DEF InOrder
  <2>3. CASE Old(i) /\ New(j)
    BY <2>3, <1>6
  <2>4. CASE New(i) /\ New(j)
    <3>1. i - l < j - l
      BY <1>1, <2>1
    <3>2. frames[i - l] < frames[j - l]
      BY <2>4, <3>1 DEF Increasing
    <3> QED
      BY <2>4, <3>2
  <2>5. ~(New(i) /\ Old(j))
    BY <1>1, <2>1
  <2> QED
    BY <2>1, <2>2, <2>3, <2>4, <2>5
<1> QED
  BY <1>1, <1>3, <1>5, <1>7, <1>8 DEF RunsUpTo, all

LEMMA FramesAreIncreasing ==
  ASSUME ReplayTypeOK
  PROVE  Replay!ReplaySequencePackets \in Seq(Nat) /\ Increasing(Replay!ReplaySequencePackets)
<1> DEFINE last == IF replaySelected = 0 THEN Len(replaySent) ELSE replaySelected
           size == IF last < Count THEN last ELSE Count
           frames == [n \in 1 .. size |-> last - size + n]
<1>1. last \in Nat
  BY LenProperties DEF ReplayTypeOK
<1>2. size \in Nat /\ size <= last
  BY <1>1, ReplayNumbers
<1> HIDE DEF last, size
<1>3. \A n \in 1 .. size : (last - size) + n \in Nat
  BY <1>1, <1>2
<1>4. frames \in [1 .. size -> Nat]
  BY <1>3
<1>5. frames \in Seq(Nat)
  BY <1>2, <1>4, SeqDef
<1>6. Increasing(frames)
  BY <1>1, <1>2 DEF Increasing
<1>7. Replay!ReplaySequencePackets = frames
  BY DEF Replay!ReplaySequencePackets, frames, size, last
<1> QED
  BY <1>5, <1>6, <1>7

LEMMA ReplayInitHolds == Replay!Init => ReplayInv
<1> SUFFICES ASSUME Replay!Init PROVE ReplayInv
  OBVIOUS
<1>1. replaySent = << >> /\ loops = {} /\ runId = 0 /\ kind = "idle" /\ replaySelected = 0
  BY DEF Replay!Init
<1>2. replaySent \in Seq(SentPackets) /\ Len(replaySent) = 0 /\ DOMAIN replaySent = {}
  BY <1>1, EmptySeq
<1>3. ReplayTypeOK
  BY <1>1, <1>2, ReplayNumbers DEF ReplayTypeOK
<1> QED
  BY <1>1, <1>2, <1>3 DEF ReplayInv, OneLoopARun, RunsUpTo, InOrder, Replay!RunningHasALoop

(***************************************************************************)
(* The panel's run number goes up, or stays, and no loop goes on: every    *)
(* loop still there was one before.                                        *)
(***************************************************************************)
LEMMA RunsMoveOn ==
  ASSUME ReplayInv, loops' \subseteq loops, UNCHANGED replaySent,
         runId' \in runId .. MaxRuns, kind' \in {"idle", "running", "success", "error"},
         replaySelected' \in 0 .. Len(replaySent),
         kind' = "running" => \E loop \in loops' : loop.run = runId'
  PROVE  ReplayInv'
<1>1. runId \in 0 .. MaxRuns /\ runId' \in 0 .. MaxRuns /\ runId <= runId'
  BY ReplayNumbers DEF ReplayInv, ReplayTypeOK
<1>2. \A loop \in loops' : LoopTypeOK(loop)'
  <2> SUFFICES ASSUME NEW loop \in loops' PROVE LoopTypeOK(loop)'
    OBVIOUS
  <2>1. LoopTypeOK(loop)
    BY DEF ReplayInv, ReplayTypeOK
  <2>2. loop.run \in 1 .. runId /\ loop = [run |-> loop.run, next |-> loop.next, frames |-> loop.frames]
    BY <2>1 DEF LoopTypeOK
  <2>3. loop.run \in 1 .. runId'
    BY <1>1, <2>2
  <2> QED
    BY <2>1, <2>2, <2>3 DEF LoopTypeOK
<1>3. ReplayTypeOK'
  BY <1>1, <1>2 DEF ReplayInv, ReplayTypeOK
<1>4. RunsUpTo(replaySent, runId)'
  <2>1. \A i \in DOMAIN replaySent : replaySent[i].run \in Nat
    <3>1. \A i \in DOMAIN replaySent : replaySent[i] \in SentPackets
      BY LenProperties, ElementOfSeq DEF ReplayInv, ReplayTypeOK
    <3> QED
      BY <3>1 DEF SentPackets
  <2> QED
    BY <1>1, <2>1 DEF ReplayInv, RunsUpTo
<1> QED
  BY <1>3, <1>4 DEF ReplayInv, OneLoopARun, LoopGoesOn, InOrder, Replay!RunningHasALoop

(***************************************************************************)
(* A packet goes out for run: of the loops only a changed one of that run  *)
(* may wait for more.                                                      *)
(***************************************************************************)
LEMMA OneGoesOut ==
  ASSUME ReplayInv, NEW run \in Nat, NEW frame \in Nat,
         replaySent' = Append(replaySent, [run |-> run, frame |-> frame]),
         runId' \in runId .. MaxRuns, run <= runId',
         run # 0 => \A i \in DOMAIN replaySent : replaySent[i].run = run => replaySent[i].frame < frame,
         run # 0 => \A i \in DOMAIN replaySent : replaySent[i].run <= run,
         kind' \in {"running", "success"}, replaySelected' \in 0 .. Len(replaySent),
         kind' = "running" => \E loop \in loops' : loop.run = runId',
         OneLoopARun',
         \A loop \in loops' :
           \/ loop \in loops /\ loop.run # run
           \/ loop.run = run /\ LoopTypeOK(loop)' /\ frame < loop.frames[loop.next]
  PROVE  ReplayInv'
<1> DEFINE more == Append(replaySent, [run |-> run, frame |-> frame])
<1>1. replaySent \in Seq(SentPackets) /\ runId \in 0 .. MaxRuns /\ runId' \in 0 .. MaxRuns /\ runId <= runId'
  BY ReplayNumbers DEF ReplayInv, ReplayTypeOK
<1>2. /\ more \in Seq(SentPackets)
      /\ Len(more) = Len(replaySent) + 1
      /\ \A i \in DOMAIN more :
           \/ i \in DOMAIN replaySent /\ more[i] = replaySent[i]
           \/ i = Len(replaySent) + 1 /\ more[i].run = run /\ more[i].frame = frame
  BY <1>1, SentAfter
<1>3. InOrder(more)
  BY <1>1, SendKeepsOrder DEF ReplayInv
<1>4. Len(replaySent) \in Nat
  BY <1>1, LenProperties
<1>5. \A i \in DOMAIN replaySent : replaySent[i].run \in Nat /\ replaySent[i].frame \in Nat
  <2>1. \A i \in DOMAIN replaySent : replaySent[i] \in SentPackets
    BY <1>1, LenProperties, ElementOfSeq
  <2> QED
    BY <2>1 DEF SentPackets
<1>6. replaySent' = more
  OBVIOUS
<1> HIDE DEF more
<1>7. \A loop \in loops' : LoopTypeOK(loop)' /\ LoopGoesOn(loop, more)
  <2> SUFFICES ASSUME NEW loop \in loops' PROVE LoopTypeOK(loop)' /\ LoopGoesOn(loop, more)
    OBVIOUS
  <2>1. CASE loop \in loops /\ loop.run # run
    <3>1. LoopTypeOK(loop) /\ LoopGoesOn(loop, replaySent)
      BY <2>1 DEF ReplayInv, ReplayTypeOK
    <3>2. loop.run \in 1 .. runId /\ loop = [run |-> loop.run, next |-> loop.next, frames |-> loop.frames]
      BY <3>1 DEF LoopTypeOK
    <3>3. loop.run \in 1 .. runId'
      BY <1>1, <3>2
    <3>4. LoopTypeOK(loop)'
      BY <3>1, <3>2, <3>3 DEF LoopTypeOK
    <3>5. LoopGoesOn(loop, more)
      BY <1>2, <2>1, <3>1 DEF LoopGoesOn
    <3> QED
      BY <3>4, <3>5
  <2>2. CASE loop.run = run /\ LoopTypeOK(loop)' /\ frame < loop.frames[loop.next]
    <3>1. loop.run \in 1 .. runId' /\ loop.frames[loop.next] \in Nat
      <4>1. loop.frames \in Seq(Nat) /\ loop.next \in DOMAIN loop.frames /\ loop.run \in 1 .. runId'
        BY <2>2 DEF LoopTypeOK
      <4> QED
        BY <4>1, LenProperties, ElementOfSeq
    <3>2. run # 0
      BY <1>1, <2>2, <3>1
    <3>3. \A i \in DOMAIN replaySent :
            replaySent[i].run = run => replaySent[i].frame < loop.frames[loop.next]
      BY <1>5, <2>2, <3>1, <3>2
    <3> QED
      BY <1>2, <2>2, <3>3 DEF LoopGoesOn
  <2> QED
    BY <2>1, <2>2
<1>8. ReplayTypeOK'
  <2>1. replaySelected' \in 0 .. Len(more)
    BY <1>2, <1>4
  <2> QED
    BY <1>1, <1>2, <1>6, <1>7, <2>1 DEF ReplayTypeOK
<1>9. RunsUpTo(more, runId')
  BY <1>1, <1>2, <1>5 DEF RunsUpTo, ReplayInv
<1> QED
  BY <1>3, <1>6, <1>7, <1>8, <1>9 DEF ReplayInv, Replay!RunningHasALoop

LEMMA ReplayFacts ==
  ASSUME ReplayInv
  PROVE  /\ runId \in Nat /\ runId <= MaxRuns /\ replaySent \in Seq(SentPackets)
         /\ Len(replaySent) \in Nat /\ replaySelected \in 0 .. Len(replaySent)
         /\ kind \in {"idle", "running", "success", "error"}
         /\ DOMAIN replaySent = 1 .. Len(replaySent)
         /\ \A i \in DOMAIN replaySent :
              replaySent[i].run \in Nat /\ replaySent[i].frame \in Nat /\ replaySent[i].run <= runId
<1>1. runId \in 0 .. MaxRuns /\ replaySent \in Seq(SentPackets) /\ replaySelected \in 0 .. Len(replaySent)
      /\ kind \in {"idle", "running", "success", "error"}
  BY DEF ReplayInv, ReplayTypeOK
<1>2. Len(replaySent) \in Nat /\ DOMAIN replaySent = 1 .. Len(replaySent)
  BY <1>1, LenProperties
<1>3. \A i \in DOMAIN replaySent : replaySent[i] \in SentPackets
  BY <1>1, <1>2, ElementOfSeq
<1>4. \A i \in DOMAIN replaySent : replaySent[i].run <= runId
  BY DEF ReplayInv, RunsUpTo
<1> QED
  BY <1>1, <1>2, <1>3, <1>4, ReplayNumbers DEF SentPackets

(***************************************************************************)
(* A status the panel resets cancels the run, any other keeps it.          *)
(***************************************************************************)
LEMMA ShowKeeps ==
  ASSUME ReplayInv, NEW k \in {"idle", "running", "success", "error"}, NEW online, online \in BOOLEAN,
         online \/ runId < MaxRuns, Replay!Show(k, runId, online)
  PROVE  /\ runId' \in runId .. MaxRuns /\ kind' \in {"idle", k}
         /\ kind' = "running" => k = "running" /\ runId' = runId /\ online
BY ReplayFacts, ReplayNumbers DEF Replay!Show

LEMMA SendOneKeeps ==
  ASSUME ReplayInv, Replay!SendOne,
         replaySelected' \in 0 .. Len(replaySent)
  PROVE  ReplayInv'
<1>1. CASE /\ replaySent' = Replay!Send(Replay!Outside, 0) /\ kind' = "success"
           /\ UNCHANGED <<runId, loops>>
  <2>1. replaySent' = Append(replaySent, [run |-> 0, frame |-> 0])
    BY <1>1 DEF Replay!Send, Replay!Outside
  <2>2. runId' \in runId .. MaxRuns /\ 0 <= runId'
    BY <1>1, ReplayFacts, ReplayNumbers
  <2>3. \A loop \in loops' : loop \in loops /\ loop.run # 0
    <3>1. \A loop \in loops : loop.run \in 1 .. runId
      BY DEF ReplayInv, ReplayTypeOK, LoopTypeOK
    <3> QED
      BY <1>1, <3>1, ReplayFacts
  <2>4. OneLoopARun'
    BY <1>1 DEF ReplayInv, OneLoopARun
  <2> QED
    BY <1>1, <2>1, <2>2, <2>3, <2>4, OneGoesOut
<1>2. CASE kind' = "error" /\ UNCHANGED <<replaySent, runId, loops>>
  <2>1. runId' \in runId .. MaxRuns
    BY <1>2, ReplayFacts, ReplayNumbers
  <2> QED
    BY <1>2, <2>1, RunsMoveOn
<1> QED
  BY <1>1, <1>2 DEF Replay!SendOne

LEMMA SingleSendsKeep ==
  ASSUME ReplayInv,
         Replay!HandleSendDraft \/ Replay!HandleReplayPacket \/ Replay!HandleLoadPacket \/ Replay!EditDraft
  PROVE  ReplayInv'
<1>1. CASE Replay!HandleSendDraft
  BY <1>1, ReplayFacts, SendOneKeeps DEF Replay!HandleSendDraft
<1>2. CASE Replay!HandleReplayPacket
  <2>1. replaySelected' \in 0 .. Len(replaySent) /\ Replay!SendOne
    BY <1>2, ReplayFacts DEF Replay!HandleReplayPacket
  <2> QED
    BY <2>1, SendOneKeeps
<1>3. CASE Replay!HandleLoadPacket \/ Replay!EditDraft
  <2>1. /\ UNCHANGED <<runId, loops, replaySent>> /\ kind' = "idle"
        /\ replaySelected' \in 0 .. Len(replaySent)
    BY <1>3, ReplayFacts DEF Replay!HandleLoadPacket, Replay!EditDraft
  <2>2. runId' \in runId .. MaxRuns
    BY <2>1, ReplayFacts, ReplayNumbers
  <2> QED
    BY <2>1, <2>2, RunsMoveOn
<1> QED
  BY <1>1, <1>2, <1>3

LEMMA CancelsKeep ==
  ASSUME ReplayInv,
         \/ Replay!Connects \/ Replay!Disconnects \/ Replay!HandleClearReplayErrors \/ Replay!Unmount
         \/ UNCHANGED replayVars
  PROVE  ReplayInv'
<1>1. CASE Replay!Connects \/ UNCHANGED replayVars
  <2>1. UNCHANGED <<kind, runId, loops, replaySelected, replaySent>>
    BY <1>1 DEF Replay!Connects, replayVars
  <2>2. runId' \in runId .. MaxRuns
    BY <2>1, ReplayFacts, ReplayNumbers
  <2>3. kind' = "running" => \E loop \in loops' : loop.run = runId'
    BY <2>1 DEF ReplayInv, Replay!RunningHasALoop
  <2> QED
    BY <2>1, <2>2, <2>3, ReplayFacts, RunsMoveOn
<1>2. CASE Replay!Disconnects
  <2>1. /\ runId < MaxRuns /\ Replay!Show(kind, runId, FALSE)
        /\ UNCHANGED <<loops, replaySelected, replaySent>>
    BY <1>2 DEF Replay!Disconnects
  <2>2. runId' \in runId .. MaxRuns /\ kind' \in {"idle", kind} /\ kind' # "running"
    BY <2>1, ReplayFacts, ShowKeeps
  <2> QED
    BY <2>1, <2>2, ReplayFacts, RunsMoveOn
<1>3. CASE Replay!HandleClearReplayErrors \/ Replay!Unmount
  <2>1. /\ runId < MaxRuns /\ runId' = runId + 1 /\ kind' = "idle" /\ UNCHANGED <<loops, replaySent>>
        /\ replaySelected' \in {replaySelected, 0}
    BY <1>3 DEF Replay!HandleClearReplayErrors, Replay!Unmount
  <2>2. runId' \in runId .. MaxRuns /\ replaySelected' \in 0 .. Len(replaySent)
    BY <2>1, ReplayFacts, ReplayNumbers
  <2> QED
    BY <2>1, <2>2, RunsMoveOn
<1> QED
  BY <1>1, <1>2, <1>3

LEMMA SequenceKeeps ==
  ASSUME ReplayInv, Replay!HandleReplaySequence
  PROVE  ReplayInv'
<1> DEFINE frames == Replay!ReplaySequencePackets
           run == runId + 1
<1>1. frames \in Seq(Nat) /\ Increasing(frames) /\ Len(frames) \in Nat /\ DOMAIN frames = 1 .. Len(frames)
  BY FramesAreIncreasing, LenProperties DEF ReplayInv
<1>2. /\ runId < MaxRuns /\ runId' = run /\ UNCHANGED replaySelected
      /\ \/ kind' = "error" /\ UNCHANGED <<loops, replaySent>>
         \/ replaySent' = Replay!Send(run, frames[1]) /\ kind' = "success" /\ UNCHANGED loops /\ Len(frames) = 1
         \/ /\ Len(frames) > 1 /\ replaySent' = Replay!Send(run, frames[1])
            /\ loops' = loops \cup {[run |-> run, next |-> 2, frames |-> frames]} /\ kind' = "running"
         \/ /\ replaySent' = replaySent \o [n \in DOMAIN frames |-> [run |-> run, frame |-> frames[n]]]
            /\ kind' = "success" /\ UNCHANGED loops
  BY DEF Replay!HandleReplaySequence
<1> HIDE DEF frames
<1>3. run \in 1 .. MaxRuns /\ runId' \in runId .. MaxRuns /\ run \in Nat /\ run # 0
  BY <1>2, ReplayFacts, ReplayNumbers
<1>4. \A i \in DOMAIN replaySent : replaySent[i].run < run
  BY ReplayFacts
<1>5. \A loop \in loops : loop.run < run /\ loop.run # run
  <2>1. \A loop \in loops : loop.run \in 1 .. runId
    BY DEF ReplayInv, ReplayTypeOK, LoopTypeOK
  <2> QED
    BY <2>1, ReplayFacts
<1>6. ASSUME replaySent' = Replay!Send(run, frames[1]), Len(frames) >= 1,
             kind' \in {"running", "success"},
             kind' = "running" => \E loop \in loops' : loop.run = runId',
             OneLoopARun',
             \A loop \in loops' : \/ loop \in loops
                                  \/ loop.run = run /\ LoopTypeOK(loop)' /\ frames[1] < loop.frames[loop.next]
      PROVE  ReplayInv'
  <2>1. frames[1] \in Nat
    BY <1>1, <1>6, ElementOfSeq
  <2>2. replaySent' = Append(replaySent, [run |-> run, frame |-> frames[1]])
    BY <1>6 DEF Replay!Send
  <2>3. \A i \in DOMAIN replaySent : /\ replaySent[i].run <= run
                                     /\ replaySent[i].run = run => replaySent[i].frame < frames[1]
    BY <1>3, <1>4, ReplayFacts
  <2>4. replaySelected' \in 0 .. Len(replaySent) /\ run <= runId'
    BY <1>2, <1>3, ReplayFacts
  <2> HIDE DEF run
  <2> QED
    BY <1>3, <1>5, <1>6, <2>1, <2>2, <2>3, <2>4, OneGoesOut
<1>7. CASE kind' = "error" /\ UNCHANGED <<loops, replaySent>>
  BY <1>2, <1>3, <1>7, ReplayFacts, RunsMoveOn
<1>8. CASE replaySent' = Replay!Send(run, frames[1]) /\ kind' = "success" /\ UNCHANGED loops /\ Len(frames) = 1
  <2>1. OneLoopARun'
    BY <1>8 DEF ReplayInv, OneLoopARun
  <2> QED
    BY <1>6, <1>8, <2>1
<1>9. CASE /\ Len(frames) > 1 /\ replaySent' = Replay!Send(run, frames[1])
           /\ loops' = loops \cup {[run |-> run, next |-> 2, frames |-> frames]} /\ kind' = "running"
  <2> DEFINE new == [run |-> run, next |-> 2, frames |-> frames]
  <2>1. new.run = run /\ new.next = 2 /\ new.frames = frames
    OBVIOUS
  <2>2. ASSUME NEW loop \in loops', loop = new
        PROVE  LoopTypeOK(loop)' /\ frames[1] < loop.frames[loop.next]
    <3>1. 1 \in DOMAIN frames /\ 2 \in DOMAIN frames
      BY <1>1, <1>9
    <3>2. run \in 1 .. runId'
      BY <1>2, <1>3
    <3>3. loop = [run |-> run, next |-> 2, frames |-> frames]
      BY <2>2
    <3>4. loop \in [run : 1 .. runId', next : Nat, frames : Seq(Nat)]
      BY <1>1, <3>2, <3>3
    <3>5. loop.next = 2 /\ loop.frames = frames
      BY <3>3
    <3>6. frames[1] < frames[2]
      BY <1>1, <3>1 DEF Increasing
    <3> QED
      BY <1>1, <3>1, <3>4, <3>5, <3>6 DEF LoopTypeOK
  <2>3. \A loop \in loops' : loop \in loops \/ loop = new
    BY <1>9
  <2>4. OneLoopARun'
    BY <1>5, <2>1, <2>3 DEF ReplayInv, OneLoopARun
  <2>5. \E loop \in loops' : loop.run = runId'
    BY <1>2, <1>9, <2>1
  <2> HIDE DEF new
  <2>6. ASSUME NEW loop \in loops', loop \notin loops
        PROVE  loop.run = run /\ LoopTypeOK(loop)' /\ frames[1] < loop.frames[loop.next]
    <3>1. loop = new
      BY <2>3, <2>6
    <3> QED
      BY <2>1, <2>2, <3>1
  <2> QED
    BY <1>1, <1>6, <1>9, <2>4, <2>5, <2>6
<1>10. CASE /\ replaySent' = replaySent \o [n \in DOMAIN frames |-> [run |-> run, frame |-> frames[n]]]
            /\ kind' = "success" /\ UNCHANGED loops
  <2>1. /\ replaySent' \in Seq(SentPackets) /\ Len(replaySent') = Len(replaySent) + Len(frames)
        /\ InOrder(replaySent') /\ RunsUpTo(replaySent', run)
        /\ \A i \in DOMAIN replaySent' :
             (i \in DOMAIN replaySent /\ replaySent'[i] = replaySent[i]) \/ replaySent'[i].run = run
    <3> HIDE DEF run
    <3>1. replaySent \in Seq(SentPackets) /\ InOrder(replaySent)
      BY ReplayFacts DEF ReplayInv
    <3> DEFINE added == [n \in DOMAIN frames |-> [run |-> run, frame |-> frames[n]]]
               all == replaySent \o added
    <3>2. /\ all \in Seq(SentPackets) /\ Len(all) = Len(replaySent) + Len(frames)
          /\ InOrder(all) /\ RunsUpTo(all, run)
          /\ \A i \in DOMAIN all :
               (i \in DOMAIN replaySent /\ all[i] = replaySent[i]) \/ all[i].run = run
      <4>1. \A list : list = added =>
              LET more == replaySent \o list
              IN  /\ more \in Seq(SentPackets) /\ Len(more) = Len(replaySent) + Len(frames)
                  /\ InOrder(more) /\ RunsUpTo(more, run)
                  /\ \A i \in DOMAIN more :
                       (i \in DOMAIN replaySent /\ more[i] = replaySent[i]) \/ more[i].run = run
        BY <1>1, <1>3, <1>4, <3>1, SequenceKeepsOrder
      <4> HIDE DEF added
      <4> QED
        BY <4>1
    <3>3. replaySent' = all
      BY <1>10
    <3> HIDE DEF all
    <3> QED
      BY <3>2, <3>3
  <2>2. replaySelected' \in 0 .. Len(replaySent') /\ runId' \in 0 .. MaxRuns
    BY <1>1, <1>2, <1>3, <2>1, ReplayFacts
  <2>3. \A loop \in loops' : LoopTypeOK(loop)' /\ LoopGoesOn(loop, replaySent')
    <3> SUFFICES ASSUME NEW loop \in loops' PROVE LoopTypeOK(loop)' /\ LoopGoesOn(loop, replaySent')
      OBVIOUS
    <3>1. LoopTypeOK(loop) /\ LoopGoesOn(loop, replaySent) /\ loop.run # run
      BY <1>5, <1>10 DEF ReplayInv, ReplayTypeOK
    <3>2. loop.run \in 1 .. runId /\ loop = [run |-> loop.run, next |-> loop.next, frames |-> loop.frames]
      BY <3>1 DEF LoopTypeOK
    <3>3. loop.run \in 1 .. runId'
      BY <1>2, <3>2, ReplayFacts
    <3>4. LoopTypeOK(loop)'
      BY <3>1, <3>2, <3>3 DEF LoopTypeOK
    <3>5. LoopGoesOn(loop, replaySent')
      BY <2>1, <3>1 DEF LoopGoesOn
    <3> QED
      BY <3>4, <3>5
  <2>4. ReplayTypeOK'
    BY <1>10, <2>1, <2>2, <2>3 DEF ReplayTypeOK
  <2>5. OneLoopARun' /\ Replay!RunningHasALoop'
    BY <1>10 DEF ReplayInv, OneLoopARun, Replay!RunningHasALoop
  <2> QED
    BY <1>2, <2>1, <2>3, <2>4, <2>5 DEF ReplayInv
<1> QED
  BY <1>2, <1>7, <1>8, <1>9, <1>10

LEMMA DelayEndsKeeps ==
  ASSUME ReplayInv, NEW loop \in loops, Replay!DelayEnds(loop)
  PROVE  ReplayInv'
<1>1. LoopTypeOK(loop) /\ LoopGoesOn(loop, replaySent) /\ OneLoopARun
  BY DEF ReplayInv, ReplayTypeOK
<1>2. /\ loop.run \in 1 .. runId /\ loop.next \in DOMAIN loop.frames /\ loop.frames \in Seq(Nat)
      /\ loop = [run |-> loop.run, next |-> loop.next, frames |-> loop.frames]
      /\ DOMAIN loop.frames = 1 .. Len(loop.frames) /\ Len(loop.frames) \in Nat /\ loop.next \in Nat
  BY <1>1, LenProperties DEF LoopTypeOK
<1>3. runId \in runId .. MaxRuns
  BY ReplayFacts, ReplayNumbers
<1>4. CASE Replay!Cancelled(loop)
  <2>1. /\ loop.run # runId /\ loops' = loops \ {loop}
        /\ UNCHANGED <<kind, runId, replaySelected, replaySent>>
    BY <1>4 DEF Replay!Cancelled, Replay!MayGoOn
  <2>2. kind' = "running" => \E other \in loops' : other.run = runId'
    BY <2>1 DEF ReplayInv, Replay!RunningHasALoop
  <2> QED
    BY <1>3, <2>1, <2>2, ReplayFacts, RunsMoveOn
<1>5. CASE Replay!SendFails(loop)
  <2>1. /\ connected \/ runId < MaxRuns
        /\ loops' = loops \ {loop} /\ UNCHANGED <<replaySelected, replaySent>>
        /\ Replay!Show("error", runId, connected)
    BY <1>5 DEF Replay!SendFails
  <2>2. runId' \in runId .. MaxRuns /\ kind' \in {"idle", "error"}
    BY <2>1, ReplayFacts, ReplayNumbers DEF Replay!Show
  <2> QED
    BY <2>1, <2>2, ReplayFacts, RunsMoveOn
<1>6. CASE Replay!SendsNext(loop)
  <2> DEFINE frame == loop.frames[loop.next]
             next == [loop EXCEPT !.next = @ + 1]
  <2>1. /\ loop.run = runId /\ replaySent' = Replay!Send(loop.run, frame)
        /\ UNCHANGED <<runId, replaySelected>>
        /\ IF loop.next = Len(loop.frames)
             THEN kind' = "success" /\ loops' = loops \ {loop}
             ELSE kind' = "running" /\ loops' = (loops \ {loop}) \cup {next}
    BY <1>6 DEF Replay!SendsNext, Replay!MayGoOn
  <2>2. frame \in Nat /\ replaySent' = Append(replaySent, [run |-> runId, frame |-> frame])
    <3>1. frame \in Nat
      BY <1>2, ElementOfSeq
    <3> QED
      BY <2>1, <3>1 DEF Replay!Send
  <2>3. \A i \in DOMAIN replaySent : /\ replaySent[i].run <= runId
                                     /\ replaySent[i].run = runId => replaySent[i].frame < frame
    BY <1>1, <2>1, ReplayFacts DEF LoopGoesOn
  <2>4. \A other \in loops \ {loop} : other.run # runId
    BY <1>1, <2>1 DEF OneLoopARun
  <2>5. runId' \in runId .. MaxRuns /\ runId <= runId' /\ replaySelected' \in 0 .. Len(replaySent) /\ runId \in Nat
    BY <1>3, <2>1, ReplayFacts
  <2>6. CASE loop.next = Len(loop.frames)
    <3>1. kind' = "success" /\ loops' = loops \ {loop}
      BY <2>1, <2>6
    <3>2. OneLoopARun'
      BY <1>1, <3>1 DEF OneLoopARun
    <3> HIDE DEF frame
    <3> QED
      BY <2>2, <2>3, <2>4, <2>5, <3>1, <3>2, OneGoesOut
  <2>7. CASE loop.next # Len(loop.frames)
    <3>1. kind' = "running" /\ loops' = (loops \ {loop}) \cup {next}
      BY <2>1, <2>7
    <3>2. next = [run |-> loop.run, next |-> loop.next + 1, frames |-> loop.frames]
      BY <1>2
    <3>3. next.run = runId /\ next.next = loop.next + 1 /\ next.frames = loop.frames
      BY <2>1, <3>2
    <3>4. loop.next + 1 \in DOMAIN loop.frames /\ loop.next < loop.next + 1
      BY <1>2, <2>7
    <3>5. LoopTypeOK(next)'
      BY <1>1, <1>2, <2>1, <3>2, <3>3, <3>4 DEF LoopTypeOK
    <3>6. frame < next.frames[next.next]
      BY <1>1, <1>2, <3>3, <3>4 DEF LoopTypeOK, Increasing
    <3> HIDE DEF frame, next
    <3>7. OneLoopARun'
      BY <1>1, <2>4, <3>1, <3>3 DEF OneLoopARun
    <3>8. \E other \in loops' : other.run = runId'
      BY <2>1, <3>1, <3>3
    <3>9. \A other \in loops' :
            \/ other \in loops /\ other.run # runId
            \/ other.run = runId /\ LoopTypeOK(other)' /\ frame < other.frames[other.next]
      BY <2>4, <3>1, <3>3, <3>5, <3>6
    <3> QED
      BY <2>2, <2>3, <2>5, <3>1, <3>7, <3>8, <3>9, OneGoesOut
  <2> QED
    BY <2>6, <2>7
<1> QED
  BY <1>4, <1>5, <1>6 DEF Replay!DelayEnds

LEMMA ReplayStep == ReplayInv /\ [Replay!Next]_replayVars => ReplayInv'
<1> SUFFICES ASSUME ReplayInv, [Replay!Next]_replayVars PROVE ReplayInv'
  OBVIOUS
<1>1. CASE \E loop \in loops : Replay!DelayEnds(loop)
  BY <1>1, DelayEndsKeeps
<1> QED
  BY <1>1, SingleSendsKeep, CancelsKeep, SequenceKeeps DEF Replay!Next

(***************************************************************************)
(* A "running" status belongs to a loop that still waits and may go on,    *)
(* and what sequences send never mixes, for sequences of any length and    *)
(* any number of them (manual-send-panel.tsx).                             *)
(***************************************************************************)
THEOREM SequencesCorrect == MCInit /\ [][MCNext]_vars => []SequencesAreCancellable
<1>1. MCInit => ReplayInv
  BY ReplayInitHolds DEF MCInit
<1>2. ReplayInv /\ [MCNext]_vars => ReplayInv'
  <2>1. [MCNext]_vars => [Replay!Next]_replayVars
    BY DEF MCNext, Others, vars
  <2> QED
    BY <2>1, ReplayStep
<1>3. ReplayInv => SequencesAreCancellable
  <2> SUFFICES ASSUME ReplayInv PROVE Replay!TypeOK /\ Replay!RunningHasALoop /\ Replay!RunsDoNotMix
    BY DEF SequencesAreCancellable
  <2>1. \A loop \in loops : loop.run \in 1 .. MaxRuns /\ loop.next \in DOMAIN loop.frames
    <3>1. \A loop \in loops : loop.run \in 1 .. runId /\ loop.next \in DOMAIN loop.frames
      BY DEF ReplayInv, ReplayTypeOK, LoopTypeOK
    <3> QED
      BY <3>1, ReplayFacts, ReplayNumbers
  <2>2. Replay!TypeOK
    BY <2>1 DEF ReplayInv, ReplayTypeOK, Replay!TypeOK
  <2>3. Replay!RunsDoNotMix
    BY DEF ReplayInv, InOrder, Replay!RunsDoNotMix, Replay!Outside
  <2> QED
    BY <2>2, <2>3 DEF ReplayInv
<1> QED
  BY <1>1, <1>2, <1>3, PTL

----------------------------------------------------------------------------
(* AI analysis and model list: any packets, URLs and bounds on requests *)

(***************************************************************************)
(* Requests are numbered as they are sent, so a mount of the panel can     *)
(* tell its last one by the number; and none belongs to a later mount, so  *)
(* a new panel, or a page shown again, starts with nothing under way.      *)
(***************************************************************************)
RequestsInv ==
  /\ Ai!TypeOK
  /\ \A r \in requests : r.id <= sent
  /\ \A q, r \in requests : q.id = r.id => q = r
  /\ \A r \in requests : r.what = "analysis" => r.mount <= panelMount
  /\ \A r \in requests : r.what = "models" => r.mount <= pageMount

OfPanel(r) == r \in requests /\ r.what = "analysis" /\ r.mount = panelMount
OfPage(r)  == r \in requests /\ r.what = "models" /\ r.mount = pageMount

PanelInv ==
  /\ panel.of = asked
  /\ \A r \in requests : OfPanel(r) => r.id = asked /\ panel.kind = "loading"
  /\ panel.kind = "loading" => \E r \in requests : OfPanel(r)

PageInv ==
  pageOpen =>
    /\ \A q, r \in requests : OfPage(q) /\ OfPage(r) => q = r
    /\ loading <=> \E r \in requests : OfPage(r)

AiInv == RequestsInv /\ PanelInv /\ PageInv

LEMMA AiTypes ==
  ASSUME RequestsInv
  PROVE  /\ provider \in Ai!Provider
         /\ pageOpen \in BOOLEAN /\ loading \in BOOLEAN
         /\ pageMount \in 1 .. MaxMounts /\ panelMount \in 1 .. MaxMounts
         /\ models \in Urls \cup {Nothing} /\ selected \in Packets \cup {Nothing}
         /\ panel \in [kind : {"idle", "loading", "result", "error"}, of : 0 .. MaxRequests]
         /\ requests \subseteq Ai!Request
         /\ asked \in 0 .. MaxRequests /\ sent \in 0 .. MaxRequests
         /\ pageMount \in Nat /\ panelMount \in Nat /\ sent \in Nat /\ MaxMounts \in Nat /\ MaxRequests \in Nat
BY AiAssumption DEF RequestsInv, Ai!TypeOK

LEMMA RequestTypes ==
  ASSUME RequestsInv, NEW r \in requests
  PROVE  /\ r \in Ai!Request
         /\ r.id \in Nat /\ r.mount \in Nat /\ r.what \in {"analysis", "models"} /\ r.provider \in Ai!Provider
<1>1. r \in Ai!Request
  BY AiTypes
<1> QED
  BY <1>1, AiTypes DEF Ai!Request

LEMMA AiInitHolds == Ai!Init => AiInv
<1> SUFFICES ASSUME Ai!Init PROVE AiInv
  OBVIOUS
<1>1. Ai!DefaultProvider \in Ai!Provider
  BY AiAssumption DEF Ai!DefaultProvider, Ai!Provider
<1>2. Ai!Idle \in [kind : {"idle", "loading", "result", "error"}, of : 0 .. MaxRequests]
      /\ Ai!Idle.of = 0 /\ Ai!Idle.kind = "idle"
  BY AiAssumption DEF Ai!Idle
<1>3. Ai!TypeOK
  <2>1. 1 \in 1 .. MaxMounts /\ 0 \in 0 .. MaxRequests
    BY AiAssumption
  <2>2. pageOpen \in BOOLEAN /\ loading \in BOOLEAN
    BY DEF Ai!Init
  <2>3. requests \subseteq Ai!Request
    BY DEF Ai!Init
  <2>4. provider \in Ai!Provider
    BY <1>1 DEF Ai!Init
  <2>5. panel \in [kind : {"idle", "loading", "result", "error"}, of : 0 .. MaxRequests]
    BY <1>2 DEF Ai!Init
  <2> QED
    BY <2>1, <2>2, <2>3, <2>4, <2>5 DEF Ai!Init, Ai!TypeOK
<1> QED
  BY <1>2, <1>3 DEF Ai!Init, AiInv, RequestsInv, PanelInv, PageInv, OfPanel, OfPage

(***************************************************************************)
(* Moving about: no request is sent or answered.                           *)
(***************************************************************************)
LEMMA PageOpensOrCloses ==
  ASSUME AiInv, Ai!OpenSettings \/ Ai!CloseSettings
  PROVE  AiInv'
<1>1. UNCHANGED <<provider, selected, panelMount, panel, asked, requests, sent>>
  BY DEF Ai!OpenSettings, Ai!CloseSettings, Ai!panelVars
<1>2. \/ pageOpen' = TRUE /\ pageMount < MaxMounts /\ pageMount' = pageMount + 1 /\ loading' = FALSE /\ models' = Nothing
      \/ pageOpen' = FALSE /\ UNCHANGED <<pageMount, loading, models>>
  BY DEF Ai!OpenSettings, Ai!CloseSettings
<1>3. RequestsInv
  BY DEF AiInv
<1>4. /\ pageMount' \in 1 .. MaxMounts /\ pageMount <= pageMount' /\ (pageOpen' => pageMount < pageMount')
      /\ models' \in Urls \cup {Nothing} /\ pageOpen' \in BOOLEAN /\ loading' \in BOOLEAN
  <2>1. CASE pageOpen' = TRUE /\ pageMount < MaxMounts /\ pageMount' = pageMount + 1 /\ loading' = FALSE
             /\ models' = Nothing
    <3>1. pageMount' \in 1 .. MaxMounts /\ pageMount < pageMount' /\ pageMount <= pageMount'
      BY <1>3, <2>1, AiTypes
    <3> QED
      BY <2>1, <3>1
  <2>2. CASE pageOpen' = FALSE /\ UNCHANGED <<pageMount, loading, models>>
    <3>1. pageMount' \in 1 .. MaxMounts /\ pageMount <= pageMount'
      BY <1>3, <2>2, AiTypes
    <3>2. loading' \in BOOLEAN /\ pageOpen' \in BOOLEAN /\ models' \in Urls \cup {Nothing}
      BY <1>3, <2>2, AiTypes
    <3> QED
      BY <2>2, <3>1, <3>2
  <2> QED
    BY <1>2, <2>1, <2>2
<1>5. Ai!TypeOK'
  BY <1>1, <1>3, <1>4 DEF RequestsInv, Ai!TypeOK
<1>6. \A r \in requests : r.what = "models" => r.mount <= pageMount' /\ (pageOpen' => r.mount # pageMount')
  BY <1>3, <1>4, AiTypes, RequestTypes DEF RequestsInv
<1>7. RequestsInv'
  BY <1>1, <1>3, <1>5, <1>6 DEF RequestsInv
<1>8. PanelInv'
  BY <1>1 DEF AiInv, PanelInv, OfPanel
<1>9. PageInv'
  <2>1. \A r : ~(OfPage(r)' /\ pageOpen')
    BY <1>1, <1>6 DEF OfPage
  <2>2. pageOpen' => loading' = FALSE
    BY <1>2
  <2> QED
    BY <2>1, <2>2 DEF PageInv
<1> QED
  BY <1>7, <1>8, <1>9 DEF AiInv

LEMMA SelectPacketKeeps ==
  ASSUME AiInv, NEW p \in Packets \cup {Nothing}, Ai!SelectPacket(p)
  PROVE  AiInv'
<1>1. /\ UNCHANGED <<provider, pageOpen, pageMount, loading, models, requests, sent>>
      /\ selected' = p
      /\ \/ panelMount < MaxMounts /\ panelMount' = panelMount + 1 /\ panel' = Ai!Idle /\ asked' = 0
         \/ UNCHANGED <<panelMount, panel, asked>>
  BY DEF Ai!SelectPacket, Ai!pageVars
<1>2. RequestsInv
  BY DEF AiInv
<1>3. PageInv'
  BY <1>1 DEF AiInv, PageInv, OfPage
<1>4. CASE UNCHANGED <<panelMount, panel, asked>>
  <2>1. Ai!TypeOK'
    BY <1>1, <1>2, <1>4 DEF RequestsInv, Ai!TypeOK
  <2>2. RequestsInv' /\ PanelInv'
    BY <1>1, <1>2, <1>4, <2>1 DEF AiInv, RequestsInv, PanelInv, OfPanel
  <2> QED
    BY <1>3, <2>2 DEF AiInv
<1>5. CASE panelMount < MaxMounts /\ panelMount' = panelMount + 1 /\ panel' = Ai!Idle /\ asked' = 0
  <2>1. panelMount' \in 1 .. MaxMounts /\ panelMount < panelMount'
    BY <1>2, <1>5, AiTypes
  <2>2. panel' \in [kind : {"idle", "loading", "result", "error"}, of : 0 .. MaxRequests]
        /\ panel'.of = 0 /\ panel'.kind = "idle"
    BY <1>2, <1>5, AiTypes DEF Ai!Idle
  <2>3. Ai!TypeOK'
    BY <1>1, <1>2, <1>5, <2>1, <2>2 DEF RequestsInv, Ai!TypeOK
  <2>4. \A r \in requests : r.what = "analysis" => r.mount <= panelMount' /\ r.mount # panelMount'
    BY <1>2, <2>1, AiTypes, RequestTypes DEF RequestsInv
  <2>5. RequestsInv'
    BY <1>1, <1>2, <2>3, <2>4 DEF RequestsInv
  <2>6. PanelInv'
    BY <1>1, <1>5, <2>2, <2>4 DEF PanelInv, OfPanel
  <2> QED
    BY <1>3, <2>5, <2>6 DEF AiInv
<1> QED
  BY <1>1, <1>4, <1>5

LEMMA EditProviderKeeps ==
  ASSUME AiInv, Ai!EditProvider
  PROVE  AiInv'
<1>1. UNCHANGED <<pageOpen, pageMount, loading, selected, panelMount, panel, asked, requests, sent>>
  BY DEF Ai!EditProvider, Ai!panelVars
<1>2. RequestsInv
  BY DEF AiInv
<1>3. provider \in [kind : {"disabled", "ollama"}, url : Urls, model : {Model, Nothing}]
  BY <1>2, AiTypes DEF Ai!Provider
<1>4. \E new \in Ai!Provider : Ai!ProviderBecomes(new)
  <2>1. CASE \E k \in {"disabled", "ollama"} : Ai!ProviderBecomes([provider EXCEPT !.kind = k])
    BY <1>3, <2>1 DEF Ai!Provider
  <2>2. CASE Ai!ProviderBecomes(Ai!DefaultProvider)
    BY <2>2, AiAssumption DEF Ai!DefaultProvider, Ai!Provider
  <2>3. CASE \E u \in Urls : Ai!ProviderBecomes([provider EXCEPT !.url = u])
    BY <1>3, <2>3 DEF Ai!Provider
  <2>4. CASE \E m \in {Model, Nothing} : Ai!ProviderBecomes([provider EXCEPT !.model = m])
    BY <1>3, <2>4 DEF Ai!Provider
  <2> QED
    BY <2>1, <2>2, <2>3, <2>4 DEF Ai!EditProvider
<1>5. provider' \in Ai!Provider /\ models' \in Urls \cup {Nothing}
  BY <1>2, <1>4, AiTypes DEF Ai!ProviderBecomes
<1>6. Ai!TypeOK'
  BY <1>1, <1>2, <1>5 DEF RequestsInv, Ai!TypeOK
<1> QED
  BY <1>1, <1>2, <1>6 DEF AiInv, RequestsInv, PanelInv, PageInv, OfPanel, OfPage

(***************************************************************************)
(* A request sent is a new one of its mount, numbered after the others.    *)
(***************************************************************************)
LEMMA SentRequest ==
  ASSUME RequestsInv, NEW what \in {"analysis", "models"}, NEW mount \in 1 .. MaxMounts, Ai!Send(what, mount)
  PROVE  \E new \in Ai!Request :
           /\ new.id = sent + 1 /\ new.what = what /\ new.mount = mount
           /\ sent' = sent + 1 /\ sent' \in 0 .. MaxRequests /\ requests' = requests \cup {new}
           /\ requests' \subseteq Ai!Request
           /\ \A r \in requests' : r.id <= sent'
           /\ \A q, r \in requests' : q.id = r.id => q = r
<1> DEFINE new == [id |-> sent + 1, what |-> what, phase |-> "headers", mount |-> mount, provider |-> provider]
<1>1. sent < MaxRequests /\ sent' = sent + 1 /\ requests' = requests \cup {new}
  BY DEF Ai!Send
<1>2. sent + 1 \in 1 .. MaxRequests /\ sent' \in 0 .. MaxRequests
  BY <1>1, AiTypes
<1>3. new \in Ai!Request
  BY <1>2, AiTypes DEF Ai!Request
<1>4. new.id = sent + 1 /\ new.what = what /\ new.mount = mount
  OBVIOUS
<1> HIDE DEF new
<1>5. \A r \in requests : r.id <= sent /\ r.id \in Nat /\ r.id # new.id
  BY <1>4, AiTypes, RequestTypes DEF RequestsInv
<1>6. \A r \in requests' : r.id <= sent'
  BY <1>1, <1>4, <1>5, AiTypes
<1>7. \A q, r \in requests' : q.id = r.id => q = r
  BY <1>1, <1>5 DEF RequestsInv
<1>8. requests' \subseteq Ai!Request
  BY <1>1, <1>3, AiTypes
<1> QED
  BY <1>1, <1>2, <1>3, <1>4, <1>6, <1>7, <1>8

LEMMA RunActionKeeps == AiInv /\ Ai!HandleRunAction => AiInv'
<1> SUFFICES ASSUME AiInv, Ai!HandleRunAction PROVE AiInv'
  OBVIOUS
<1>1. /\ panel.kind # "loading" /\ Ai!Send("analysis", panelMount)
      /\ panel' = [kind |-> "loading", of |-> sent'] /\ asked' = sent'
      /\ UNCHANGED <<provider, pageOpen, pageMount, loading, models, selected, panelMount>>
  BY DEF Ai!HandleRunAction, Ai!MayRun, Ai!pageVars
<1>2. RequestsInv
  BY DEF AiInv
<1>3. PICK new \in Ai!Request :
        /\ new.id = sent + 1 /\ new.what = "analysis" /\ new.mount = panelMount
        /\ sent' = sent + 1 /\ sent' \in 0 .. MaxRequests /\ requests' = requests \cup {new}
        /\ requests' \subseteq Ai!Request
        /\ \A r \in requests' : r.id <= sent'
        /\ \A q, r \in requests' : q.id = r.id => q = r
  BY <1>1, <1>2, AiTypes, SentRequest
<1>4. panel' \in [kind : {"idle", "loading", "result", "error"}, of : 0 .. MaxRequests]
      /\ panel'.of = sent' /\ panel'.kind = "loading"
  BY <1>1, <1>3
<1>5. Ai!TypeOK'
  BY <1>1, <1>2, <1>3, <1>4 DEF RequestsInv, Ai!TypeOK
<1>6. RequestsInv'
  BY <1>1, <1>2, <1>3, <1>5, AiTypes DEF RequestsInv
<1>7. \A r \in requests : ~OfPanel(r)
  BY <1>1 DEF AiInv, PanelInv
<1>8. PanelInv'
  BY <1>1, <1>3, <1>4, <1>7 DEF PanelInv, OfPanel
<1>9. PageInv'
  BY <1>1, <1>3 DEF AiInv, PageInv, OfPage
<1> QED
  BY <1>6, <1>8, <1>9 DEF AiInv

LEMMA LoadModelsKeeps == AiInv /\ Ai!LoadOllamaModels => AiInv'
<1> SUFFICES ASSUME AiInv, Ai!LoadOllamaModels PROVE AiInv'
  OBVIOUS
<1>1. /\ pageOpen /\ ~loading /\ Ai!Send("models", pageMount) /\ loading' = TRUE
      /\ UNCHANGED <<provider, pageOpen, pageMount, models, selected, panelMount, panel, asked>>
  BY DEF Ai!LoadOllamaModels, Ai!panelVars
<1>2. RequestsInv
  BY DEF AiInv
<1>3. PICK new \in Ai!Request :
        /\ new.id = sent + 1 /\ new.what = "models" /\ new.mount = pageMount
        /\ sent' = sent + 1 /\ sent' \in 0 .. MaxRequests /\ requests' = requests \cup {new}
        /\ requests' \subseteq Ai!Request
        /\ \A r \in requests' : r.id <= sent'
        /\ \A q, r \in requests' : q.id = r.id => q = r
  BY <1>1, <1>2, AiTypes, SentRequest
<1>4. loading' \in BOOLEAN
  BY <1>1
<1>5. Ai!TypeOK'
  BY <1>1, <1>2, <1>3, <1>4 DEF RequestsInv, Ai!TypeOK
<1>6. RequestsInv'
  BY <1>1, <1>2, <1>3, <1>5, AiTypes DEF RequestsInv
<1>7. \A r \in requests : ~OfPage(r)
  BY <1>1 DEF AiInv, PageInv
<1>8. PanelInv'
  BY <1>1, <1>3 DEF AiInv, PanelInv, OfPanel
<1>9. PageInv'
  <2>1. new \in requests' /\ OfPage(new)'
    BY <1>1, <1>3 DEF OfPage
  <2>2. \A q \in requests' : OfPage(q)' => q = new
    BY <1>1, <1>3, <1>7 DEF OfPage
  <2> QED
    BY <1>1, <2>1, <2>2 DEF PageInv
<1> QED
  BY <1>6, <1>8, <1>9 DEF AiInv

LEMMA HeadersArriveKeeps ==
  ASSUME AiInv, NEW r \in requests, Ai!HeadersArrive(r)
  PROVE  AiInv'
<1> DEFINE now == [r EXCEPT !.phase = "body"]
<1>1. /\ requests' = (requests \ {r}) \cup {now}
      /\ UNCHANGED <<provider, pageOpen, pageMount, loading, models, selected, panelMount, panel, asked, sent>>
  BY DEF Ai!HeadersArrive, Ai!pageVars, Ai!panelVars
<1>2. RequestsInv
  BY DEF AiInv
<1>3. now \in Ai!Request /\ now.id = r.id /\ now.what = r.what /\ now.mount = r.mount
  BY <1>2, RequestTypes DEF Ai!Request
<1> HIDE DEF now
<1>4. \A q \in requests' : \E p \in requests : /\ q.id = p.id /\ q.what = p.what /\ q.mount = p.mount
                                               /\ (q = p /\ p # r) \/ (q = now /\ p = r)
  <2> SUFFICES ASSUME NEW q \in requests'
               PROVE  \E p \in requests : /\ q.id = p.id /\ q.what = p.what /\ q.mount = p.mount
                                          /\ (q = p /\ p # r) \/ (q = now /\ p = r)
    OBVIOUS
  <2>1. CASE q = now
    BY <1>3, <2>1
  <2>2. CASE q \in requests /\ q # r
    BY <2>2
  <2> QED
    BY <1>1, <2>1, <2>2
<1>5. \A p \in requests : \E q \in requests' : q.id = p.id /\ q.what = p.what /\ q.mount = p.mount
  BY <1>1, <1>3
<1>6. requests' \subseteq Ai!Request
  BY <1>1, <1>2, <1>3, AiTypes
<1>7. Ai!TypeOK'
  BY <1>1, <1>2, <1>6 DEF RequestsInv, Ai!TypeOK
<1>8. \A q, s \in requests' : q.id = s.id => q = s
  BY <1>2, <1>4 DEF RequestsInv
<1>9. RequestsInv'
  BY <1>1, <1>2, <1>4, <1>7, <1>8 DEF RequestsInv
<1>10. PanelInv'
  BY <1>1, <1>4, <1>5 DEF AiInv, PanelInv, OfPanel
<1>11. PageInv'
  <2> SUFFICES ASSUME pageOpen' PROVE /\ \A q, s \in requests' : OfPage(q)' /\ OfPage(s)' => q = s
                                      /\ loading' <=> \E q \in requests' : OfPage(q)'
    BY DEF PageInv
  <2>1. /\ \A q, s \in requests : OfPage(q) /\ OfPage(s) => q = s
        /\ loading <=> \E q \in requests : OfPage(q)
    BY <1>1 DEF AiInv, PageInv
  <2>2. \A q, s \in requests' : OfPage(q)' /\ OfPage(s)' => q = s
    BY <1>1, <1>4, <2>1 DEF OfPage
  <2>3. (\E q \in requests' : OfPage(q)') <=> \E q \in requests : OfPage(q)
    BY <1>1, <1>4, <1>5 DEF OfPage
  <2> QED
    BY <1>1, <2>1, <2>2, <2>3
<1> QED
  BY <1>9, <1>10, <1>11 DEF AiInv

LEMMA EndedKeeps ==
  ASSUME AiInv, NEW r \in requests, NEW outcome \in {"result", "error", "empty"}, Ai!Ended(r, outcome),
         outcome = "empty" => r.what = "models"
  PROVE  AiInv'
<1>1. requests' = requests \ {r} /\ UNCHANGED <<pageOpen, pageMount, selected, panelMount, asked, sent>>
  BY DEF Ai!Ended, Ai!ShowAnalysis, Ai!ShowModels, Ai!pageVars, Ai!panelVars
<1>2. RequestsInv
  BY DEF AiInv
<1>3. requests' \subseteq Ai!Request
  BY <1>1, <1>2, AiTypes
<1>4. ASSUME Ai!TypeOK'
      PROVE  RequestsInv'
  BY <1>1, <1>2, <1>4 DEF RequestsInv
<1>5. CASE Ai!ShowAnalysis(r, outcome)
  <2>1. /\ r.what = "analysis" /\ UNCHANGED <<provider, loading, models>>
        /\ panel' = IF r.mount = panelMount THEN [kind |-> outcome, of |-> r.id] ELSE panel
    BY <1>5 DEF Ai!ShowAnalysis, Ai!pageVars
  <2>2. r.id \in 1 .. MaxRequests
    BY <1>2, AiTypes DEF Ai!Request
  <2>3. outcome \in {"result", "error"}
    BY <2>1
  <2>4. panel' \in [kind : {"idle", "loading", "result", "error"}, of : 0 .. MaxRequests]
    BY <1>2, <2>1, <2>2, <2>3, AiTypes
  <2>5. Ai!TypeOK'
    BY <1>1, <1>2, <1>3, <2>1, <2>4 DEF RequestsInv, Ai!TypeOK
  <2>6. PageInv'
    BY <1>1, <2>1 DEF AiInv, PageInv, OfPage
  <2>7. PanelInv'
    <3>1. CASE r.mount = panelMount
      <4>1. OfPanel(r) /\ r.id = asked
        BY <2>1, <3>1 DEF OfPanel, AiInv, PanelInv
      <4>2. panel'.of = asked /\ panel'.kind # "loading"
        BY <2>1, <2>3, <3>1, <4>1
      <4>3. \A q \in requests : OfPanel(q) => q = r
        BY <4>1, <1>2 DEF AiInv, PanelInv, RequestsInv
      <4> QED
        BY <1>1, <4>2, <4>3 DEF PanelInv, OfPanel
    <3>2. CASE r.mount # panelMount
      BY <1>1, <2>1, <3>2 DEF AiInv, PanelInv, OfPanel
    <3> QED
      BY <3>1, <3>2
  <2> QED
    BY <1>4, <2>5, <2>6, <2>7 DEF AiInv
<1>6. CASE Ai!ShowModels(r, outcome)
  <2> DEFINE here == pageOpen /\ r.mount = pageMount
             new == IF outcome = "result" /\ r.provider.model = Nothing
                    THEN [r.provider EXCEPT !.model = Model] ELSE provider
  <2>1. /\ r.what = "models" /\ provider' = new /\ panel' = panel
        /\ loading' = IF here THEN FALSE ELSE loading
        /\ models' = IF pageOpen /\ (new.url # provider.url \/ new.kind # provider.kind) THEN Nothing
                     ELSE IF ~here \/ outcome = "error" THEN models
                     ELSE IF outcome = "result" THEN r.provider.url ELSE Nothing
    BY <1>6 DEF Ai!ShowModels, Ai!panelVars
  <2>2. r.provider \in Ai!Provider /\ provider \in Ai!Provider
    BY <1>2, AiTypes, RequestTypes
  <2>3. new \in Ai!Provider /\ r.provider.url \in Urls
    BY <2>2 DEF Ai!Provider
  <2> HIDE DEF new
  <2>4. models' \in Urls \cup {Nothing}
    BY <1>2, <2>1, <2>3, AiTypes
  <2>5. loading' \in BOOLEAN
    BY <1>2, <2>1, AiTypes
  <2>6. Ai!TypeOK'
    BY <1>1, <1>2, <1>3, <2>1, <2>3, <2>4, <2>5 DEF RequestsInv, Ai!TypeOK
  <2>7. PanelInv'
    BY <1>1, <2>1 DEF AiInv, PanelInv, OfPanel
  <2>8. PageInv'
    <3>1. CASE here
      <4>1. OfPage(r) /\ pageOpen
        BY <2>1, <3>1 DEF OfPage
      <4>2. \A q \in requests : OfPage(q) => q = r
        BY <4>1 DEF AiInv, PageInv
      <4>3. \A q \in requests' : ~OfPage(q)'
        BY <1>1, <4>2 DEF OfPage
      <4>4. loading' = FALSE
        BY <2>1, <3>1
      <4> QED
        BY <4>3, <4>4 DEF PageInv
    <3>2. CASE ~here
      BY <1>1, <2>1, <3>2 DEF AiInv, PageInv, OfPage
    <3> QED
      BY <3>1, <3>2
  <2> QED
    BY <1>4, <2>6, <2>7, <2>8 DEF AiInv
<1> QED
  BY <1>5, <1>6 DEF Ai!Ended

LEMMA AnswersKeep ==
  ASSUME AiInv, NEW r \in requests, Ai!Answers(r) \/ Ai!TimesOut(r)
  PROVE  AiInv'
<1>1. \E outcome \in {"result", "error", "empty"} :
        Ai!Ended(r, outcome) /\ (outcome = "empty" => r.what = "models")
  BY DEF Ai!Answers, Ai!TimesOut
<1> QED
  BY <1>1, EndedKeeps

LEMMA AiStep == AiInv /\ [Ai!Next]_aiVars => AiInv'
<1> SUFFICES ASSUME AiInv, [Ai!Next]_aiVars PROVE AiInv'
  OBVIOUS
<1>1. CASE \E p \in Packets \cup {Nothing} : Ai!SelectPacket(p)
  BY <1>1, SelectPacketKeeps
<1>2. CASE \E r \in requests : Ai!HeadersArrive(r) \/ Ai!Answers(r) \/ Ai!TimesOut(r)
  BY <1>2, HeadersArriveKeeps, AnswersKeep
<1>3. CASE UNCHANGED aiVars
  <2>1. Ai!TypeOK'
    BY <1>3 DEF aiVars, AiInv, RequestsInv, Ai!TypeOK
  <2> QED
    BY <1>3, <2>1 DEF aiVars, AiInv, RequestsInv, PanelInv, PageInv, OfPanel, OfPage
<1> QED
  BY <1>1, <1>2, <1>3, PageOpensOrCloses, EditProviderKeeps, RunActionKeeps, LoadModelsKeeps DEF Ai!Next

(***************************************************************************)
(* The panel shows the state of the last action taken in it, never of one  *)
(* it has overtaken, and the model list loads exactly while one request of *)
(* this visit to the page is under way, however many requests are sent and *)
(* panels are opened (ai-analysis-panel.tsx, settings-page.tsx).           *)
(***************************************************************************)
THEOREM PanelCorrect == MCInit /\ [][MCNext]_vars => []PanelShowsTheLastAction
<1>1. MCInit => AiInv
  BY AiInitHolds DEF MCInit
<1>2. AiInv /\ [MCNext]_vars => AiInv'
  <2>1. [MCNext]_vars => [Ai!Next]_aiVars
    BY DEF MCNext, Others, vars
  <2> QED
    BY <2>1, AiStep
<1>3. AiInv => PanelShowsTheLastAction
  <2> SUFFICES ASSUME AiInv PROVE Ai!TypeOK /\ Ai!PanelShowsTheLastAction
    BY DEF PanelShowsTheLastAction
  <2>1. {r.id : r \in Ai!Pending("analysis", panelMount)} =
          IF panel.kind = "loading" THEN {asked} ELSE {}
    <3>1. \A r : r \in Ai!Pending("analysis", panelMount) <=> r \in requests /\ OfPanel(r)
      BY DEF Ai!Pending, OfPanel
    <3> QED
      BY <3>1 DEF AiInv, PanelInv
  <2>2. ASSUME pageOpen
        PROVE  Ai!Cardinality(Ai!Pending("models", pageMount)) = IF loading THEN 1 ELSE 0
    <3> DEFINE S == Ai!Pending("models", pageMount)
    <3>1. Ai!Cardinality(S) = Cardinality(S)
      BY DEF Ai!Cardinality, Cardinality
    <3>2. \A r : r \in S <=> r \in requests /\ OfPage(r)
      BY DEF Ai!Pending, OfPage
    <3> HIDE DEF S
    <3>3. CASE loading
      <4>1. PICK r \in S : S = {r}
        BY <2>2, <3>2, <3>3 DEF AiInv, PageInv
      <4> QED
        BY <3>1, <3>3, <4>1, FS_Singleton DEF S
    <3>4. CASE ~loading
      <4>1. S = {}
        BY <2>2, <3>2, <3>4 DEF AiInv, PageInv
      <4> QED
        BY <3>1, <3>4, <4>1, FS_EmptySet DEF S
    <3> QED
      BY <3>3, <3>4
  <2>3. Ai!PanelShowsTheLastAction
    BY <2>1, <2>2 DEF AiInv, PanelInv, Ai!PanelShowsTheLastAction
  <2> QED
    BY <2>3 DEF AiInv, RequestsInv
<1> QED
  BY <1>1, <1>2, <1>3, PTL

----------------------------------------------------------------------------
(* Session files: any rules and bounds on packets, sessions, operations *)

FilePacket == [id : Nat, s : Nat, t : Int, secret : BOOLEAN, note : BOOLEAN, source : Nat]

SavedSession == [status : {"connected", "closed"}, endpoint : {"secret", "plain"}, reason : {"none", "secret"},
                 name : {"plain", "matching"}, count : Nat]

SavedFile == [format : {"save", "export"}, status : {"connected", "closed"}, endpoint : {"secret", "plain"},
              reason : {"none", "secret"}, name : {"plain", "matching"},
              packets : Seq(FilePacket), redacted : BOOLEAN, rule : Rules \cup {"asked"}]

(***************************************************************************)
(* In every list of packets, on the timeline, in a file, in an operation   *)
(* in flight, each packet has an id of its own, and ids and links are      *)
(* among the n ids given out: a new packet or import clashes with none.    *)
(***************************************************************************)
IdsAreGivenOut(list, n) ==
  /\ \A i \in DOMAIN list : list[i].id \in 1 .. n /\ list[i].source \in 0 .. n
  /\ \A i, j \in DOMAIN list : list[i].id = list[j].id => i = j

IsPacketList(list, n) == list \in Seq(FilePacket) /\ n \in Nat /\ IdsAreGivenOut(list, n)

LinksLookBack(list) ==
  \A i, j \in DOMAIN list : list[i].source = list[j].id => list[j].s <= list[i].s \/ list[i].s = 1

StoreInv ==
  /\ IsPacketList(filePackets, used) /\ used \in 0 .. MaxPackets
  /\ sessions \in Seq(SavedSession) /\ Len(sessions) \in 1 .. MaxSessions
  /\ \A s \in DOMAIN sessions : s # 1 => sessions[s].status = "closed"
  /\ \A i \in DOMAIN filePackets : filePackets[i].s \in DOMAIN sessions
  /\ LinksLookBack(filePackets)
  /\ limit \in Limits /\ Len(filePackets) <= limit

FilePanelOK ==
  /\ current \in DOMAIN sessions
  /\ redacting \in BOOLEAN /\ rule \in Rules
  /\ unsafe \in {"save", "export", "none"} /\ pending \in {"save", "export", "load", "none"}

(***************************************************************************)
(* A file is safe by what it was made from, when it still is in flight: no *)
(* secret unless it is not redacted and its making was confirmed.          *)
(***************************************************************************)
HoldsSecret(file) ==
  \/ file.endpoint = "secret" \/ file.reason = "secret"
  \/ \E i \in DOMAIN file.packets : file.packets[i].secret

NotesAreClean(file) ==
  file.redacted /\ file.rule = "valid" => \A i \in DOMAIN file.packets : ~file.packets[i].note

SaveInv(job, n) ==
  /\ job \in [op : {"save", "export"}, file : SavedFile, asked : BOOLEAN]
  /\ job.file.rule \in Rules /\ IsPacketList(job.file.packets, n)
  /\ HoldsSecret(job.file) => job.asked
  /\ HoldsSecret(job.file) \/ job.asked => ~job.file.redacted
  /\ NotesAreClean(job.file)

RunningInv ==
  /\ IsFiniteSet(running) /\ Cardinality(running) <= MaxRunning
  /\ \A job \in running : job = [op |-> "load"] \/ SaveInv(job, used)
  /\ [op |-> "load"] \in running => disk # <<>>

DiskInv ==
  /\ disk \in Seq(SavedFile)
  /\ \A i \in DOMAIN disk :
       /\ IsPacketList(disk[i].packets, used)
       /\ HoldsSecret(disk[i]) => ~disk[i].redacted /\ disk[i].rule = "asked"
       /\ NotesAreClean(disk[i])

FilesInv == StoreInv /\ FilePanelOK /\ RunningInv /\ DiskInv

LEMMA SameKept == \A list, kept : Files!Kept(list, kept) = Kept(list, kept)
<1>1. \A S : Files!Cardinality(S) = Cardinality(S)
  BY DEF Files!Cardinality, Cardinality
<1>2. \A S, R : Files!Arranged(S, R) = Arranged(S, R)
  <2>1. \A S, R : Files!Places(S, R) = Places(S, R)
    BY <1>1 DEF Files!Places, Places
  <2> QED
    BY <1>1, <2>1 DEF Files!Arranged, Arranged
<1> QED
  BY <1>1, <1>2 DEF Files!Kept, Kept

LEMMA SameNewestFirst == \A list : Files!SortNewestFirst(list) = NewestFirst(list)
<1>1. \A S : Files!Cardinality(S) = Cardinality(S)
  BY DEF Files!Cardinality, Cardinality
<1>2. \A S, R : Files!Arranged(S, R) = Arranged(S, R)
  <2>1. \A S, R : Files!Places(S, R) = Places(S, R)
    BY <1>1 DEF Files!Places, Places
  <2> QED
    BY <1>1, <2>1 DEF Files!Arranged, Arranged
<1> QED
  BY <1>2 DEF Files!SortNewestFirst, Files!NewestFirst, NewestFirst, Files!NewerFirst, NewerFirst

(***************************************************************************)
(* A list whose members come from places of another, each place at most    *)
(* once, keeps what is known of the packets.                               *)
(***************************************************************************)
Picks(new, list, o) ==
  /\ \A k \in DOMAIN new : o[k] \in DOMAIN list /\ new[k] = list[o[k]]
  /\ \A k, l \in DOMAIN new : o[k] = o[l] => k = l

LEMMA ReorderedFacts ==
  ASSUME NEW list, NEW n, IsPacketList(list, n), NEW new \in Seq(FilePacket), NEW o, Picks(new, list, o)
  PROVE  IsPacketList(new, n) /\ (LinksLookBack(list) => LinksLookBack(new))
<1>1. \A k \in DOMAIN new : new[k].id \in 1 .. n /\ new[k].source \in 0 .. n
  BY DEF Picks, IsPacketList, IdsAreGivenOut
<1>2. \A k, l \in DOMAIN new : new[k].id = new[l].id => k = l
  BY DEF Picks, IsPacketList, IdsAreGivenOut
<1>3. LinksLookBack(list) => LinksLookBack(new)
  BY DEF Picks, LinksLookBack
<1> QED
  BY <1>1, <1>2, <1>3 DEF IsPacketList, IdsAreGivenOut

LEMMA SortedFileFacts ==
  ASSUME NEW list, NEW n, IsPacketList(list, n)
  PROVE  LET new == Files!SortNewestFirst(list)
         IN  /\ IsPacketList(new, n) /\ Len(new) = Len(list)
             /\ LinksLookBack(list) => LinksLookBack(new)
             /\ \A k \in DOMAIN new : \E i \in DOMAIN list : new[k] = list[i]
             /\ \A k, l \in DOMAIN new : k < l => new[k].t >= new[l].t
<1> DEFINE new == Files!SortNewestFirst(list)
<1>1. list \in Seq(FilePacket) /\ Len(list) \in Nat /\ DOMAIN list = 1 .. Len(list)
  BY LenProperties DEF IsPacketList
<1>2. \A x \in FilePacket : x.t \in Int
  BY DEF FilePacket
<1>3. new \in Seq(FilePacket) /\ Len(new) = Len(list) /\ IsSorting(new, list)
  <2>1. new = NewestFirst(list)
    BY SameNewestFirst
  <2> HIDE DEF new
  <2> QED
    BY <1>1, <1>2, <2>1, NewestFirstFacts
<1> HIDE DEF new
<1>4. DOMAIN new = 1 .. Len(list)
  BY <1>3, LenProperties
<1>5. PICK o \in [1 .. Len(list) -> 1 .. Len(list)] :
        /\ \A k \in 1 .. Len(list) : new[k] = list[o[k]]
        /\ \A k, l \in 1 .. Len(list) : o[k] = o[l] => k = l
  BY <1>3 DEF IsSorting
<1>6. \A k \in DOMAIN new : o[k] \in DOMAIN list /\ new[k] = list[o[k]]
  BY <1>1, <1>4, <1>5
<1>7. IsPacketList(new, n) /\ (LinksLookBack(list) => LinksLookBack(new))
  <2>1. Picks(new, list, o)
    BY <1>4, <1>5, <1>6 DEF Picks
  <2> QED
    BY <1>3, <2>1, ReorderedFacts
<1>8. \A k, l \in DOMAIN new : k < l => new[k].t >= new[l].t
  BY <1>3, <1>4 DEF IsSorting
<1> QED
  BY <1>3, <1>6, <1>7, <1>8 DEF new

(***************************************************************************)
(* Cutting a list off at the retention limit leaves its beginning; merging *)
(* sorts first.                                                            *)
(***************************************************************************)
LEMMA RetainedFacts ==
  ASSUME NEW list, NEW n, IsPacketList(list, n), NEW most \in Nat
  PROVE  LET new == Files!Retained(list, most)
         IN  /\ IsPacketList(new, n) /\ Len(new) <= most
             /\ LinksLookBack(list) => LinksLookBack(new)
             /\ \A k \in DOMAIN new : \E i \in DOMAIN list : new[k] = list[i]
<1> DEFINE new == Files!Retained(list, most)
<1>1. list \in Seq(FilePacket) /\ Len(list) \in Nat /\ DOMAIN list = 1 .. Len(list)
  BY LenProperties DEF IsPacketList
<1>2. CASE Len(list) <= most
  <2>1. new = list
    BY <1>2 DEF Files!Retained
  <2> QED
    BY <1>2, <2>1
<1>3. CASE ~ (Len(list) <= most)
  <2>1. new = SubSeq(list, 1, most) /\ most \in 0 .. Len(list)
    BY <1>1, <1>3 DEF Files!Retained
  <2> HIDE DEF new
  <2>2. new \in Seq(FilePacket) /\ Len(new) = most /\ \A k \in 1 .. most : new[k] = list[k]
    BY <1>1, <2>1, SubSeqProperties
  <2>3. DOMAIN new = 1 .. most
    BY <2>2, LenProperties
  <2>4. \A k \in DOMAIN new : k \in DOMAIN list /\ new[k] = list[k]
    BY <1>1, <2>1, <2>2, <2>3
  <2>5. Picks(new, list, [k \in 1 .. most |-> k])
    BY <2>3, <2>4 DEF Picks
  <2>6. IsPacketList(new, n) /\ (LinksLookBack(list) => LinksLookBack(new))
    BY <2>2, <2>5, ReorderedFacts
  <2> QED
    BY <2>2, <2>4, <2>6 DEF new
<1> QED
  BY <1>2, <1>3

LEMMA MergedFacts ==
  ASSUME NEW added, NEW old, NEW n, IsPacketList(added \o old, n), LinksLookBack(added \o old), limit \in Nat
  PROVE  LET new == Files!Merged(added, old)
             all == added \o old
         IN  /\ IsPacketList(new, n) /\ LinksLookBack(new) /\ Len(new) <= limit
             /\ \A k \in DOMAIN new : \E i \in DOMAIN all : new[k] = all[i]
<1> DEFINE all == added \o old
           sorted == Files!SortNewestFirst(all)
           new == Files!Merged(added, old)
<1>1. new = Files!Retained(sorted, limit)
  BY DEF Files!Merged
<1>2. IsPacketList(all, n) /\ LinksLookBack(all)
  OBVIOUS
<1> HIDE DEF all
<1>3. /\ IsPacketList(sorted, n) /\ LinksLookBack(sorted)
      /\ \A k \in DOMAIN sorted : \E i \in DOMAIN all : sorted[k] = all[i]
  BY <1>2, SortedFileFacts
<1> HIDE DEF sorted, new
<1>4. /\ IsPacketList(new, n) /\ LinksLookBack(new) /\ Len(new) <= limit
      /\ \A k \in DOMAIN new : \E i \in DOMAIN sorted : new[k] = sorted[i]
  BY <1>1, <1>3, RetainedFacts
<1> QED
  BY <1>3, <1>4 DEF new, all

LEMMA OfSessionFacts ==
  ASSUME StoreInv, NEW s
  PROVE  LET new == Files!OfSession(s)
         IN  /\ IsPacketList(new, used)
             /\ \A k \in DOMAIN new : \E i \in DOMAIN filePackets : new[k] = filePackets[i]
<1> DEFINE kept == {i \in DOMAIN filePackets : filePackets[i].s = s}
           new == Files!OfSession(s)
<1>1. IsPacketList(filePackets, used) /\ filePackets \in Seq(FilePacket)
  BY DEF StoreInv, IsPacketList
<1>2. new \in Seq(FilePacket) /\ IsFiltering(new, filePackets, kept)
  <2>1. new = Kept(filePackets, kept)
    BY SameKept DEF Files!OfSession
  <2>2. kept \subseteq DOMAIN filePackets
    OBVIOUS
  <2> HIDE DEF new, kept
  <2> QED
    BY <1>1, <2>1, <2>2, KeptFacts
<1> HIDE DEF new
<1>3. DOMAIN new = 1 .. Len(new)
  BY <1>2, LenProperties
<1>4. PICK o \in [1 .. Len(new) -> kept] :
        /\ \A k \in 1 .. Len(new) : new[k] = filePackets[o[k]]
        /\ \A k, l \in 1 .. Len(new) : o[k] = o[l] => k = l
  BY <1>2 DEF IsFiltering
<1>5. \A k \in DOMAIN new : o[k] \in DOMAIN filePackets /\ new[k] = filePackets[o[k]]
  BY <1>3, <1>4
<1>6. IsPacketList(new, used)
  <2>1. Picks(new, filePackets, o)
    BY <1>3, <1>4, <1>5 DEF Picks
  <2> QED
    BY <1>1, <1>2, <2>1, ReorderedFacts
<1> QED
  BY <1>5, <1>6 DEF new

(***************************************************************************)
(* What a file is made of: a redacted one holds no secret and no note its  *)
(* rules match, any other only what the preview would have shown.          *)
(***************************************************************************)
LEMMA RedactedPacketFacts ==
  ASSUME NEW p \in FilePacket
  PROVE  LET q == Files!RedactedPacket(p)
         IN  /\ q \in FilePacket /\ q.id = p.id /\ q.source = p.source
             /\ ~q.secret /\ (rule = "valid" => ~q.note)
<1> DEFINE q == Files!RedactedPacket(p)
<1>2. ASSUME NEW b \in BOOLEAN
      PROVE  LET r == [p EXCEPT !.secret = FALSE, !.note = b]
             IN  r \in FilePacket /\ r.id = p.id /\ r.source = p.source /\ r.secret = FALSE /\ r.note = b
  <2> DEFINE r == [p EXCEPT !.secret = FALSE, !.note = b]
  <2>1. r \in FilePacket
    BY DEF FilePacket
  <2>2. r.id = p.id /\ r.source = p.source
    BY DEF FilePacket
  <2>3. r.secret = FALSE
    BY DEF FilePacket
  <2>4. r.note = b
    BY DEF FilePacket
  <2> QED
    BY <2>1, <2>2, <2>3, <2>4
<1> DEFINE clean == p.note /\ rule # "valid"
<1>3. clean \in BOOLEAN
  OBVIOUS
<1>4. q = [p EXCEPT !.secret = FALSE, !.note = clean]
  BY DEF Files!RedactedPacket
<1>5. clean => rule # "valid"
  OBVIOUS
<1> HIDE DEF q, clean
<1>6. q \in FilePacket /\ q.id = p.id /\ q.source = p.source /\ q.secret = FALSE /\ q.note = clean
  BY <1>2, <1>3, <1>4
<1>7. rule = "valid" => q.note = FALSE
  BY <1>3, <1>5, <1>6
<1>8. ~q.secret /\ (rule = "valid" => ~q.note)
  BY <1>6, <1>7
<1> QED
  BY <1>6, <1>8 DEF q

LEMMA FileOfFacts ==
  ASSUME StoreInv, FilePanelOK, NEW op \in {"save", "export"}, NEW redact \in BOOLEAN,
         NEW typed \in Files!Names
  PROVE  LET file == Files!FileOf(op, redact, typed)
         IN  /\ file \in SavedFile /\ file.rule \in Rules /\ file.redacted = redact
             /\ IsPacketList(file.packets, used) /\ NotesAreClean(file)
             /\ redact => ~HoldsSecret(file)
             /\ HoldsSecret(file) => Files!SensitiveDataDetected
<1> DEFINE list == Files!SortNewestFirst(Files!OfSession(current))
           session == IF redact THEN Files!RedactedSession(sessions[current]) ELSE sessions[current]
           packets == [n \in DOMAIN list |-> IF redact THEN Files!RedactedPacket(list[n]) ELSE list[n]]
           reason == IF op = "save" THEN session.reason ELSE "none"
           file == Files!FileOf(op, redact, typed)
<1>1. file = [format |-> op, status |-> IF op = "save" THEN session.status ELSE "closed",
              endpoint |-> session.endpoint, reason |-> reason, name |-> typed,
              packets |-> packets, redacted |-> redact, rule |-> rule]
  BY DEF Files!FileOf
<1>2. sessions[current] \in SavedSession
  BY LenProperties, ElementOfSeq DEF StoreInv, FilePanelOK
<1>3. /\ session.status \in {"connected", "closed"} /\ session.endpoint \in {"secret", "plain"}
      /\ session.reason \in {"none", "secret"}
      /\ redact => session.endpoint = "plain" /\ session.reason = "none"
      /\ ~redact => session.endpoint = sessions[current].endpoint /\ session.reason = sessions[current].reason
  <2>1. CASE redact
    <3> DEFINE name == IF rule = "valid" THEN "plain" ELSE sessions[current].name
    <3>1. session = [sessions[current] EXCEPT !.endpoint = "plain", !.reason = "none", !.name = name]
      BY <2>1 DEF Files!RedactedSession
    <3> HIDE DEF name, session
    <3> QED
      BY <1>2, <2>1, <3>1 DEF SavedSession
  <2>2. CASE ~redact
    BY <1>2, <2>2 DEF SavedSession
  <2> QED
    BY <2>1, <2>2
<1>4. /\ IsPacketList(list, used)
      /\ \A k \in DOMAIN list : \E i \in DOMAIN Files!OfSession(current) : list[k] = Files!OfSession(current)[i]
  <2>1. IsPacketList(Files!OfSession(current), used)
    BY OfSessionFacts
  <2> QED
    BY <2>1, SortedFileFacts
<1> HIDE DEF list, session, file
<1>5. list \in Seq(FilePacket) /\ Len(list) \in Nat /\ DOMAIN list = 1 .. Len(list)
      /\ \A k \in DOMAIN list : list[k] \in FilePacket
  BY <1>4, LenProperties, ElementOfSeq DEF IsPacketList
<1>6. \A k \in DOMAIN list : packets[k] = IF redact THEN Files!RedactedPacket(list[k]) ELSE list[k]
  OBVIOUS
<1>7. ASSUME NEW k \in DOMAIN list
      PROVE  /\ packets[k] \in FilePacket /\ packets[k].id = list[k].id /\ packets[k].source = list[k].source
             /\ redact => ~packets[k].secret /\ (rule = "valid" => ~packets[k].note)
             /\ ~redact => packets[k] = list[k]
  BY <1>5, <1>6, RedactedPacketFacts
<1>8. DOMAIN packets = DOMAIN list
  OBVIOUS
<1>9. packets \in [1 .. Len(list) -> FilePacket]
  BY <1>5, <1>7
<1> HIDE DEF packets
<1>10. packets \in Seq(FilePacket)
  BY <1>5, <1>9, SeqDef
<1>11. IsPacketList(packets, used)
  BY <1>4, <1>7, <1>8, <1>10 DEF IsPacketList, IdsAreGivenOut
<1>12. rule \in Rules /\ reason \in {"none", "secret"} /\ typed \in {"plain", "matching"}
       /\ (reason = "secret" => session.reason = "secret")
  BY <1>3 DEF FilePanelOK, Files!Names
<1> HIDE DEF reason
<1>13. file \in SavedFile
  BY <1>1, <1>3, <1>10, <1>12 DEF SavedFile
<1>14. /\ file.rule = rule /\ file.redacted = redact /\ file.packets = packets
       /\ file.endpoint = session.endpoint /\ file.reason = reason
  BY <1>1
<1>15. NotesAreClean(file)
  BY <1>7, <1>8, <1>14 DEF NotesAreClean
<1>16. redact => ~HoldsSecret(file)
  BY <1>3, <1>7, <1>8, <1>12, <1>14 DEF HoldsSecret
<1>17. HoldsSecret(file) => Files!SensitiveDataDetected
  <2> SUFFICES ASSUME HoldsSecret(file) PROVE Files!SensitiveDataDetected
    OBVIOUS
  <2>1. ~redact
    BY <1>16
  <2>2. CASE file.endpoint = "secret"
    BY <1>3, <1>14, <2>1, <2>2 DEF Files!SensitiveDataDetected
  <2>3. CASE \E k \in DOMAIN packets : packets[k].secret
    <3>1. PICK k \in DOMAIN list : list[k].secret
      BY <1>7, <1>8, <2>1, <2>3
    <3>2. PICK i \in DOMAIN Files!OfSession(current) : list[k] = Files!OfSession(current)[i]
      BY <1>4
    <3>3. Files!OfSession(current)[i] \in Files!ToSet(Files!OfSession(current))
      BY DEF Files!ToSet
    <3> QED
      BY <3>1, <3>2, <3>3 DEF Files!SensitiveDataDetected
  <2>4. CASE file.reason = "secret"
    BY <1>3, <1>12, <1>14, <2>1, <2>4 DEF Files!SensitiveDataDetected
  <2> QED
    BY <1>14, <2>2, <2>3, <2>4 DEF HoldsSecret
<1> QED
  BY <1>11, <1>12, <1>13, <1>14, <1>15, <1>16, <1>17 DEF file

(***************************************************************************)
(* Packets with new ids go above a list: they clash with none of it, and   *)
(* as none of it is a replay of theirs, links go on looking back.          *)
(***************************************************************************)
AreNew(added, old, n) ==
  /\ \A k \in DOMAIN added : added[k].id > n
  /\ \A k, l \in DOMAIN added : added[k].s = added[l].s
  /\ \A k \in DOMAIN added : added[k].s = 1 \/ \A i \in DOMAIN old : old[i].s <= added[k].s

IsOfBoth(all, added, old) ==
  \A k \in DOMAIN all : (\E i \in DOMAIN added : all[k] = added[i]) \/ (\E i \in DOMAIN old : all[k] = old[i])

LEMMA AddedFacts ==
  ASSUME NEW old, NEW n, IsPacketList(old, n), NEW added, NEW m, IsPacketList(added, m), n <= m,
         AreNew(added, old, n), LinksLookBack(old)
  PROVE  LET all == added \o old
         IN  IsPacketList(all, m) /\ LinksLookBack(all) /\ IsOfBoth(all, added, old)
<1> USE DEF AreNew
<1> DEFINE all == added \o old
           l == Len(added)
<1>1. /\ added \in Seq(FilePacket) /\ old \in Seq(FilePacket) /\ n \in Nat /\ m \in Nat
      /\ l \in Nat /\ DOMAIN added = 1 .. l /\ Len(old) \in Nat /\ DOMAIN old = 1 .. Len(old)
  BY LenProperties DEF IsPacketList
<1>2. /\ all \in Seq(FilePacket) /\ Len(all) = l + Len(old)
      /\ \A k \in 1 .. l + Len(old) : all[k] = IF k <= l THEN added[k] ELSE old[k - l]
  BY <1>1, ConcatProperties
<1>3. DOMAIN all = 1 .. l + Len(old)
  BY <1>2, LenProperties
<1>4. ASSUME NEW k \in DOMAIN all
      PROVE  \/ k \in DOMAIN added /\ all[k] = added[k]
             \/ k > l /\ k - l \in DOMAIN old /\ all[k] = old[k - l]
  BY <1>1, <1>2, <1>3
<1> HIDE DEF all, l
<1>5. \A k \in DOMAIN added : added[k].id \in Nat /\ added[k].source \in Nat /\ added[k].s \in Nat
  <2>1. \A k \in DOMAIN added : added[k] \in FilePacket
    BY <1>1, ElementOfSeq
  <2> QED
    BY <2>1 DEF FilePacket
<1>6. \A i \in DOMAIN old : old[i].id \in 1 .. n /\ old[i].source \in 0 .. n
  BY DEF IsPacketList, IdsAreGivenOut
<1>7. \A k \in DOMAIN added : added[k].id \in 1 .. m /\ added[k].source \in 0 .. m
  BY DEF IsPacketList, IdsAreGivenOut
<1>8. \A k \in DOMAIN all : all[k].id \in 1 .. m /\ all[k].source \in 0 .. m
  <2>1. \A i \in DOMAIN old : old[i].id \in 1 .. m /\ old[i].source \in 0 .. m
    BY <1>1, <1>6
  <2> QED
    BY <1>4, <1>7, <2>1
<1>9. ASSUME NEW j \in DOMAIN all, NEW k \in DOMAIN all, all[j].id = all[k].id
      PROVE  j = k
  <2>1. CASE j \in DOMAIN added /\ all[j] = added[j] /\ k \in DOMAIN added /\ all[k] = added[k]
    BY <1>9, <2>1 DEF IsPacketList, IdsAreGivenOut
  <2>2. CASE j > l /\ j - l \in DOMAIN old /\ all[j] = old[j - l] /\ k > l /\ k - l \in DOMAIN old /\ all[k] = old[k - l]
    <3>1. j - l = k - l
      BY <1>9, <2>2 DEF IsPacketList, IdsAreGivenOut
    <3> QED
      BY <1>1, <1>3, <3>1
  <2>3. ~(j \in DOMAIN added /\ all[j] = added[j] /\ k - l \in DOMAIN old /\ all[k] = old[k - l])
    BY <1>1, <1>5, <1>6, <1>9
  <2>4. ~(k \in DOMAIN added /\ all[k] = added[k] /\ j - l \in DOMAIN old /\ all[j] = old[j - l])
    BY <1>1, <1>5, <1>6, <1>9
  <2> QED
    BY <1>4, <2>1, <2>2, <2>3, <2>4
<1>10. IsPacketList(all, m)
  BY <1>1, <1>2, <1>8, <1>9 DEF IsPacketList, IdsAreGivenOut
<1>11. ASSUME NEW j \in DOMAIN all, NEW k \in DOMAIN all, all[j].source = all[k].id
       PROVE  all[k].s <= all[j].s \/ all[j].s = 1
  <2>1. CASE j \in DOMAIN added /\ all[j] = added[j]
    <3>1. CASE k \in DOMAIN added /\ all[k] = added[k]
      BY <1>5, <2>1, <3>1
    <3>2. CASE k - l \in DOMAIN old /\ all[k] = old[k - l]
      BY <2>1, <3>2
    <3> QED
      BY <1>4, <3>1, <3>2
  <2>2. CASE j - l \in DOMAIN old /\ all[j] = old[j - l]
    <3>1. ~(k \in DOMAIN added /\ all[k] = added[k])
      BY <1>1, <1>5, <1>6, <1>11, <2>2
    <3>2. k - l \in DOMAIN old /\ all[k] = old[k - l]
      BY <1>4, <3>1
    <3> QED
      BY <1>11, <2>2, <3>2 DEF LinksLookBack
  <2> QED
    BY <1>4, <2>1, <2>2
<1>12. \A k \in DOMAIN all : (\E i \in DOMAIN added : all[k] = added[i]) \/ (\E i \in DOMAIN old : all[k] = old[i])
  BY <1>4
<1> QED
  BY <1>10, <1>11, <1>12 DEF all, LinksLookBack, IsOfBoth

(***************************************************************************)
(* An import's packets: the k-th gets the k-th new id, and a link either   *)
(* follows its packet into the import or keeps an id given out before, so  *)
(* the packets linked to each other are those that were so in the file.    *)
(***************************************************************************)
IsImport(new, list) ==
  /\ DOMAIN new = DOMAIN list
  /\ \A k \in DOMAIN list :
       new[k].t = list[k].t /\ new[k].secret = list[k].secret /\ new[k].note = list[k].note
  /\ \A k, m \in DOMAIN list : list[k].source = list[m].id <=> new[k].source = new[m].id

LEMMA ImportedFacts ==
  ASSUME StoreInv, NEW file, IsPacketList(file.packets, used)
  PROVE  LET new == Files!ImportedPackets(file)
         IN  /\ IsPacketList(new, used + Len(file.packets)) /\ Len(file.packets) \in Nat
             /\ \A k \in DOMAIN new : new[k].id > used /\ new[k].s = Len(sessions) + 1
             /\ IsImport(new, Files!SortNewestFirst(file.packets))
<1> DEFINE list == Files!SortNewestFirst(file.packets)
           new == Files!ImportedPackets(file)
           size == Len(file.packets)
<1>1. IsPacketList(list, used) /\ Len(list) = size
  BY SortedFileFacts
<1>2. list \in Seq(FilePacket) /\ size \in Nat /\ DOMAIN list = 1 .. size /\ used \in Nat /\ Len(sessions) \in Nat
      /\ \A k \in 1 .. size : list[k] \in FilePacket
  <2>1. list \in Seq(FilePacket) /\ used \in Nat
    BY <1>1 DEF IsPacketList
  <2>2. Len(list) \in Nat /\ DOMAIN list = 1 .. Len(list)
    BY <2>1, LenProperties
  <2>3. \A k \in 1 .. Len(list) : list[k] \in FilePacket
    BY <2>1, <2>2, ElementOfSeq
  <2> QED
    BY <1>1, <2>1, <2>2, <2>3 DEF StoreInv
<1>10. DOMAIN new = 1 .. size
  BY <1>2 DEF Files!ImportedPackets
<1>3. \A k \in DOMAIN list :
        new[k] = [list[k] EXCEPT !.id = Files!NewId(list, list[k].id), !.s = Len(sessions) + 1,
                                 !.source = Files!Link(list, list[k].source)]
  BY DEF Files!ImportedPackets
<1> HIDE DEF list, new, size
<1>4. ASSUME NEW k \in DOMAIN list PROVE Files!NewId(list, list[k].id) = used + k
  <2> DEFINE c == CHOOSE n \in DOMAIN list : list[n].id = list[k].id
  <2>1. c \in DOMAIN list /\ list[c].id = list[k].id
    OBVIOUS
  <2> HIDE DEF c
  <2>2. c = k
    BY <1>1, <2>1 DEF IsPacketList, IdsAreGivenOut
  <2> QED
    BY <2>2 DEF Files!NewId, c
<1>5. ASSUME NEW k \in DOMAIN list PROVE Files!Link(list, list[k].source) \in 0 .. used + size
  <2>1. CASE \E n \in DOMAIN list : list[n].id = list[k].source
    <3>1. PICK n \in DOMAIN list : list[n].id = list[k].source
      BY <2>1
    <3>2. Files!Link(list, list[k].source) = used + n
      BY <1>4, <2>1, <3>1 DEF Files!Link
    <3> QED
      BY <1>2, <3>2
  <2>2. CASE ~\E n \in DOMAIN list : list[n].id = list[k].source
    <3>1. Files!Link(list, list[k].source) = list[k].source
      BY <2>2 DEF Files!Link
    <3>2. list[k].source \in 0 .. used
      BY <1>1 DEF IsPacketList, IdsAreGivenOut
    <3> QED
      BY <1>2, <3>1, <3>2
  <2> QED
    BY <2>1, <2>2
<1>6. ASSUME NEW k \in DOMAIN list
      PROVE  /\ new[k] \in FilePacket /\ new[k].id = used + k /\ new[k].s = Len(sessions) + 1
             /\ new[k].source \in 0 .. used + size /\ new[k].source = Files!Link(list, list[k].source)
             /\ new[k].t = list[k].t /\ new[k].secret = list[k].secret /\ new[k].note = list[k].note
  <2> DEFINE source == Files!Link(list, list[k].source)
             id == used + k
             s == Len(sessions) + 1
  <2>1. source \in Nat /\ id \in Nat /\ s \in Nat /\ source \in 0 .. used + size
    BY <1>2, <1>5
  <2>2. new[k] = [list[k] EXCEPT !.id = id, !.s = s, !.source = source]
    BY <1>3, <1>4
  <2>3. list[k] \in FilePacket
    BY <1>2
  <2> HIDE DEF source, id, s
  <2>4. new[k] \in FilePacket
    BY <2>1, <2>2, <2>3 DEF FilePacket
  <2>6. new[k].id = id /\ new[k].s = s /\ new[k].source = source
    BY <2>2, <2>3 DEF FilePacket
  <2>5. new[k].t = list[k].t /\ new[k].secret = list[k].secret /\ new[k].note = list[k].note
    BY <2>2, <2>3 DEF FilePacket
  <2> QED
    BY <2>1, <2>4, <2>5, <2>6 DEF id, s, source
<1>7. new \in Seq(FilePacket)
  <2>1. new \in [1 .. size -> FilePacket]
    BY <1>2, <1>6 DEF Files!ImportedPackets, new, list
  <2> QED
    BY <1>2, <2>1, SeqDef
<1>8. IsPacketList(new, used + size)
  <2>1. \A k \in DOMAIN new : new[k].id \in 1 .. used + size /\ new[k].source \in 0 .. used + size
    BY <1>2, <1>6, <1>10
  <2>2. \A j, k \in DOMAIN new : new[j].id = new[k].id => j = k
    BY <1>2, <1>6, <1>10
  <2> QED
    BY <1>2, <1>7, <2>1, <2>2 DEF IsPacketList, IdsAreGivenOut
<1>9. \A k \in DOMAIN new : new[k].id > used /\ new[k].s = Len(sessions) + 1
  BY <1>2, <1>6, <1>10
<1>11. ASSUME NEW k \in DOMAIN list, NEW m \in DOMAIN list
       PROVE  list[k].source = list[m].id <=> new[k].source = new[m].id
  <2>1. new[k].source = Files!Link(list, list[k].source) /\ new[m].id = used + m
    BY <1>6
  <2>2. CASE \E i \in DOMAIN list : list[i].id = list[k].source
    <3>1. PICK i \in DOMAIN list : list[i].id = list[k].source
      BY <2>2
    <3>2. new[k].source = used + i
      BY <1>4, <2>1, <2>2, <3>1 DEF Files!Link
    <3>3. new[k].source = new[m].id <=> i = m
      BY <1>2, <2>1, <3>2
    <3>4. list[k].source = list[m].id <=> i = m
      BY <1>1, <3>1 DEF IsPacketList, IdsAreGivenOut
    <3> QED
      BY <3>3, <3>4
  <2>3. CASE ~\E i \in DOMAIN list : list[i].id = list[k].source
    <3>1. new[k].source = list[k].source /\ list[k].source # list[m].id
      BY <2>1, <2>3 DEF Files!Link
    <3>2. list[k].source \in 0 .. used
      BY <1>1 DEF IsPacketList, IdsAreGivenOut
    <3> QED
      BY <1>2, <2>1, <3>1, <3>2
  <2> QED
    BY <2>2, <2>3
<1>12. IsImport(new, list)
  BY <1>2, <1>6, <1>10, <1>11 DEF IsImport
<1> QED
  BY <1>2, <1>8, <1>9, <1>12 DEF new, size, list

(***************************************************************************)
(* What was known of a list stays known when more ids are given out.       *)
(***************************************************************************)
LEMMA MoreIds ==
  ASSUME NEW n \in Nat, NEW m \in Nat, n <= m, NEW list, IsPacketList(list, n)
  PROVE  IsPacketList(list, m)
BY DEF IsPacketList, IdsAreGivenOut

LEMMA FilesInitHolds == Files!Init => FilesInv
<1> SUFFICES ASSUME Files!Init PROVE FilesInv
  OBVIOUS
<1> DEFINE live == [status |-> "connected", endpoint |-> "secret", reason |-> "none", name |-> "matching",
                    count |-> 0]
<1>1. /\ filePackets = << >> /\ sessions = <<live>> /\ used = 0 /\ running = {} /\ disk = << >>
      /\ current = 1 /\ redacting = TRUE /\ unsafe = "none" /\ pending = "none"
      /\ rule = (CHOOSE r \in Rules : r # "invalid") /\ limit \in Limits
  BY DEF Files!Init, Files!None
<1>2. live \in SavedSession
  BY DEF SavedSession
<1> HIDE DEF live
<1>3. /\ sessions \in Seq(SavedSession) /\ Len(sessions) = 1 /\ DOMAIN sessions = 1 .. 1
      /\ filePackets \in Seq(FilePacket) /\ DOMAIN filePackets = {} /\ Len(filePackets) = 0
  BY <1>1, <1>2
<1>4. StoreInv
  BY <1>1, <1>3, FilesAssumption DEF StoreInv, IsPacketList, IdsAreGivenOut, LinksLookBack
<1>5. FilePanelOK
  BY <1>1, <1>3, FilesAssumption DEF FilePanelOK
<1>6. IsFiniteSet(running) /\ Cardinality(running) = 0
  BY <1>1, FS_EmptySet
<1>7. RunningInv
  BY <1>1, <1>6, FilesAssumption DEF RunningInv
<1>8. disk \in Seq(SavedFile) /\ Len(disk) = 0 /\ DOMAIN disk = {}
  BY <1>1
<1>9. DiskInv
  BY <1>8 DEF DiskInv
<1> QED
  BY <1>4, <1>5, <1>7, <1>9 DEF FilesInv

(***************************************************************************)
(* A step of the store: files in flight and on disk stay as they are.      *)
(***************************************************************************)
LEMMA StoreStep ==
  ASSUME FilesInv, StoreInv', used <= used', FilePanelOK',
         IsFiniteSet(running'), Cardinality(running') <= MaxRunning, running' \subseteq running, UNCHANGED disk
  PROVE  FilesInv'
<1>1. used \in Nat /\ used' \in Nat
  BY FilesAssumption DEF FilesInv, StoreInv
<1>2. \A list : IsPacketList(list, used) => IsPacketList(list, used')
  BY <1>1, MoreIds
<1>3. \A job : SaveInv(job, used) => SaveInv(job, used')
  BY <1>2 DEF SaveInv
<1>4. RunningInv'
  BY <1>3 DEF FilesInv, RunningInv
<1>5. DiskInv'
  BY <1>2 DEF FilesInv, DiskInv
<1> QED
  BY <1>4, <1>5 DEF FilesInv

LEMMA FileCaptureKeeps == FilesInv /\ Files!Capture => FilesInv'
<1> SUFFICES ASSUME FilesInv, Files!Capture PROVE FilesInv'
  OBVIOUS
<1>1. PICK secret \in BOOLEAN, time \in Times, source \in {0} \cup {p.id : p \in Files!ToSet(filePackets)} :
        filePackets' = Files!Merged(<<[id |-> used + 1, s |-> 1, t |-> time, secret |-> secret, note |-> ~secret,
                                       source |-> source]>>, filePackets)
  BY DEF Files!Capture, Files!NoPacket
<1>2. /\ used < MaxCaptured /\ used' = used + 1
      /\ sessions' = [sessions EXCEPT ![1].count = @ + 1]
      /\ UNCHANGED <<limit, current, redacting, rule, unsafe, pending, running, disk>>
  BY DEF Files!Capture, Files!panelVars
<1>3. /\ IsPacketList(filePackets, used) /\ used \in 0 .. MaxPackets /\ used \in Nat
      /\ sessions \in Seq(SavedSession) /\ Len(sessions) \in 1 .. MaxSessions
      /\ \A s \in DOMAIN sessions : s # 1 => sessions[s].status = "closed"
      /\ \A i \in DOMAIN filePackets : filePackets[i].s \in DOMAIN sessions
      /\ LinksLookBack(filePackets) /\ limit \in Limits /\ limit \in Nat
  BY FilesAssumption DEF FilesInv, StoreInv
<1>4. used' \in 0 .. MaxPackets /\ used' \in Nat /\ used <= used'
  BY <1>2, <1>3, FilesAssumption
<1>5. DOMAIN sessions = 1 .. Len(sessions) /\ Len(sessions) \in Nat /\ 1 \in DOMAIN sessions
      /\ \A s \in DOMAIN sessions : sessions[s] \in SavedSession
  BY <1>3, LenProperties, ElementOfSeq
<1>6. /\ sessions' \in Seq(SavedSession) /\ Len(sessions') = Len(sessions) /\ DOMAIN sessions' = DOMAIN sessions
      /\ \A s \in DOMAIN sessions : s # 1 => sessions'[s] = sessions[s]
  <2> DEFINE counted == [sessions[1] EXCEPT !.count = @ + 1]
  <2>1. counted \in SavedSession
    BY <1>5 DEF SavedSession
  <2>2. sessions' = [sessions EXCEPT ![1] = counted]
    BY <1>2
  <2> HIDE DEF counted
  <2>3. sessions' \in Seq(SavedSession) /\ Len(sessions') = Len(sessions)
    BY <1>3, <1>5, <2>1, <2>2, ExceptSeq
  <2> QED
    BY <1>5, <2>2, <2>3
<1>7. source \in 0 .. used
  <2>1. \A p \in Files!ToSet(filePackets) : p.id \in 1 .. used
    BY <1>3 DEF Files!ToSet, IsPacketList, IdsAreGivenOut
  <2> QED
    BY <1>3, <2>1
<1> DEFINE note == ~secret
           packet == [id |-> used + 1, s |-> 1, t |-> time, secret |-> secret, note |-> note, source |-> source]
           added == <<packet>>
<1>8. filePackets' = Files!Merged(added, filePackets)
  BY <1>1
<1>9. note \in BOOLEAN /\ time \in Int
  BY FilesAssumption
<1> HIDE DEF note
<1>10. packet \in FilePacket /\ packet.id = used + 1 /\ packet.s = 1 /\ packet.source = source
  BY <1>3, <1>7, <1>9 DEF FilePacket
<1> HIDE DEF packet
<1>11. added \in Seq(FilePacket) /\ DOMAIN added = {1} /\ added[1] = packet
  BY <1>10
<1>12. IsPacketList(added, used')
  BY <1>2, <1>3, <1>4, <1>7, <1>10, <1>11 DEF IsPacketList, IdsAreGivenOut
<1>13. \A k \in DOMAIN added : added[k].id > used /\ added[k].s = 1
  BY <1>3, <1>10, <1>11
<1> HIDE DEF added
<1>14. LET all == added \o filePackets
       IN  IsPacketList(all, used') /\ LinksLookBack(all) /\ IsOfBoth(all, added, filePackets)
  <2>1. \A k, l \in DOMAIN added : added[k].s = added[l].s
    BY <1>13
  <2>2. \A k \in DOMAIN added : added[k].s = 1 \/ \A i \in DOMAIN filePackets : filePackets[i].s <= added[k].s
    BY <1>13
  <2>3. \A k \in DOMAIN added : added[k].id > used
    BY <1>13
  <2>4. used <= used' /\ IsPacketList(filePackets, used) /\ LinksLookBack(filePackets)
    BY <1>3, <1>4
  <2>5. AreNew(added, filePackets, used)
    BY <2>1, <2>2, <2>3 DEF AreNew
  <2> QED
    BY <1>12, <2>4, <2>5, AddedFacts
<1> DEFINE all == added \o filePackets
<1>19. /\ IsPacketList(filePackets', used') /\ LinksLookBack(filePackets') /\ Len(filePackets') <= limit
       /\ \A k \in DOMAIN filePackets' : \E i \in DOMAIN all : filePackets'[k] = all[i]
  BY <1>3, <1>8, <1>14, MergedFacts
<1>20. \A k \in DOMAIN all : all[k].s \in DOMAIN sessions'
  BY <1>3, <1>5, <1>6, <1>13, <1>14 DEF IsOfBoth
<1> HIDE DEF all
<1>15. \A k \in DOMAIN filePackets' : filePackets'[k].s \in DOMAIN sessions'
  BY <1>19, <1>20
<1>16. StoreInv'
  BY <1>2, <1>3, <1>4, <1>6, <1>15, <1>19 DEF StoreInv
<1>17. FilePanelOK'
  BY <1>2, <1>6 DEF FilesInv, FilePanelOK
<1>18. IsFiniteSet(running') /\ Cardinality(running') <= MaxRunning /\ running' \subseteq running
  BY <1>2 DEF FilesInv, RunningInv
<1> QED
  BY <1>2, <1>4, <1>16, <1>17, <1>18, StoreStep

LEMMA SessionEndsKeeps == FilesInv /\ Files!SessionEnds => FilesInv'
<1> SUFFICES ASSUME FilesInv, Files!SessionEnds PROVE FilesInv'
  OBVIOUS
<1> DEFINE ended == [sessions[1] EXCEPT !.status = "closed", !.reason = "secret"]
<1>1. /\ sessions' = [sessions EXCEPT ![1].status = "closed", ![1].reason = "secret"]
      /\ UNCHANGED <<filePackets, limit, used, current, redacting, rule, unsafe, pending, running, disk>>
  BY DEF Files!SessionEnds, Files!panelVars
<1>2. /\ sessions \in Seq(SavedSession) /\ Len(sessions) \in 1 .. MaxSessions
      /\ \A s \in DOMAIN sessions : s # 1 => sessions[s].status = "closed"
  BY DEF FilesInv, StoreInv
<1>3. DOMAIN sessions = 1 .. Len(sessions) /\ 1 \in DOMAIN sessions /\ sessions[1] \in SavedSession
  BY <1>2, FilesAssumption, LenProperties, ElementOfSeq
<1>4. ended \in SavedSession
  BY <1>3 DEF SavedSession
<1>5. sessions' = [sessions EXCEPT ![1] = ended]
  BY <1>1, <1>3 DEF SavedSession
<1> HIDE DEF ended
<1>6. /\ sessions' \in Seq(SavedSession) /\ Len(sessions') = Len(sessions) /\ DOMAIN sessions' = DOMAIN sessions
      /\ \A s \in DOMAIN sessions : s # 1 => sessions'[s] = sessions[s]
  BY <1>2, <1>3, <1>4, <1>5, ExceptSeq
<1>7. StoreInv'
  BY <1>1, <1>2, <1>6 DEF FilesInv, StoreInv
<1>8. FilePanelOK' /\ used <= used'
  BY <1>1, <1>6, FilesAssumption DEF FilesInv, FilePanelOK, StoreInv
<1>9. IsFiniteSet(running') /\ Cardinality(running') <= MaxRunning /\ running' \subseteq running
  BY <1>1 DEF FilesInv, RunningInv
<1> QED
  BY <1>1, <1>7, <1>8, <1>9, StoreStep

LEMMA SetLimitKeeps == FilesInv /\ Files!SetLimit => FilesInv'
<1> SUFFICES ASSUME FilesInv, Files!SetLimit PROVE FilesInv'
  OBVIOUS
<1>1. /\ limit' \in Limits /\ filePackets' = Files!Retained(filePackets, limit')
      /\ UNCHANGED <<sessions, used, current, redacting, rule, unsafe, pending, running, disk>>
  BY DEF Files!SetLimit, Files!panelVars
<1>2. /\ IsPacketList(filePackets, used) /\ LinksLookBack(filePackets)
      /\ \A i \in DOMAIN filePackets : filePackets[i].s \in DOMAIN sessions
  BY DEF FilesInv, StoreInv
<1>3. /\ IsPacketList(filePackets', used) /\ LinksLookBack(filePackets') /\ Len(filePackets') <= limit'
      /\ \A k \in DOMAIN filePackets' : \E i \in DOMAIN filePackets : filePackets'[k] = filePackets[i]
  <2>1. limit' \in Nat
    BY <1>1, FilesAssumption
  <2> QED
    BY <1>1, <1>2, <2>1, RetainedFacts
<1>4. \A k \in DOMAIN filePackets' : filePackets'[k].s \in DOMAIN sessions
  BY <1>2, <1>3
<1>7. StoreInv'
  BY <1>1, <1>3, <1>4 DEF FilesInv, StoreInv
<1>8. FilePanelOK' /\ used <= used'
  BY <1>1, FilesAssumption DEF FilesInv, FilePanelOK, StoreInv
<1>9. IsFiniteSet(running') /\ Cardinality(running') <= MaxRunning /\ running' \subseteq running
  BY <1>1 DEF FilesInv, RunningInv
<1> QED
  BY <1>1, <1>7, <1>8, <1>9, StoreStep

LEMMA FilePanelKeeps ==
  ASSUME FilesInv,
         \/ Files!SelectSession \/ Files!ToggleRedaction \/ Files!EditRules \/ Files!CancelUnsafe
         \/ UNCHANGED fileVars
  PROVE  FilesInv'
<1>1. UNCHANGED <<filePackets, sessions, limit, used, running, disk>>
  BY DEF Files!SelectSession, Files!ToggleRedaction, Files!EditRules, Files!CancelUnsafe, Files!storeVars, fileVars
<1>2. current' \in DOMAIN sessions /\ redacting' \in BOOLEAN /\ rule' \in Rules
      /\ unsafe' \in {"save", "export", "none"} /\ pending' \in {"save", "export", "load", "none"}
  BY DEF Files!SelectSession, Files!ToggleRedaction, Files!EditRules, Files!CancelUnsafe, Files!storeVars, fileVars,
         Files!None, FilesInv, FilePanelOK
<1>3. FilePanelOK' /\ StoreInv'
  BY <1>1, <1>2 DEF FilesInv, FilePanelOK, StoreInv
<1>4. RunningInv' /\ DiskInv'
  BY <1>1 DEF FilesInv, RunningInv, DiskInv
<1> QED
  BY <1>3, <1>4 DEF FilesInv

(***************************************************************************)
(* Operations begin.                                                       *)
(***************************************************************************)
LEMMA RunKeeps ==
  ASSUME FilesInv, NEW op \in {"save", "export", "load"}, NEW job, Files!Run(op, job),
         SaveInv(job, used) \/ (job = [op |-> "load"] /\ disk # << >>),
         UNCHANGED <<filePackets, sessions, limit, used, current, redacting, rule, disk>>,
         unsafe' \in {"save", "export", "none"}
  PROVE  FilesInv'
<1>1. /\ Files!Cardinality(running) < MaxRunning /\ job \notin running
      /\ running' = running \cup {job} /\ pending' = op
  BY DEF Files!Run
<1>2. IsFiniteSet(running) /\ Cardinality(running) \in Nat /\ Cardinality(running) < MaxRunning
  <2>1. Files!Cardinality(running) = Cardinality(running)
    BY DEF Files!Cardinality, Cardinality
  <2>2. IsFiniteSet(running)
    BY DEF FilesInv, RunningInv
  <2> QED
    BY <1>1, <2>1, <2>2, FS_CardinalityType
<1>3. IsFiniteSet(running') /\ Cardinality(running') <= MaxRunning
  <2>1. IsFiniteSet(running') /\ Cardinality(running') = Cardinality(running) + 1
    BY <1>1, <1>2, FS_AddElement
  <2> QED
    BY <1>2, <2>1, FilesAssumption
<1>4. SaveInv(job, used) => job # [op |-> "load"]
  <2> SUFFICES ASSUME SaveInv(job, used), job = [op |-> "load"] PROVE FALSE
    OBVIOUS
  <2>1. job.op = "load"
    OBVIOUS
  <2>2. job.op \in {"save", "export"}
    BY DEF SaveInv
  <2> QED
    BY <2>1, <2>2
<1>5. \A other \in running' : other = [op |-> "load"] \/ SaveInv(other, used)
  BY <1>1 DEF FilesInv, RunningInv
<1>6. [op |-> "load"] \in running' => disk # << >>
  BY <1>1, <1>4 DEF FilesInv, RunningInv
<1>7. RunningInv'
  BY <1>3, <1>5, <1>6 DEF RunningInv
<1>8. FilePanelOK'
  BY <1>1 DEF FilesInv, FilePanelOK
<1>9. StoreInv' /\ DiskInv'
  BY DEF FilesInv, StoreInv, DiskInv
<1> QED
  BY <1>7, <1>8, <1>9 DEF FilesInv

LEMMA FileOperationKeeps ==
  ASSUME FilesInv, NEW op \in {"save", "export"}, Files!HandleFileOperation(op)
  PROVE  FilesInv'
<1>1. /\ UNCHANGED <<filePackets, sessions, limit, used, current, redacting, rule, disk>>
      /\ IF ~redacting /\ Files!SensitiveDataDetected
           THEN unsafe' = op /\ UNCHANGED <<pending, running>>
           ELSE /\ \E typed \in Files!Names : Files!Run(op, Files!SaveJob(op, redacting, typed, FALSE))
                /\ UNCHANGED unsafe
  BY DEF Files!HandleFileOperation, Files!storeVars
<1>2. StoreInv /\ FilePanelOK /\ redacting \in BOOLEAN
  BY DEF FilesInv, FilePanelOK
<1>3. CASE ~redacting /\ Files!SensitiveDataDetected
  <2>1. FilePanelOK' /\ StoreInv' /\ RunningInv' /\ DiskInv'
    BY <1>1, <1>3 DEF FilesInv, StoreInv, FilePanelOK, RunningInv, DiskInv
  <2> QED
    BY <2>1 DEF FilesInv
<1>4. CASE ~(~redacting /\ Files!SensitiveDataDetected)
  <2>8. PICK typed \in Files!Names : Files!Run(op, Files!SaveJob(op, redacting, typed, FALSE)) /\ UNCHANGED unsafe
    BY <1>1, <1>4
  <2> DEFINE job == Files!SaveJob(op, redacting, typed, FALSE)
             file == Files!FileOf(op, redacting, typed)
  <2>1. /\ file \in SavedFile /\ file.rule \in Rules /\ file.redacted = redacting
        /\ IsPacketList(file.packets, used) /\ NotesAreClean(file)
        /\ redacting => ~HoldsSecret(file)
        /\ HoldsSecret(file) => Files!SensitiveDataDetected
    BY <1>2, FileOfFacts
  <2>2. job = [op |-> op, file |-> file, asked |-> FALSE]
    BY DEF Files!SaveJob
  <2>3. Files!Run(op, job) /\ UNCHANGED unsafe
    BY <2>8
  <2> HIDE DEF job, file
  <2>4. job \in [op : {"save", "export"}, file : SavedFile, asked : BOOLEAN]
        /\ job.file = file /\ job.asked = FALSE
    BY <2>1, <2>2
  <2>5. ~HoldsSecret(file)
    BY <1>2, <1>4, <2>1
  <2>6. SaveInv(job, used)
    BY <2>1, <2>4, <2>5 DEF SaveInv
  <2>7. unsafe' \in {"save", "export", "none"}
    BY <1>2, <2>3 DEF FilePanelOK
  <2> QED
    BY <1>1, <2>3, <2>6, <2>7, RunKeeps
<1> QED
  BY <1>3, <1>4

LEMMA ConfirmKeeps == FilesInv /\ Files!HandleConfirmUnsafeExport => FilesInv'
<1> SUFFICES ASSUME FilesInv, Files!HandleConfirmUnsafeExport PROVE FilesInv'
  OBVIOUS
<1>1. /\ unsafe # "none" /\ unsafe' = "none"
      /\ UNCHANGED <<filePackets, sessions, limit, used, current, redacting, rule, disk>>
  BY DEF Files!HandleConfirmUnsafeExport, Files!storeVars, Files!None
<1>2. StoreInv /\ FilePanelOK /\ unsafe \in {"save", "export"}
  BY <1>1 DEF FilesInv, FilePanelOK
<1>8. PICK typed \in Files!Names : Files!Run(unsafe, Files!SaveJob(unsafe, FALSE, typed, TRUE))
  BY DEF Files!HandleConfirmUnsafeExport
<1> DEFINE job == Files!SaveJob(unsafe, FALSE, typed, TRUE)
           file == Files!FileOf(unsafe, FALSE, typed)
<1>3. /\ file \in SavedFile /\ file.rule \in Rules /\ file.redacted = FALSE
      /\ IsPacketList(file.packets, used) /\ NotesAreClean(file)
  BY <1>2, FileOfFacts
<1>4. job = [op |-> unsafe, file |-> file, asked |-> TRUE]
  BY DEF Files!SaveJob
<1>5. Files!Run(unsafe, job)
  BY <1>8
<1> HIDE DEF job, file
<1>6. job \in [op : {"save", "export"}, file : SavedFile, asked : BOOLEAN]
      /\ job.file = file /\ job.asked = TRUE
  BY <1>2, <1>3, <1>4
<1>7. SaveInv(job, used)
  BY <1>3, <1>6 DEF SaveInv
<1> QED
  BY <1>1, <1>2, <1>5, <1>7, RunKeeps

LEMMA LoadClickKeeps == FilesInv /\ Files!HandleLoadClick => FilesInv'
<1> SUFFICES ASSUME FilesInv, Files!HandleLoadClick PROVE FilesInv'
  OBVIOUS
<1>1. /\ disk # << >> /\ Files!Run("load", [op |-> "load"])
      /\ UNCHANGED <<filePackets, sessions, limit, used, current, redacting, rule, unsafe, disk>>
  BY DEF Files!HandleLoadClick, Files!storeVars, Files!panelVars
<1>2. unsafe' \in {"save", "export", "none"}
  BY <1>1 DEF FilesInv, FilePanelOK
<1> QED
  BY <1>1, <1>2, RunKeeps

(***************************************************************************)
(* Operations end.                                                         *)
(***************************************************************************)
LEMMA JobEnds ==
  ASSUME FilesInv, NEW job \in running, Files!Ends(job)
  PROVE  /\ pending' = "none" /\ running' = running \ {job}
         /\ IsFiniteSet(running') /\ Cardinality(running') <= MaxRunning
<1>1. pending' = "none" /\ running' = running \ {job}
  BY DEF Files!Ends, Files!None
<1>2. IsFiniteSet(running) /\ Cardinality(running) <= MaxRunning
  BY DEF FilesInv, RunningInv
<1>3. IsFiniteSet(running') /\ Cardinality(running') <= Cardinality(running)
  BY <1>1, <1>2, FS_Subset
<1>4. Cardinality(running) \in Nat /\ Cardinality(running') \in Nat
  BY <1>2, <1>3, FS_CardinalityType
<1> QED
  BY <1>1, <1>2, <1>3, <1>4, FilesAssumption

LEMMA SaveEndsKeeps == FilesInv /\ Files!SaveEnds => FilesInv'
<1> SUFFICES ASSUME FilesInv, Files!SaveEnds PROVE FilesInv'
  OBVIOUS
<1>1. UNCHANGED <<filePackets, sessions, limit, used, current, redacting, rule, unsafe>>
  BY DEF Files!SaveEnds, Files!storeVars, Files!panelVars
<1>2. PICK job \in running :
        /\ job.op # "load" /\ Files!Ends(job)
        /\ disk' \in {disk, Append(disk, [job.file EXCEPT !.rule = IF job.asked THEN "asked" ELSE @])}
  BY DEF Files!SaveEnds
<1>3. /\ pending' = "none" /\ running' = running \ {job}
      /\ IsFiniteSet(running') /\ Cardinality(running') <= MaxRunning
  BY <1>2, JobEnds
<1>4. SaveInv(job, used)
  <2>1. job # [op |-> "load"]
    BY <1>2
  <2> QED
    BY <2>1 DEF FilesInv, RunningInv
<1> DEFINE mark == IF job.asked THEN "asked" ELSE job.file.rule
           file == [job.file EXCEPT !.rule = mark]
<1>5. disk' = disk \/ disk' = Append(disk, file)
  BY <1>2
<1>6. job.file \in SavedFile /\ mark \in Rules \cup {"asked"} /\ (job.asked => mark = "asked")
      /\ (~job.asked => mark = job.file.rule)
  BY <1>4 DEF SaveInv
<1> HIDE DEF mark
<1>7. file \in SavedFile /\ file.rule = mark /\ file.packets = job.file.packets
      /\ file.redacted = job.file.redacted /\ file.endpoint = job.file.endpoint /\ file.reason = job.file.reason
  BY <1>6 DEF SavedFile
<1> HIDE DEF file
<1>8. /\ IsPacketList(file.packets, used)
      /\ HoldsSecret(file) => ~file.redacted /\ file.rule = "asked"
      /\ NotesAreClean(file)
  <2>1. HoldsSecret(file) <=> HoldsSecret(job.file)
    BY <1>7 DEF HoldsSecret
  <2>2. HoldsSecret(file) => ~file.redacted /\ file.rule = "asked"
    BY <1>4, <1>6, <1>7, <2>1 DEF SaveInv
  <2>3. NotesAreClean(file)
    BY <1>4, <1>6, <1>7 DEF SaveInv, NotesAreClean
  <2>4. IsPacketList(file.packets, used)
    BY <1>4, <1>7 DEF SaveInv
  <2> QED
    BY <2>2, <2>3, <2>4
<1>9. DiskInv' /\ (disk # << >> => disk' # << >>)
  <2>1. CASE disk' = disk
    BY <1>1, <2>1 DEF FilesInv, DiskInv
  <2>2. CASE disk' = Append(disk, file)
    <3>1. disk \in Seq(SavedFile) /\ Len(disk) \in Nat /\ DOMAIN disk = 1 .. Len(disk)
      BY LenProperties DEF FilesInv, DiskInv
    <3>2. /\ disk' \in Seq(SavedFile) /\ Len(disk') = Len(disk) + 1
          /\ \A i \in 1 .. Len(disk) : disk'[i] = disk[i]
          /\ disk'[Len(disk) + 1] = file
      BY <1>7, <2>2, <3>1, AppendProperties
    <3>3. DOMAIN disk' = 1 .. Len(disk) + 1 /\ disk' # << >>
      BY <3>1, <3>2, LenProperties
    <3>4. \A i \in DOMAIN disk' : (i \in DOMAIN disk /\ disk'[i] = disk[i]) \/ disk'[i] = file
      BY <3>1, <3>2, <3>3
    <3> QED
      BY <1>1, <1>8, <3>2, <3>3, <3>4 DEF FilesInv, DiskInv
  <2> QED
    BY <1>5, <2>1, <2>2
<1>10. RunningInv'
  BY <1>1, <1>3, <1>9 DEF FilesInv, RunningInv
<1>11. StoreInv' /\ FilePanelOK'
  BY <1>1, <1>3 DEF FilesInv, StoreInv, FilePanelOK
<1> QED
  BY <1>9, <1>10, <1>11 DEF FilesInv

LEMMA ImportKeeps ==
  ASSUME FilesInv, NEW file \in SavedFile, IsPacketList(file.packets, used), Files!ImportSocketLensFile(file)
  PROVE  StoreInv' /\ used <= used' /\ current' \in DOMAIN sessions'
<1> DEFINE imported == Files!ImportedPackets(file)
           all == imported \o filePackets
           session == [status |-> Files!ImportedStatus(file.status), endpoint |-> file.endpoint,
                       reason |-> file.reason, name |-> file.name, count |-> Len(file.packets)]
<1>1. /\ used + Len(file.packets) <= MaxPackets /\ Len(sessions) < MaxSessions
      /\ filePackets' = Files!Merged(imported, filePackets)
      /\ sessions' = Append(sessions, session)
      /\ used' = used + Len(file.packets)
      /\ current' = Len(sessions) + 1 /\ UNCHANGED limit
  BY DEF Files!ImportSocketLensFile
<1>2. /\ IsPacketList(filePackets, used) /\ used \in Nat
      /\ sessions \in Seq(SavedSession) /\ Len(sessions) \in 1 .. MaxSessions /\ Len(sessions) \in Nat
      /\ \A s \in DOMAIN sessions : s # 1 => sessions[s].status = "closed"
      /\ \A i \in DOMAIN filePackets : filePackets[i].s \in DOMAIN sessions
      /\ LinksLookBack(filePackets) /\ StoreInv /\ limit \in Limits /\ limit \in Nat
  BY FilesAssumption DEF FilesInv, StoreInv
<1>3. /\ IsPacketList(imported, used + Len(file.packets)) /\ Len(file.packets) \in Nat
      /\ \A k \in DOMAIN imported : imported[k].id > used /\ imported[k].s = Len(sessions) + 1
  BY <1>2, ImportedFacts
<1>4. used' \in 0 .. MaxPackets /\ used <= used' /\ used' \in Nat
  BY <1>1, <1>2, <1>3, FilesAssumption
<1>5. session \in SavedSession /\ session.status = "closed"
  BY <1>3 DEF SavedFile, SavedSession, Files!ImportedStatus
<1> HIDE DEF session, imported
<1>6. /\ sessions' \in Seq(SavedSession) /\ Len(sessions') = Len(sessions) + 1
      /\ DOMAIN sessions = 1 .. Len(sessions) /\ DOMAIN sessions' = 1 .. Len(sessions) + 1
      /\ \A s \in 1 .. Len(sessions) : sessions'[s] = sessions[s]
      /\ sessions'[Len(sessions) + 1] = session
  <2>1. sessions' \in Seq(SavedSession) /\ Len(sessions') = Len(sessions) + 1
    BY <1>1, <1>2, <1>5, AppendProperties
  <2>2. DOMAIN sessions = 1 .. Len(sessions) /\ DOMAIN sessions' = 1 .. Len(sessions) + 1
    BY <1>2, <2>1, LenProperties
  <2>3. /\ \A s \in 1 .. Len(sessions) : sessions'[s] = sessions[s]
        /\ sessions'[Len(sessions) + 1] = session
    BY <1>1, <1>2, <1>5, AppendProperties
  <2> QED
    BY <2>1, <2>2, <2>3
<1>7. IsPacketList(all, used') /\ LinksLookBack(all) /\ IsOfBoth(all, imported, filePackets)
  <2>1. \A k, l \in DOMAIN imported : imported[k].s = imported[l].s
    BY <1>3
  <2>2. \A k \in DOMAIN imported :
          imported[k].s = 1 \/ \A i \in DOMAIN filePackets : filePackets[i].s <= imported[k].s
    BY <1>2, <1>3, <1>6
  <2>3. IsPacketList(imported, used')
    BY <1>1, <1>3
  <2>4. \A k \in DOMAIN imported : imported[k].id > used
    BY <1>3
  <2>5. AreNew(imported, filePackets, used)
    BY <2>1, <2>2, <2>4 DEF AreNew
  <2> QED
    BY <1>2, <1>4, <2>3, <2>5, AddedFacts
<1>8. \A k \in DOMAIN all : all[k].s \in DOMAIN sessions'
  <2>1. \A i \in DOMAIN imported : imported[i].s \in DOMAIN sessions'
    BY <1>2, <1>3, <1>6
  <2>2. \A i \in DOMAIN filePackets : filePackets[i].s \in DOMAIN sessions'
    BY <1>2, <1>6
  <2> QED
    BY <1>7, <2>1, <2>2 DEF IsOfBoth
<1>9. /\ IsPacketList(filePackets', used') /\ LinksLookBack(filePackets') /\ Len(filePackets') <= limit
      /\ \A k \in DOMAIN filePackets' : \E i \in DOMAIN all : filePackets'[k] = all[i]
  <2>1. IsPacketList(imported \o filePackets, used') /\ LinksLookBack(imported \o filePackets) /\ limit \in Nat
    BY <1>2, <1>7
  <2>2. LET merged == Files!Merged(imported, filePackets)
        IN  /\ IsPacketList(merged, used') /\ LinksLookBack(merged) /\ Len(merged) <= limit
            /\ \A k \in DOMAIN merged : \E i \in DOMAIN all : merged[k] = all[i]
    BY ONLY <2>1, MergedFacts
  <2> HIDE DEF all
  <2> QED
    BY <1>1, <2>2
<1> HIDE DEF all
<1>10. \A k \in DOMAIN filePackets' : filePackets'[k].s \in DOMAIN sessions'
  BY <1>8, <1>9
<1>11. \A s \in DOMAIN sessions' : s # 1 => sessions'[s].status = "closed"
  <2> SUFFICES ASSUME NEW s \in DOMAIN sessions', s # 1 PROVE sessions'[s].status = "closed"
    OBVIOUS
  <2>1. CASE s = Len(sessions) + 1
    BY <1>5, <1>6, <2>1
  <2>2. CASE s # Len(sessions) + 1
    <3>1. s \in 1 .. Len(sessions)
      BY <1>2, <1>6, <2>2
    <3> QED
      BY <1>2, <1>6, <3>1
  <2> QED
    BY <2>1, <2>2
<1>12. Len(sessions') \in 1 .. MaxSessions /\ current' \in DOMAIN sessions'
  BY <1>1, <1>2, <1>6, FilesAssumption
<1> QED
  BY <1>1, <1>2, <1>4, <1>6, <1>9, <1>10, <1>11, <1>12 DEF StoreInv

LEMMA OnDisk ==
  ASSUME FilesInv, NEW file \in Files!ToSet(disk)
  PROVE  file \in SavedFile /\ IsPacketList(file.packets, used)
<1>1. PICK i \in DOMAIN disk : file = disk[i]
  BY DEF Files!ToSet
<1>2. disk \in Seq(SavedFile) /\ IsPacketList(disk[i].packets, used)
  BY DEF FilesInv, DiskInv
<1>3. disk[i] \in SavedFile
  BY <1>2, LenProperties, ElementOfSeq
<1> QED
  BY <1>1, <1>2, <1>3

LEMMA LoadEndsKeeps == FilesInv /\ Files!LoadEnds => FilesInv'
<1> SUFFICES ASSUME FilesInv, Files!LoadEnds PROVE FilesInv'
  OBVIOUS
<1>1. UNCHANGED <<redacting, rule, unsafe, disk>>
  BY DEF Files!LoadEnds
<1>2. PICK job \in running :
        /\ job.op = "load" /\ Files!Ends(job)
        /\ \/ \E file \in Files!ToSet(disk) : Files!ImportSocketLensFile(file)
           \/ UNCHANGED <<filePackets, sessions, limit, used, current>>
  BY DEF Files!LoadEnds, Files!storeVars
<1>3. /\ pending' = "none" /\ running' \subseteq running
      /\ IsFiniteSet(running') /\ Cardinality(running') <= MaxRunning
  BY <1>2, JobEnds
<1>5. StoreInv' /\ used <= used' /\ current' \in DOMAIN sessions'
  <2>1. CASE \E file \in Files!ToSet(disk) : Files!ImportSocketLensFile(file)
    BY <2>1, OnDisk, ImportKeeps
  <2>2. CASE UNCHANGED <<filePackets, sessions, limit, used, current>>
    <3>1. StoreInv' /\ current' \in DOMAIN sessions'
      BY <2>2 DEF FilesInv, StoreInv, FilePanelOK
    <3>2. used <= used'
      BY <2>2, FilesAssumption DEF FilesInv, StoreInv
    <3> QED
      BY <3>1, <3>2
  <2> QED
    BY <1>2, <2>1, <2>2
<1>6. FilePanelOK'
  BY <1>1, <1>3, <1>5 DEF FilesInv, FilePanelOK
<1> QED
  BY <1>1, <1>3, <1>5, <1>6, StoreStep

LEMMA FilesStep == FilesInv /\ [Files!Next]_fileVars => FilesInv'
<1> SUFFICES ASSUME FilesInv, [Files!Next]_fileVars PROVE FilesInv'
  OBVIOUS
<1>1. CASE \E op \in Files!FileOperations : Files!HandleFileOperation(op)
  BY <1>1, FileOperationKeeps DEF Files!FileOperations
<1> QED
  BY <1>1, FileCaptureKeeps, SessionEndsKeeps, SetLimitKeeps, FilePanelKeeps, ConfirmKeeps, LoadClickKeeps, SaveEndsKeeps,
     LoadEndsKeeps DEF Files!Next

(***************************************************************************)
(* The endpoint, the close reason and the packets of a redacted file hold  *)
(* no secret, its notes nothing its rules match, and a file that holds a   *)
(* secret was written after a confirmation; imported sessions are closed,  *)
(* no two packets have the same id and no link points forward to a later   *)
(* import: however many packets are captured, files written and imported,  *)
(* and operations in flight (session-file.ts, session-redaction.ts,        *)
(* session-persistence-panel.tsx).  Of a file's name nothing is claimed:   *)
(* App.tsx writes it as typed.                                             *)
(***************************************************************************)
THEOREM FilesCorrect == MCInit /\ [][MCNext]_vars => []FilesAreSafe
<1>1. MCInit => FilesInv
  BY FilesInitHolds DEF MCInit
<1>2. FilesInv /\ [MCNext]_vars => FilesInv'
  <2>1. [MCNext]_vars => [Files!Next]_fileVars
    BY DEF MCNext, Others, vars
  <2> QED
    BY <2>1, FilesStep
<1>3. FilesInv => FilesAreSafe
  <2> SUFFICES ASSUME FilesInv PROVE Files!TypeOK /\ Files!FilesAreSafe /\ Files!ImportsAreClosedWorlds
    BY DEF FilesAreSafe
  <2>1. \A p \in Files!ToSet(filePackets) : p.id \in 1 .. used /\ p.s \in DOMAIN sessions
    BY DEF Files!ToSet, FilesInv, StoreInv, IsPacketList, IdsAreGivenOut
  <2>2. Files!TypeOK
    <3>1. Files!Cardinality(running) = Cardinality(running)
      BY DEF Files!Cardinality, Cardinality
    <3>2. Len(sessions) <= MaxSessions
      BY FilesAssumption DEF FilesInv, StoreInv
    <3>3. limit \in Limits /\ Len(filePackets) <= limit
      BY DEF FilesInv, StoreInv
    <3> QED
      BY <2>1, <3>1, <3>2, <3>3 DEF FilesInv, StoreInv, FilePanelOK, RunningInv, Files!TypeOK, Files!FileOperations, Files!None
  <2>3. Files!FilesAreSafe
    <3> SUFFICES ASSUME NEW i \in DOMAIN disk
                 PROVE  /\ disk[i].endpoint = "secret" \/ disk[i].reason = "secret"
                             \/ (\E p \in Files!ToSet(disk[i].packets) : p.secret)
                             => ~disk[i].redacted /\ disk[i].rule = "asked"
                        /\ disk[i].redacted /\ disk[i].rule = "valid" =>
                             \A p \in Files!ToSet(disk[i].packets) : ~p.note
      BY DEF Files!FilesAreSafe, Files!ToSet
    <3> QED
      BY DEF FilesInv, DiskInv, HoldsSecret, NotesAreClean, Files!ToSet
  <2>4. Files!ImportsAreClosedWorlds
    BY DEF FilesInv, StoreInv, IsPacketList, IdsAreGivenOut, LinksLookBack, Files!ImportsAreClosedWorlds, Files!ToSet
  <2> QED
    BY <2>2, <2>3, <2>4
<1> QED
  BY <1>1, <1>2, <1>3, PTL

(***************************************************************************)
(* A step that imports nothing adds no session.                            *)
(***************************************************************************)
LEMMA OnlyImportsAddSessions ==
  ASSUME FilesInv, [Files!Next]_fileVars
  PROVE  Len(sessions') = Len(sessions) \/ Files!LoadEnds
<1>1. CASE UNCHANGED sessions
  BY <1>1
<1>2. CASE Files!Capture
  <2>1. sessions' = [sessions EXCEPT ![1].count = @ + 1]
    BY <1>2 DEF Files!Capture
  <2>2. sessions \in Seq(SavedSession)
    BY DEF FilesInv, StoreInv
  <2> QED
    BY <2>1, <2>2
<1>3. CASE UNCHANGED Files!storeVars
  BY <1>3 DEF Files!storeVars
<1>4. CASE Files!SetLimit
  BY <1>4, <1>1 DEF Files!SetLimit
<1>9. CASE Files!SessionEnds
  <2>1. sessions' = [sessions EXCEPT ![1].status = "closed", ![1].reason = "secret"]
    BY <1>9 DEF Files!SessionEnds
  <2>2. sessions \in Seq(SavedSession)
    BY DEF FilesInv, StoreInv
  <2> QED
    BY <2>1, <2>2
<1>5. CASE \E op \in Files!FileOperations : Files!HandleFileOperation(op)
  BY <1>3, <1>5 DEF Files!HandleFileOperation
<1>6. CASE Files!SelectSession \/ Files!ToggleRedaction \/ Files!EditRules \/ Files!CancelUnsafe
  BY <1>3, <1>6 DEF Files!SelectSession, Files!ToggleRedaction, Files!EditRules, Files!CancelUnsafe
<1>7. CASE Files!HandleConfirmUnsafeExport \/ Files!HandleLoadClick \/ Files!SaveEnds
  BY <1>3, <1>7 DEF Files!HandleConfirmUnsafeExport, Files!HandleLoadClick, Files!SaveEnds
<1>8. CASE UNCHANGED fileVars
  BY <1>1, <1>8 DEF fileVars
<1> QED
  BY <1>2, <1>4, <1>5, <1>6, <1>7, <1>8, <1>9 DEF Files!Next

(***************************************************************************)
(* The packets of the new session are the newest of the imported ones as   *)
(* they were in the file: they were sorted before they were merged, the    *)
(* merge keeps their order, no other packet belongs to the new session,    *)
(* and what the retention limit cuts off is the end of the merged list.    *)
(***************************************************************************)
LEMMA ImportRestores ==
  ASSUME FilesInv, NEW file, IsPacketList(file.packets, used), Files!ImportSocketLensFile(file)
  PROVE  Files!RestoredFrom(file)
<1> DEFINE list == Files!SortNewestFirst(file.packets)
           imported == Files!ImportedPackets(file)
           brought == Files!Kept(filePackets', {i \in DOMAIN filePackets' : filePackets'[i].s = Len(sessions')})
           new == Len(sessions) + 1
           merged == NewestFirst(imported \o filePackets)
           missing == (DOMAIN list) \ (DOMAIN brought)
<1>1. StoreInv /\ filePackets \in Seq(FilePacket) /\ sessions \in Seq(SavedSession) /\ limit \in Nat
  BY FilesAssumption DEF FilesInv, StoreInv, IsPacketList
<1>2. /\ IsPacketList(imported, used + Len(file.packets)) /\ IsImport(imported, list)
      /\ \A k \in DOMAIN imported : imported[k].s = new
  BY <1>1, ImportedFacts
<1>3. \A k, l \in DOMAIN list : k < l => list[k].t >= list[l].t
  BY SortedFileFacts
<1>4. list \in Seq(FilePacket)
  BY SortedFileFacts DEF IsPacketList
<1>5. filePackets' = Files!Retained(merged, limit) /\ limit' = limit
  BY SameNewestFirst DEF Files!ImportSocketLensFile, Files!Merged
<1>6. Len(sessions') = new
  <2>1. PICK s : sessions' = Append(sessions, s)
    BY DEF Files!ImportSocketLensFile
  <2> QED
    BY <1>1, <2>1, LenProperties
<1>7. Len(sessions) \in Nat /\ DOMAIN sessions = 1 .. Len(sessions)
  BY <1>1, LenProperties
<1>8. brought = PickedOut(filePackets', new)
  BY <1>6, SameKept DEF PickedOut
<1>9. \A i \in DOMAIN filePackets : filePackets[i].s # new
  BY <1>1, <1>7 DEF StoreInv
<1>10. \A p \in FilePacket : p.t \in Int
  BY DEF FilePacket
<1> HIDE DEF list, imported, brought, new
<1>11. imported \in Seq(FilePacket)
  BY <1>2 DEF IsPacketList
<1>12. \A k, l \in DOMAIN imported : k < l => imported[k].t >= imported[l].t
  BY <1>2, <1>3 DEF IsImport
<1>13. PickedOut(merged, new) = imported
  <2>1. BroughtFor(new, imported, filePackets) /\ IsOrdered(imported)
    BY <1>2, <1>9, <1>12 DEF BroughtFor, IsOrdered, new
  <2> QED
    BY <1>1, <1>10, <1>11, <2>1, BroughtBack
<1>14. merged \in Seq(FilePacket) /\ Len(merged) \in Nat /\ DOMAIN merged = 1 .. Len(merged)
       /\ \A i, j \in 1 .. Len(merged) : i < j => merged[i].t >= merged[j].t
  <2>1. imported \o filePackets \in Seq(FilePacket)
    BY <1>1, <1>11, ConcatProperties
  <2>2. merged \in Seq(FilePacket) /\ IsSorting(merged, imported \o filePackets)
        /\ Len(merged) = Len(imported \o filePackets)
    BY <1>10, <2>1, NewestFirstFacts
  <2> HIDE DEF merged
  <2>3. Len(merged) \in Nat /\ DOMAIN merged = 1 .. Len(merged)
    BY <2>2, LenProperties
  <2> QED
    BY <2>2, <2>3 DEF IsSorting
<1> HIDE DEF merged
<1>15. Len(imported) \in Nat /\ DOMAIN imported = 1 .. Len(imported) /\ DOMAIN list = 1 .. Len(imported)
  BY <1>2, <1>11, LenProperties DEF IsImport
<1>16. /\ brought \in Seq(FilePacket) /\ IsBeginning(brought, imported)
       /\ \A n \in Len(brought) + 1 .. Len(imported) :
            /\ Len(filePackets') = limit'
            /\ \A i \in DOMAIN filePackets' : filePackets'[i].t >= imported[n].t
  <2>1. CASE Len(merged) <= limit
    <3>1. brought = imported
      BY <1>5, <1>8, <1>13, <2>1 DEF Files!Retained
    <3> QED
      BY <1>11, <1>15, <3>1 DEF IsBeginning
  <2>2. CASE ~ (Len(merged) <= limit)
    <3>1. filePackets' = SubSeq(merged, 1, limit) /\ limit <= Len(merged) /\ limit \in 0 .. Len(merged)
      BY <1>1, <1>5, <1>14, <2>2 DEF Files!Retained
    <3>2. /\ brought \in Seq(FilePacket) /\ IsBeginning(brought, imported)
          /\ \A n \in Len(brought) + 1 .. Len(imported) : \E j \in limit + 1 .. Len(merged) : imported[n] = merged[j]
      <4>3. merged \in Seq(FilePacket) /\ limit \in Nat /\ limit <= Len(merged)
        BY <1>1, <1>14, <3>1
      <4>1. LET part == PickedOut(SubSeq(merged, 1, limit), new)
                full == PickedOut(merged, new)
            IN  part \in Seq(FilePacket) /\ IsBeginning(part, full) /\ RestIsBehind(part, full, merged, limit)
        BY ONLY <4>3, PickedOutOfCut
      <4>2. brought = PickedOut(SubSeq(merged, 1, limit), new)
        BY <1>8, <3>1
      <4> QED
        BY ONLY <1>13, <4>1, <4>2 DEF RestIsBehind
    <3>3. /\ filePackets' \in Seq(FilePacket) /\ Len(filePackets') = limit
          /\ \A i \in 1 .. limit : filePackets'[i] = merged[i]
      BY <1>14, <3>1, SubSeqProperties
    <3>4. DOMAIN filePackets' = 1 .. limit
      BY <3>3, LenProperties
    <3>5. \A i \in 1 .. limit, j \in limit + 1 .. Len(merged) : filePackets'[i].t >= merged[j].t
      BY <1>1, <1>14, <3>1, <3>3
    <3> QED
      BY <1>5, <3>2, <3>3, <3>4, <3>5
  <2> QED
    BY <2>1, <2>2
<1>17. Len(brought) \in Nat /\ DOMAIN brought = 1 .. Len(brought) /\ Len(brought) <= Len(imported)
  BY <1>16, LenProperties DEF IsBeginning
<1>18. DOMAIN brought \subseteq DOMAIN list /\ missing = Len(brought) + 1 .. Len(imported)
  BY <1>15, <1>17
<1>19. ASSUME NEW n \in DOMAIN brought
       PROVE  /\ brought[n].t = list[n].t /\ brought[n].secret = list[n].secret /\ brought[n].note = list[n].note
              /\ \A m \in DOMAIN brought : list[n].source = list[m].id <=> brought[n].source = brought[m].id
  <2>1. \A m \in DOMAIN brought : brought[m] = imported[m] /\ m \in DOMAIN list
    BY <1>16, <1>18 DEF IsBeginning
  <2> QED
    BY <1>2, <2>1 DEF IsImport
<1>20. ASSUME NEW n \in missing
       PROVE  Len(filePackets') = limit' /\ \A p \in Files!ToSet(filePackets') : p.t >= list[n].t
  <2>1. imported[n].t = list[n].t
    BY <1>2, <1>15, <1>18 DEF IsImport
  <2> QED
    BY <1>16, <1>18, <2>1 DEF Files!ToSet
<1>21. missing # {} => Len(filePackets') = limit
  BY <1>5, <1>20
<1> HIDE DEF missing
<1> QED
  BY <1>18, <1>19, <1>20, <1>21 DEF Files!RestoredFrom, brought, list, missing

LEMMA RestoredStep == FilesInv /\ [Files!Next]_fileVars => Files!TranscriptRestored
<1> SUFFICES ASSUME FilesInv, [Files!Next]_fileVars, Len(sessions') > Len(sessions)
             PROVE  \E file \in Files!ToSet(disk) : Files!RestoredFrom(file)
  BY DEF Files!TranscriptRestored
<1>1. Len(sessions) \in Nat /\ Files!LoadEnds
  <2>1. Len(sessions) \in Nat
    BY LenProperties DEF FilesInv, StoreInv
  <2> QED
    BY <2>1, OnlyImportsAddSessions
<1>2. (\E file \in Files!ToSet(disk) : Files!ImportSocketLensFile(file)) \/ UNCHANGED sessions
  BY <1>1 DEF Files!LoadEnds, Files!storeVars
<1>3. PICK file \in Files!ToSet(disk) : Files!ImportSocketLensFile(file)
  BY <1>1, <1>2
<1> QED
  BY <1>3, OnDisk, ImportRestores

(***************************************************************************)
(* What loading a file puts on the timeline is a beginning of its sorted   *)
(* packets with what they hold and with exactly the links between them     *)
(* that were in the file; one is missing only if the timeline is at its    *)
(* retention limit and holds nothing older: whatever the timeline held and *)
(* however often files are loaded (session-file.ts, importSocketLensFile;  *)
(* packet-store.ts, addPackets and retainNewestPackets).                   *)
(***************************************************************************)
THEOREM TranscriptsCorrect == MCInit /\ [][MCNext]_vars => LoadRestoresTranscript
<1>1. MCInit => FilesInv
  BY FilesInitHolds DEF MCInit
<1>2. [MCNext]_vars => [Files!Next]_fileVars
  BY DEF MCNext, Others, vars
<1>3. FilesInv /\ [MCNext]_vars => FilesInv'
  BY <1>2, FilesStep
<1>4. FilesInv /\ [MCNext]_vars => [IF subject = "files" THEN Files!TranscriptRestored ELSE TRUE]_vars
  BY <1>2, RestoredStep
<1> QED
  BY <1>1, <1>3, <1>4, PTL DEF LoadRestoresTranscript

----------------------------------------------------------------------------
(* The packets of a prompt (AiContext): any packets, any limits that fit   *)
(* into each other                                                         *)

CONSTANTS Before, After, FlowLimit, PromptLimit
Context == INSTANCE AiContext

(***************************************************************************)
(* The code's limits are 4, 4, 40 and 40.                                  *)
(***************************************************************************)
LimitsFit ==
  /\ {Before, After, FlowLimit, PromptLimit} \subseteq Nat
  /\ Before < PromptLimit /\ FlowLimit <= PromptLimit

NewestComeFirst(list) == \A i, j \in DOMAIN list : i < j => list[i].time >= list[j].time

OldestComeFirst(list) == \A i, j \in DOMAIN list : i < j => list[i].time <= list[j].time

Held(list) == {list[i] : i \in DOMAIN list}

LEMMA ContextKept == \A list, kept : Context!Kept(list, kept) = Kept(list, kept)
<1>1. \A S : Context!Cardinality(S) = Cardinality(S)
  BY DEF Context!Cardinality, Cardinality
<1>2. \A S, R : Context!Places(S, R) = Places(S, R)
  BY <1>1 DEF Context!Places, Places
<1>3. \A S, R : Context!Arranged(S, R) = Arranged(S, R)
  BY <1>1, <1>2 DEF Context!Arranged, Arranged
<1> QED
  BY <1>1, <1>3 DEF Context!Kept, Kept

LEMMA ContextArranged == \A S, R : Context!Arranged(S, R) = Arranged(S, R)
<1>1. \A S : Context!Cardinality(S) = Cardinality(S)
  BY DEF Context!Cardinality, Cardinality
<1>2. \A S, R : Context!Places(S, R) = Places(S, R)
  BY <1>1 DEF Context!Places, Places
<1> QED
  BY <1>1, <1>2 DEF Context!Arranged, Arranged

LEMMA ContextHeld == \A list : Context!Range(list) = Held(list)
BY DEF Context!Range, Held

(***************************************************************************)
(* The packets that are picked from a list.                                *)
(***************************************************************************)
LEMMA PickedFacts ==
  ASSUME NEW S, NEW list \in Seq(S), NEW kept, kept \subseteq DOMAIN list
  PROVE  /\ Context!Kept(list, kept) \in Seq(S)
         /\ Held(Context!Kept(list, kept)) = {list[i] : i \in kept}
<1> DEFINE left == Kept(list, kept)
<1>1. left \in Seq(S) /\ IsFiltering(left, list, kept)
  BY KeptFacts
<1> HIDE DEF left
<1>2. DOMAIN left = 1 .. Len(left)
  BY <1>1, LenProperties
<1>3. PICK o \in [1 .. Len(left) -> kept] :
        /\ \A k \in 1 .. Len(left) : left[k] = list[o[k]]
        /\ \A i \in kept : \E k \in 1 .. Len(left) : o[k] = i
  BY <1>1 DEF IsFiltering
<1>4. \A k \in DOMAIN left : o[k] \in kept /\ left[k] = list[o[k]]
  BY <1>2, <1>3
<1>5. \A i \in kept : \E k \in DOMAIN left : list[i] = left[k]
  BY <1>2, <1>3
<1>6. Held(left) = {list[i] : i \in kept}
  BY <1>4, <1>5 DEF Held
<1> QED
  BY <1>1, <1>6, ContextKept DEF left

LEMMA OldestFirstFacts ==
  ASSUME NEW S, \A p \in S : p.time \in Int, NEW list \in Seq(S)
  PROVE  LET sorted == Context!OldestFirst(list)
         IN  /\ sorted \in Seq(S) /\ Held(sorted) = Held(list)
             /\ OldestComeFirst(sorted)
<1> DEFINE N == Len(list)
           R == Context!OlderFirst(list)
           o == Arranged(DOMAIN list, R)
           sorted == Context!OldestFirst(list)
<1>1. N \in Nat /\ DOMAIN list = 1 .. N
  BY LenProperties
<1>2. \A i \in 1 .. N : list[i] \in S /\ list[i].time \in Int
  BY <1>1, ElementOfSeq
<1>3. sorted = [k \in DOMAIN list |-> list[o[k]]]
  BY ContextArranged DEF Context!OldestFirst
<1> HIDE DEF sorted, N
<1>4. \A i, j : <<i, j>> \in R <=>
        /\ i \in 1 .. N /\ j \in 1 .. N
        /\ list[i].time < list[j].time \/ (list[i].time = list[j].time /\ i < j)
  BY <1>1 DEF Context!OlderFirst
<1>5. o = Arranged(1 .. N, R)
  BY <1>1
<1> HIDE DEF R, o
<1>6. StrictOrder(1 .. N, R)
  <2>1. \A i \in 1 .. N : <<i, i>> \notin R
    BY <1>1, <1>2, <1>4
  <2>2. ASSUME NEW i \in 1 .. N, NEW j \in 1 .. N, NEW k \in 1 .. N, <<i, j>> \in R, <<j, k>> \in R
        PROVE  <<i, k>> \in R
    BY <1>1, <1>2, <1>4, <2>2
  <2>3. ASSUME NEW i \in 1 .. N, NEW j \in 1 .. N, i # j
        PROVE  <<i, j>> \in R \/ <<j, i>> \in R
    BY <1>1, <1>2, <1>4, <2>3
  <2> QED
    BY <2>1, <2>2, <2>3 DEF StrictOrder
<1>7. /\ o \in [1 .. N -> 1 .. N]
      /\ \A k, l \in 1 .. N : k < l => <<o[k], o[l]>> \in R
      /\ \A i \in 1 .. N : \E k \in 1 .. N : o[k] = i
  <2>1. IsFiniteSet(1 .. N) /\ Cardinality(1 .. N) = N
    BY <1>1, FS_Interval
  <2> QED
    BY <1>5, <1>6, <2>1, ArrangedFacts, SMTT(40)
<1>8. sorted \in [1 .. N -> S] /\ \A k \in 1 .. N : sorted[k] = list[o[k]] /\ o[k] \in 1 .. N
  BY <1>1, <1>2, <1>3, <1>7
<1>9. sorted \in Seq(S) /\ DOMAIN sorted = 1 .. N
  <2>1. sorted \in [1 .. N -> S]
    BY <1>8
  <2>2. [1 .. N -> S] \subseteq Seq(S)
    BY <1>1, SeqDef
  <2> QED
    BY <2>1, <2>2
<1>10. \A i \in 1 .. N : \E k \in 1 .. N : sorted[k] = list[i]
  <2>1. ASSUME NEW i \in 1 .. N PROVE \E k \in 1 .. N : sorted[k] = list[i]
    <3>1. PICK k \in 1 .. N : o[k] = i
      BY <1>7
    <3>2. sorted[k] = list[o[k]]
      BY <1>8
    <3> QED
      BY <3>1, <3>2
  <2> QED
    BY <2>1
<1>11. Held(sorted) = Held(list)
  <2>1. Held(sorted) \subseteq Held(list)
    BY <1>1, <1>8, <1>9 DEF Held
  <2>2. Held(list) \subseteq Held(sorted)
    BY <1>1, <1>9, <1>10 DEF Held
  <2> QED
    BY <2>1, <2>2
<1>12. ASSUME NEW k \in 1 .. N, NEW l \in 1 .. N, k < l PROVE sorted[k].time <= sorted[l].time
  <2>1. list[o[k]].time < list[o[l]].time \/ list[o[k]].time = list[o[l]].time
    BY <1>4, <1>7, <1>12
  <2>2. list[o[k]].time \in Int /\ list[o[l]].time \in Int
    BY <1>2, <1>8
  <2>3. list[o[k]].time <= list[o[l]].time
    BY <2>1, <2>2
  <2> QED
    BY <1>8, <2>3
<1>13. OldestComeFirst(sorted)
  BY <1>9, <1>12 DEF OldestComeFirst
<1> QED
  BY <1>9, <1>11, <1>13 DEF sorted

LEMMA LeastPlace ==
  ASSUME NEW S, NEW list \in Seq(S), NEW of, of \subseteq DOMAIN list, of # {}
  PROVE  \E m \in of : \A j \in of : m <= j
<1> DEFINE left == Kept(list, of)
<1>1. left \in Seq(S) /\ IsFiltering(left, list, of)
  BY KeptFacts
<1> HIDE DEF left
<1>2. PICK o \in [1 .. Len(left) -> of] :
        /\ \A k, l \in 1 .. Len(left) : k < l => o[k] < o[l]
        /\ \A i \in of : \E k \in 1 .. Len(left) : o[k] = i
  BY <1>1 DEF IsFiltering
<1>3. Len(left) \in Nat /\ Len(list) \in Nat /\ of \subseteq 1 .. Len(list)
  BY <1>1, LenProperties
<1>4. 1 \in 1 .. Len(left)
  BY <1>2, <1>3
<1>5. \A i \in of : i \in Nat
  BY <1>3
<1>6. o[1] \in of /\ o[1] \in Nat
  BY <1>2, <1>4, <1>5
<1>7. ASSUME NEW j \in of PROVE o[1] <= j
  <2>1. PICK k \in 1 .. Len(left) : o[k] = j
    BY <1>2
  <2>2. CASE k = 1
    BY <1>6, <2>1, <2>2
  <2>3. CASE k # 1
    <3>1. 1 < k
      BY <1>3, <2>3
    <3>2. o[1] < o[k] /\ j \in Nat
      BY <1>2, <1>3, <1>4, <3>1
    <3> QED
      BY <1>6, <2>1, <3>2
  <2> QED
    BY <2>2, <2>3
<1> QED
  BY <1>6, <1>7

LEMMA ContextMin ==
  ASSUME NEW S, NEW list \in Seq(S), NEW of, of \subseteq DOMAIN list, of # {}
  PROVE  Context!Min(of) \in of
BY LeastPlace DEF Context!Min

(***************************************************************************)
(* The packets between two places of a list.                               *)
(***************************************************************************)
LEMMA BetweenFacts ==
  ASSUME NEW S, NEW s \in Seq(S), NEW a \in Nat \ {0}, NEW b \in Nat, b <= Len(s)
  PROVE  LET w == SubSeq(s, a, b)
         IN  /\ w \in Seq(S)
             /\ Len(w) = IF a <= b THEN b - a + 1 ELSE 0
             /\ \A i \in 1 .. Len(w) : w[i] = s[a + i - 1] /\ a + i - 1 \in a .. b
             /\ \A k \in a .. b : k - a + 1 \in 1 .. Len(w) /\ w[k - a + 1] = s[k]
             /\ Held(w) = {s[k] : k \in a .. b}
<1> DEFINE w == SubSeq(s, a, b)
           n == IF a <= b THEN b - a + 1 ELSE 0
<1>1. Len(s) \in Nat /\ DOMAIN s = 1 .. Len(s) /\ n \in Nat
  BY LenProperties
<1>2. w \in Seq(S) /\ Len(w) = n /\ \A i \in 1 .. n : w[i] = s[a + i - 1]
  <2>1. CASE a <= b
    BY <1>1, <2>1, SubSeqProperties
  <2>2. CASE ~(a <= b)
    <3>1. w = << >>
      BY <1>1, <2>2, SubSeqProperties
    <3> QED
      BY <2>2, <3>1
  <2> QED
    BY <2>1, <2>2
<1> HIDE DEF w
<1>3. \A i \in 1 .. n : a + i - 1 \in a .. b
  BY <1>1
<1>4. \A k \in a .. b : k - a + 1 \in 1 .. n /\ a + (k - a + 1) - 1 = k
  BY <1>1
<1>5. \A k \in a .. b : w[k - a + 1] = s[k]
  <2>1. ASSUME NEW k \in a .. b PROVE w[k - a + 1] = s[k]
    <3>1. w[k - a + 1] = s[a + (k - a + 1) - 1]
      BY <1>2, <1>4
    <3> QED
      BY <1>4, <3>1
  <2> QED
    BY <2>1
<1>6. DOMAIN w = 1 .. n
  BY <1>2, LenProperties
<1>7. Held(w) = {s[k] : k \in a .. b}
  <2>1. ASSUME NEW i \in DOMAIN w PROVE w[i] \in {s[k] : k \in a .. b}
    BY <1>2, <1>3, <1>6
  <2>2. ASSUME NEW k \in a .. b PROVE s[k] \in Held(w)
    <3>1. k - a + 1 \in DOMAIN w /\ w[k - a + 1] = s[k]
      BY <1>4, <1>5, <1>6
    <3> QED
      BY <3>1 DEF Held
  <2> QED
    BY <2>1, <2>2 DEF Held
<1> HIDE DEF n
<1> QED
  BY <1>2, <1>3, <1>4, <1>5, <1>7 DEF w, n

LEMMA FirstOfFacts ==
  ASSUME NEW S, NEW list \in Seq(S), NEW n \in Nat
  PROVE  LET m == IF Len(list) > n THEN n ELSE Len(list)
             w == Context!FirstOf(list, n)
         IN  /\ m \in Nat /\ m <= Len(list) /\ m <= n /\ (Len(list) <= n => m = Len(list))
             /\ w \in Seq(S) /\ Len(w) = m /\ (\A k \in 1 .. m : w[k] = list[k])
             /\ Held(w) = {list[k] : k \in 1 .. m}
<1> DEFINE m == IF Len(list) > n THEN n ELSE Len(list)
           w == SubSeq(list, 1, m)
<1>1. Len(list) \in Nat
  BY LenProperties
<1>2. m \in Nat /\ m <= Len(list) /\ m <= n /\ (Len(list) <= n => m = Len(list))
  BY <1>1
<1>3. Context!FirstOf(list, n) = w
  BY DEF Context!FirstOf
<1> HIDE DEF m
<1>4. /\ w \in Seq(S)
      /\ Len(w) = IF 1 <= m THEN m - 1 + 1 ELSE 0
      /\ \A i \in 1 .. Len(w) : w[i] = list[1 + i - 1]
      /\ Held(w) = {list[k] : k \in 1 .. m}
  BY <1>2, BetweenFacts
<1> HIDE DEF w
<1>5. Len(w) = m
  BY <1>2, <1>4
<1>6. \A k \in 1 .. m : w[k] = list[k]
  BY <1>2, <1>4, <1>5
<1> QED
  BY <1>2, <1>3, <1>4, <1>5, <1>6 DEF m

LEMMA AllOfThem ==
  ASSUME NEW S, NEW list \in Seq(S), NEW n \in Nat, Len(list) <= n
  PROVE  Held(Context!FirstOf(list, n)) = Held(list)
<1> DEFINE m == IF Len(list) > n THEN n ELSE Len(list)
           w == Context!FirstOf(list, n)
<1>1. m \in Nat /\ Len(list) \in Nat /\ DOMAIN list = 1 .. Len(list) /\ Held(w) = {list[k] : k \in 1 .. m}
  BY FirstOfFacts, LenProperties
<1>2. m = Len(list)
  BY <1>1
<1> HIDE DEF m, w
<1> QED
  BY <1>1, <1>2 DEF Held, w

LEMMA EnabledFacts ==
  ASSUME NEW list, NEW packet PROVE Context!EnabledMeansAccepted(list, packet)
<1> SUFFICES ASSUME NEW action \in Context!Actions, NEW s \in Context!Settings,
                    Context!ButtonEnabled(action, packet, list, s, FALSE)
             PROVE  Context!RunsAction(action, packet, list, s)
  BY DEF Context!EnabledMeansAccepted
<1> DEFINE input == Context!CreateAiActionInput(action, packet, list)
<1>1. /\ s.provider # "disabled" /\ Context!ValidateAiProviderConfiguration(s)
      /\ action \in Context!PacketActions => packet # Context!None
      /\ input.packets # <<>>
  BY DEF Context!ButtonEnabled, Context!ProviderConfigured
<1>2. action \in Context!PacketActions => input.packet = packet
  BY DEF Context!CreateAiActionInput
<1> HIDE DEF input
<1>3. Context!ValidateAiActionAvailability(action, s, input)
  BY <1>1, <1>2 DEF Context!ValidateAiActionAvailability
<1> QED
  BY <1>1, <1>3 DEF Context!RunsAction, input

(***************************************************************************)
(* The packet in hand is the one of its id in the list, when there is one. *)
(***************************************************************************)
ItsPacket(list, packet) ==
  \A i \in DOMAIN list : list[i].id = packet.id => list[i] = packet

TimesAscend(list) == \A i \in 1 .. Len(list) - 1 : list[i].time <= list[i + 1].time

LEMMA SequenceFacts ==
  ASSUME LimitsFit, NEW S, \A p \in S : p.time \in Int, NEW list \in Seq(S),
         NEW packet, packet # Context!None, ItsPacket(list, packet)
  PROVE  LET prompt == Context!FirstOf(Context!GetSequencePackets(packet, list), PromptLimit)
         IN  /\ packet \in Held(prompt)
             /\ \A p \in Held(prompt) : p.session = packet.session
             /\ TimesAscend(prompt)
<1> DEFINE kept == {i \in DOMAIN list : list[i].session = packet.session}
           picked == Context!Kept(list, kept)
           sorted == Context!OldestFirst(picked)
           found == {i \in DOMAIN sorted : sorted[i].id = packet.id}
           sequence == Context!GetSequencePackets(packet, list)
           prompt == Context!FirstOf(sequence, PromptLimit)
<1>1. Before \in Nat /\ After \in Nat /\ PromptLimit \in Nat /\ Before < PromptLimit
  BY DEF LimitsFit
<1>2. picked \in Seq(S) /\ Held(picked) = {list[i] : i \in kept}
  <2> HIDE DEF kept, picked
  <2>1. kept \subseteq DOMAIN list
    BY DEF kept
  <2> QED
    BY <2>1, PickedFacts DEF picked
<1>3. \A p \in Held(picked) : p.session = packet.session
  BY <1>2
<1>4. \A p \in Held(picked) : p.id = packet.id => p = packet
  BY <1>2 DEF ItsPacket
<1>5. sequence = IF found = {} THEN <<packet>> ELSE Context!WindowAround(sorted, Context!Min(found))
  BY DEF Context!GetSequencePackets, Context!SortPacketsForSession
<1> HIDE DEF kept, picked, sequence
<1>6. sorted \in Seq(S) /\ Held(sorted) = Held(picked) /\ OldestComeFirst(sorted)
  BY <1>2, OldestFirstFacts
<1> HIDE DEF sorted
<1>7. CASE found = {}
  <2>1. sequence = <<packet>>
    BY <1>5, <1>7
  <2>2. sequence \in Seq({packet}) /\ Len(sequence) = 1 /\ sequence[1] = packet
    BY <2>1
  <2> DEFINE m == IF Len(sequence) > PromptLimit THEN PromptLimit ELSE Len(sequence)
  <2>3. Len(prompt) = m /\ Held(prompt) = {sequence[k] : k \in 1 .. m}
    BY <1>1, <2>2, FirstOfFacts
  <2>4. m = 1
    BY <1>1, <2>2
  <2> HIDE DEF m, prompt
  <2>5. Held(prompt) = {packet}
    BY <2>2, <2>3, <2>4
  <2>6. TimesAscend(prompt)
    BY <2>3, <2>4 DEF TimesAscend
  <2> QED
    BY <2>5, <2>6 DEF prompt, sequence
<1>8. CASE found # {}
  <2> DEFINE f == Context!Min(found)
             a == IF f > Before THEN f - Before ELSE 1
             b == IF f + After < Len(sorted) THEN f + After ELSE Len(sorted)
  <2>1. Len(sorted) \in Nat /\ DOMAIN sorted = 1 .. Len(sorted)
    BY <1>6, LenProperties
  <2>2. f \in 1 .. Len(sorted) /\ sorted[f].id = packet.id
    <3>1. found \subseteq DOMAIN sorted
      OBVIOUS
    <3>2. f \in found
      BY <1>6, <1>8, <3>1, ContextMin
    <3> QED
      BY <2>1, <3>2
  <2>3. sequence = SubSeq(sorted, a, b)
    BY <1>5, <1>8 DEF Context!WindowAround
  <2> HIDE DEF found, f
  <2>4. sorted[f] = packet
    <3>1. sorted[f] \in Held(sorted)
      BY <2>1, <2>2 DEF Held
    <3> QED
      BY <1>4, <1>6, <2>2, <3>1
  <2>5. /\ a \in Nat \ {0} /\ b \in Nat /\ b <= Len(sorted) /\ f \in a .. b
        /\ f - a + 1 <= PromptLimit
    BY <1>1, <2>1, <2>2
  <2> HIDE DEF a, b
  <2>6. /\ sequence \in Seq(S)
        /\ Len(sequence) = IF a <= b THEN b - a + 1 ELSE 0
        /\ \A i \in 1 .. Len(sequence) : sequence[i] = sorted[a + i - 1] /\ a + i - 1 \in a .. b
        /\ \A k \in a .. b : k - a + 1 \in 1 .. Len(sequence) /\ sequence[k - a + 1] = sorted[k]
    <3>1. sorted \in Seq(S) /\ a \in Nat \ {0} /\ b \in Nat /\ b <= Len(sorted)
      BY <1>6, <2>5
    <3> QED
      BY ONLY <2>3, <3>1, BetweenFacts
  <2> DEFINE m == IF Len(sequence) > PromptLimit THEN PromptLimit ELSE Len(sequence)
  <2>7. /\ m \in Nat /\ m <= Len(sequence) /\ prompt \in Seq(S) /\ Len(prompt) = m
        /\ \A k \in 1 .. m : prompt[k] = sequence[k]
        /\ Held(prompt) = {sequence[k] : k \in 1 .. m}
    BY <1>1, <2>6, FirstOfFacts
  <2>8. Len(sequence) \in Nat /\ (m = PromptLimit \/ m = Len(sequence))
    BY <2>6, LenProperties
  <2> HIDE DEF prompt, m
  <2>9. packet \in Held(prompt)
    <3>1. f - a + 1 \in 1 .. Len(sequence) /\ sequence[f - a + 1] = packet
      BY <2>4, <2>5, <2>6
    <3>2. f - a + 1 \in 1 .. m
      BY <1>1, <2>5, <2>7, <2>8, <3>1
    <3> QED
      BY <2>7, <3>1, <3>2
  <2>10. \A k \in 1 .. m : /\ prompt[k] = sorted[a + k - 1] /\ sequence[k] = sorted[a + k - 1]
                           /\ a + k - 1 \in 1 .. Len(sorted)
    BY <2>1, <2>5, <2>6, <2>7, <2>8
  <2>11. \A p \in Held(prompt) : p.session = packet.session
    <3>1. ASSUME NEW k \in 1 .. m PROVE sequence[k] \in Held(sorted)
      BY <2>1, <2>10 DEF Held
    <3> QED
      BY <1>3, <1>6, <2>7, <3>1
  <2>12. TimesAscend(prompt)
    <3>1. ASSUME NEW i \in 1 .. m - 1 PROVE prompt[i].time <= prompt[i + 1].time
      <4>1. i \in 1 .. m /\ i + 1 \in 1 .. m
        BY <2>7
      <4>2. /\ prompt[i] = sorted[a + i - 1] /\ a + i - 1 \in 1 .. Len(sorted)
            /\ prompt[i + 1] = sorted[a + (i + 1) - 1] /\ a + (i + 1) - 1 \in 1 .. Len(sorted)
        BY <2>10, <4>1
      <4>3. a + i - 1 < a + (i + 1) - 1
        BY <2>5, <4>1
      <4> QED
        BY <1>6, <2>1, <4>2, <4>3 DEF OldestComeFirst
    <3> QED
      BY <2>7, <3>1 DEF TimesAscend
  <2> QED
    BY <2>9, <2>11, <2>12 DEF prompt, sequence
<1> HIDE DEF prompt, found
<1> QED
  BY <1>7, <1>8 DEF prompt, sequence

LEMMA SummaryFacts ==
  ASSUME LimitsFit, NEW S, NEW list \in Seq(S), NewestComeFirst(list)
  PROVE  LET prompt == Context!FirstOf(list, PromptLimit)
         IN  \A p \in Held(prompt), q \in Held(list) \ Held(prompt) : q.time <= p.time
<1> DEFINE m == IF Len(list) > PromptLimit THEN PromptLimit ELSE Len(list)
           prompt == Context!FirstOf(list, PromptLimit)
<1>1. m \in Nat /\ m <= Len(list) /\ Held(prompt) = {list[k] : k \in 1 .. m}
  BY FirstOfFacts DEF LimitsFit
<1>2. Len(list) \in Nat /\ DOMAIN list = 1 .. Len(list)
  BY LenProperties
<1> HIDE DEF m, prompt
<1>3. ASSUME NEW p \in Held(prompt), NEW q \in Held(list) \ Held(prompt) PROVE p.time >= q.time
  <2>1. PICK k \in 1 .. m : p = list[k]
    BY <1>1
  <2>2. PICK j \in DOMAIN list : q = list[j]
    BY DEF Held
  <2>3. k < j /\ k \in DOMAIN list
    BY <1>1, <1>2, <1>3, <2>1, <2>2
  <2> QED
    BY <2>1, <2>2, <2>3 DEF NewestComeFirst
<1> QED
  BY <1>3 DEF prompt

LEMMA FlowFacts ==
  ASSUME LimitsFit, NEW S, \A p \in S : p.time \in Int, NEW list \in Seq(S)
  PROVE  LET prompt == Context!FirstOf(Context!GetAuthReconnectPackets(list), PromptLimit)
         IN  \A p \in Held(prompt), q \in Held(list) \ Held(prompt) : q.flow => q.time <= p.time
<1> DEFINE kept == {i \in DOMAIN list : list[i].flow}
           picked == Context!Kept(list, kept)
           sorted == Context!OldestFirst(picked)
           d == 1 + (IF Len(sorted) > FlowLimit THEN Len(sorted) - FlowLimit ELSE 0)
           flow == Context!GetAuthReconnectPackets(list)
           prompt == Context!FirstOf(flow, PromptLimit)
<1>1. FlowLimit \in Nat /\ PromptLimit \in Nat /\ FlowLimit <= PromptLimit
  BY DEF LimitsFit
<1>2. picked \in Seq(S) /\ Held(picked) = {list[i] : i \in kept}
  <2> HIDE DEF kept, picked
  <2>1. kept \subseteq DOMAIN list
    BY DEF kept
  <2> QED
    BY <2>1, PickedFacts DEF picked
<1>3. \A q \in Held(list) : q.flow => q \in Held(picked)
  BY <1>2 DEF Held
<1>4. flow = SubSeq(sorted, d, Len(sorted))
  BY DEF Context!GetAuthReconnectPackets, Context!LastOf
<1> HIDE DEF kept, picked, flow
<1>5. sorted \in Seq(S) /\ Held(sorted) = Held(picked) /\ OldestComeFirst(sorted)
  BY <1>2, OldestFirstFacts
<1> HIDE DEF sorted
<1>6. Len(sorted) \in Nat /\ DOMAIN sorted = 1 .. Len(sorted)
  BY <1>5, LenProperties
<1>7. d \in Nat \ {0} /\ Len(sorted) - d + 1 <= FlowLimit
  BY <1>1, <1>6
<1> HIDE DEF d
<1>8. /\ flow \in Seq(S)
      /\ Len(flow) = IF d <= Len(sorted) THEN Len(sorted) - d + 1 ELSE 0
      /\ Held(flow) = {sorted[k] : k \in d .. Len(sorted)}
  <2> DEFINE n == Len(sorted)
  <2>1. sorted \in Seq(S) /\ d \in Nat \ {0} /\ n \in Nat /\ n <= Len(sorted)
    BY <1>5, <1>6, <1>7
  <2>2. flow = SubSeq(sorted, d, n)
    BY <1>4
  <2> HIDE DEF n
  <2>3. /\ flow \in Seq(S)
        /\ Len(flow) = IF d <= n THEN n - d + 1 ELSE 0
        /\ Held(flow) = {sorted[k] : k \in d .. n}
    BY ONLY <2>1, <2>2, BetweenFacts
  <2> QED
    BY <2>3 DEF n
<1>9. Len(flow) \in Nat /\ DOMAIN flow = 1 .. Len(flow) /\ Len(flow) <= PromptLimit
  BY <1>1, <1>6, <1>7, <1>8, LenProperties
<1>10. Held(prompt) = Held(flow)
  BY <1>1, <1>8, <1>9, AllOfThem
<1> HIDE DEF prompt
<1>11. ASSUME NEW p \in Held(prompt), NEW q \in Held(list) \ Held(prompt), q.flow
       PROVE  q.time <= p.time
  <2>1. PICK k \in d .. Len(sorted) : p = sorted[k]
    BY <1>8, <1>10
  <2>2. PICK j \in DOMAIN sorted : q = sorted[j]
    BY <1>3, <1>5, <1>11 DEF Held
  <2>3. j < k /\ k \in DOMAIN sorted
    BY <1>6, <1>7, <1>8, <1>10, <1>11, <2>1, <2>2
  <2> QED
    BY <1>5, <2>1, <2>2, <2>3 DEF OldestComeFirst
<1> QED
  BY <1>11 DEF prompt, flow

(***************************************************************************)
(* Whatever packets the session has, whichever of them is selected and     *)
(* whatever the limits are, as long as they fit into each other: a button  *)
(* that can be pressed runs its action (handleRunAction refuses nothing    *)
(* that getActionDisabledReason lets through), the prompt of a sequence    *)
(* has the selected packet among packets of its session in the order of    *)
(* their times, and the other two prompts leave out none that is newer     *)
(* than one they have.                                                     *)
(***************************************************************************)
THEOREM ContextCorrect ==
  ASSUME LimitsFit, NEW S, \A p \in S : p.time \in Int,
         NEW list \in Seq(S), NewestComeFirst(list),
         NEW packet, packet # Context!None => ItsPacket(list, packet)
  PROVE  Context!ContextLaws(list, packet)
<1> DEFINE sequence == Context!BuildUserPrompt("explain-sequence",
                         Context!CreateAiActionInput("explain-sequence", packet, list))
           summary == Context!BuildUserPrompt("summarize-session",
                        Context!CreateAiActionInput("summarize-session", packet, list))
           flow == Context!BuildUserPrompt("explain-auth-reconnect-flow",
                     Context!CreateAiActionInput("explain-auth-reconnect-flow", packet, list))
<1>1. packet # Context!None =>
        sequence = Context!FirstOf(Context!GetSequencePackets(packet, list), PromptLimit)
  BY DEF Context!BuildUserPrompt, Context!CreateAiActionInput, Context!PacketActions
<1>2. summary = Context!FirstOf(list, PromptLimit)
  BY DEF Context!BuildUserPrompt, Context!CreateAiActionInput, Context!PacketActions
<1>3. flow = Context!FirstOf(Context!GetAuthReconnectPackets(list), PromptLimit)
  BY DEF Context!BuildUserPrompt, Context!CreateAiActionInput, Context!PacketActions
<1> HIDE DEF sequence, summary, flow
<1>4. packet # Context!None =>
        /\ packet \in Held(sequence)
        /\ \A p \in Held(sequence) : p.session = packet.session
        /\ TimesAscend(sequence)
  BY <1>1, SequenceFacts
<1>5. \A p \in Held(summary), q \in Held(list) \ Held(summary) : q.time <= p.time
  BY <1>2, SummaryFacts
<1>6. \A p \in Held(flow), q \in Held(list) \ Held(flow) : q.flow => q.time <= p.time
  BY <1>3, FlowFacts
<1>7. Context!PromptIsTheContext(list, packet)
  BY <1>4, <1>5, <1>6, ContextHeld
     DEF Context!PromptIsTheContext, TimesAscend, sequence, summary, flow
<1> QED
  BY <1>7, EnabledFacts DEF Context!ContextLaws

=============================================================================

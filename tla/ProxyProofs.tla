---------------------------- MODULE ProxyProofs ----------------------------
(***************************************************************************)
(* Theorems about Proxy, for any finite set of connections, any targets    *)
(* and any number of runs.                                                 *)
(***************************************************************************)
EXTENDS Proxy, FiniteSetTheorems, TLAPS

(***************************************************************************)
(* Any step a connection's task takes, whoever it waits for, is one of     *)
(* these; none of them touches a run or its listener, and only the count   *)
(* of active connections changes in the runtime.                           *)
(***************************************************************************)
ConnSteps(c) == TaskSteps(c) \/ PeerSteps(c)

LEMMA ConnStepsLeaveRuns ==
  ASSUME NEW c \in Conns, ConnSteps(c)
  PROVE  UNCHANGED <<generation, isRunning, listenUrl, targetUrl, handles, listenerVars, run>>
BY DEF ConnSteps, TaskSteps, PeerSteps, IncrementActive, RegisterSession, AnnounceSession,
       Subscribe, HeardShutdown, CloseSession, DecrementActive, HandshakeDone,
       TargetConnected, ConnectFailed, ForwardingEnds, Advance, Finish, runtimeVars

----------------------------------------------------------------------------
(* Types *)

LEMMA MaxRunsIsNat == MaxRuns \in Nat
BY MaxRunsAssumption

LEMMA TypeInit == Init => TypeOK
<1> SUFFICES ASSUME Init PROVE TypeOK
  OBVIOUS
<1>1. isRunning \in BOOLEAN /\ heard \in [Conns -> BOOLEAN]
  BY DEF Init
<1> QED
  BY <1>1, MaxRunsIsNat DEF Init, TypeOK, NoRun, Phases

LEMMA PhasesDistinct ==
  /\ Subscribed \subseteq Phases
  /\ Registered \subseteq Phases
  /\ Counted \subseteq Phases
  /\ {"idle", "accepted", "done", "counted", "registered", "announced", "handshake",
      "dialing", "forwarding", "finished", "deregistered"} = Phases
BY DEF Subscribed, Registered, Counted, Phases

LEMMA TypeStep == TypeOK /\ [Next]_vars => TypeOK'
<1> SUFFICES ASSUME TypeOK, [Next]_vars PROVE TypeOK'
  OBVIOUS
<1> USE DEF TypeOK
<1>0. CASE UNCHANGED vars
  BY <1>0 DEF vars, runtimeVars, listenerVars, connVars, registryVars
<1>1. ASSUME NEW t \in Targets, Start(t) PROVE TypeOK'
  BY <1>1, MaxRunsAssumption DEF Start, connVars, registryVars, Runs
<1>2. CASE StopTake
  <2>1. isRunning' \in BOOLEAN
    BY <1>2 DEF StopTake
  <2>2. /\ {generation', listenUrl', handles'} \subseteq 0 .. MaxRuns
        /\ targetUrl' \in Targets \cup {NoTarget}
        /\ active' \in Nat
    BY <1>2, MaxRunsIsNat DEF StopTake, NoRun
  <2>3. stopPc' \in [Runs -> {"none", "broadcast", "listener", "abort", "done"}]
    BY <1>2 DEF StopTake
  <2>4. UNCHANGED <<listener, closing, aborting, connVars, registryVars>>
    BY <1>2 DEF StopTake
  <2> QED
    BY <2>1, <2>2, <2>3, <2>4 DEF connVars, registryVars
<1>3. ASSUME NEW g \in Runs, StopSteps(g) PROVE TypeOK'
  <2>1. CASE StopBroadcast(g)
    BY <2>1 DEF StopBroadcast, runtimeVars, registryVars
  <2>2. CASE StopListener(g)
    BY <2>2 DEF StopListener, runtimeVars, connVars, registryVars
  <2>3. CASE StopAbort(g)
    BY <2>3 DEF StopAbort, runtimeVars, connVars, registryVars
  <2> QED  BY <1>3, <2>1, <2>2, <2>3 DEF StopSteps
<1>4. ASSUME NEW g \in Runs, ListenerSteps(g) PROVE TypeOK'
  <2>1. CASE ListenerLeaves(g)
    BY <2>1 DEF ListenerLeaves, runtimeVars, connVars, registryVars
  <2>2. CASE ListenerAborted(g)
    BY <2>2 DEF ListenerAborted, runtimeVars, connVars, registryVars
  <2>3. CASE MarkStopped(g)
    <3>1. isRunning' \in BOOLEAN
      BY <2>3 DEF MarkStopped, ResetRuntime, runtimeVars
    <3>2. /\ {generation', listenUrl', handles'} \subseteq 0 .. MaxRuns
          /\ targetUrl' \in Targets \cup {NoTarget}
          /\ active' \in Nat
      BY <2>3, MaxRunsIsNat DEF MarkStopped, ResetRuntime, runtimeVars, NoRun
    <3>3. listener' \in [Runs -> {"unborn", "listening", "leaving", "ended"}]
      BY <2>3 DEF MarkStopped
    <3>4. UNCHANGED <<stopPc, closing, aborting, connVars, registryVars>>
      BY <2>3 DEF MarkStopped
    <3> QED
      BY <3>1, <3>2, <3>3, <3>4 DEF connVars, registryVars
  <2> QED  BY <1>4, <2>1, <2>2, <2>3 DEF ListenerSteps
<1>5. ASSUME NEW g \in Runs, NEW c \in Conns, Accept(g, c) PROVE TypeOK'
  BY <1>5, PhasesDistinct DEF Accept, runtimeVars, listenerVars, registryVars, Runs
<1>6. ASSUME NEW c \in Conns, TaskSteps(c) PROVE TypeOK'
  <2> USE PhasesDistinct DEF Advance, runtimeVars, listenerVars, registryVars
  <2>1. CASE IncrementActive(c)  BY <2>1 DEF IncrementActive
  <2>2. CASE RegisterSession(c)  BY <2>2 DEF RegisterSession
  <2>3. CASE AnnounceSession(c)  BY <2>3 DEF AnnounceSession
  <2>4. CASE Subscribe(c)        BY <2>4 DEF Subscribe
  <2>5. CASE CloseSession(c)     BY <2>5 DEF CloseSession, SaturatingDec
  <2>6. CASE DecrementActive(c)  BY <2>6 DEF DecrementActive, SaturatingDec
  <2> QED  BY <1>6, <2>1, <2>2, <2>3, <2>4, <2>5, <2>6 DEF TaskSteps
<1>7. ASSUME NEW c \in Conns, PeerSteps(c) PROVE TypeOK'
  <2> USE PhasesDistinct DEF Advance, Finish, runtimeVars, listenerVars, registryVars
  <2>1. CASE HandshakeDone(c)    BY <2>1 DEF HandshakeDone
  <2>2. CASE TargetConnected(c)  BY <2>2 DEF TargetConnected
  <2>3. CASE ConnectFailed(c)    BY <2>3 DEF ConnectFailed, Outcomes
  <2>4. CASE ForwardingEnds(c)   BY <2>4 DEF ForwardingEnds
  <2>5. CASE HeardShutdown(c)    BY <2>5 DEF HeardShutdown, Outcomes
  <2> QED  BY <1>7, <2>1, <2>2, <2>3, <2>4, <2>5 DEF PeerSteps
<1> QED
  BY <1>0, <1>1, <1>2, <1>3, <1>4, <1>5, <1>6, <1>7 DEF Next

(***************************************************************************)
(* Every variable keeps its type; in particular neither counter ever goes  *)
(* below zero.                                                             *)
(***************************************************************************)
THEOREM TypeCorrect == Spec => []TypeOK
BY TypeInit, TypeStep, PTL DEF Spec

----------------------------------------------------------------------------
(* The runs *)

(***************************************************************************)
(* What StatusMatchesListener leaves out and a proof of it needs: which    *)
(* runs have been started and which of them nobody stops, that only a stop *)
(* can end a listener, and whose handles the runtime holds.                *)
(***************************************************************************)
StartedRuns == \A g \in Runs : listener[g] = "unborn" <=> g > generation

UnstoppedRuns ==
  \A g \in Runs : stopPc[g] = "none" <=> g > generation \/ (isRunning /\ g = generation)

OnlyStopsEndListeners ==
  \A g \in Runs :
    g \in closing \/ g \in aborting \/ listener[g] \in {"leaving", "ended"} => stopPc[g] # "none"

HandlesOfTheRun ==
  /\ isRunning => generation \in Runs /\ handles = generation
  /\ ~isRunning => handles = NoRun
  /\ listenUrl = handles

RunsInv == TypeOK /\ StartedRuns /\ UnstoppedRuns /\ OnlyStopsEndListeners /\ HandlesOfTheRun

LEMMA RunsInvInit == Init => RunsInv
<1> SUFFICES ASSUME Init PROVE RunsInv
  OBVIOUS
<1>1. TypeOK
  BY TypeInit
<1> QED
  BY <1>1, MaxRunsIsNat
     DEF Init, RunsInv, StartedRuns, UnstoppedRuns, OnlyStopsEndListeners, HandlesOfTheRun,
         Runs, NoRun

LEMMA RunsInvStep == RunsInv /\ [Next]_vars => RunsInv'
<1> SUFFICES ASSUME RunsInv, [Next]_vars PROVE RunsInv'
  OBVIOUS
<1> USE DEF RunsInv
<1>0. TypeOK'
  BY TypeStep
<1> DEFINE Rest == StartedRuns /\ UnstoppedRuns /\ OnlyStopsEndListeners /\ HandlesOfTheRun
<1> SUFFICES Rest'
  BY <1>0
<1> USE DEF TypeOK, StartedRuns, UnstoppedRuns, OnlyStopsEndListeners, HandlesOfTheRun
<1>1. CASE UNCHANGED vars
  BY <1>1 DEF vars, runtimeVars, listenerVars
<1>2. ASSUME NEW t \in Targets, Start(t) PROVE Rest'
  <2>1. generation + 1 \in Runs
    BY <1>2, MaxRunsIsNat DEF Start, Runs
  <2> QED
    BY <1>2, <2>1, MaxRunsIsNat DEF Start, Runs, NoRun
<1>3. CASE StopTake
  BY <1>3, MaxRunsIsNat DEF StopTake, Runs, NoRun
<1>4. ASSUME NEW g \in Runs, StopSteps(g) PROVE Rest'
  BY <1>4 DEF StopSteps, StopBroadcast, StopListener, StopAbort, runtimeVars
<1>5. ASSUME NEW g \in Runs, ListenerSteps(g) PROVE Rest'
  <2>1. CASE ListenerLeaves(g) \/ ListenerAborted(g)
    BY <1>5, <2>1 DEF ListenerLeaves, ListenerAborted, runtimeVars
  <2>2. CASE MarkStopped(g)
    BY <1>5, <2>2, MaxRunsIsNat DEF MarkStopped, ResetRuntime, runtimeVars, Runs, NoRun
  <2> QED  BY <1>5, <2>1, <2>2 DEF ListenerSteps
<1>6. ASSUME NEW g \in Runs, NEW c \in Conns, Accept(g, c) PROVE Rest'
  BY <1>6 DEF Accept, runtimeVars, listenerVars
<1>7. ASSUME NEW c \in Conns, ConnSteps(c) PROVE Rest'
  BY <1>7, ConnStepsLeaveRuns DEF listenerVars
<1> QED
  BY <1>1, <1>2, <1>3, <1>4, <1>5, <1>6, <1>7 DEF Next, ConnSteps

LEMMA RunsInvCorrect == Spec => []RunsInv
BY RunsInvInit, RunsInvStep, PTL DEF Spec

LEMMA RunsInvGivesStatus == RunsInv => StatusMatchesListener
BY DEF RunsInv, TypeOK, StartedRuns, UnstoppedRuns, OnlyStopsEndListeners,
       StatusMatchesListener, Runs

(***************************************************************************)
(* The reported status and the listeners agree in every interleaving of    *)
(* start(), stop() and the listener tasks' late mark_stopped().            *)
(***************************************************************************)
THEOREM StatusCorrect == Spec => []StatusMatchesListener
BY RunsInvCorrect, RunsInvGivesStatus, PTL

----------------------------------------------------------------------------
(* Refinement of ProxyLifecycle *)

phases == [g \in Runs |-> RunPhase(g)]

(***************************************************************************)
(* A step that leaves the listener tasks, the stops and the address alone  *)
(* is a stutter of the lifecycle.                                          *)
(***************************************************************************)
LEMMA SameListenersStutter ==
  UNCHANGED <<stopPc, listener, listenUrl>> => UNCHANGED Lifecycle!lifecycleVars
BY DEF Lifecycle!lifecycleVars, RunPhase

LEMMA LifecycleInit == Init => Lifecycle!Init
BY DEF Init, Lifecycle!Init, RunPhase, NoRun

LEMMA LifecycleStep ==
  RunsInv /\ RunsInv' /\ [Next]_vars => [Lifecycle!Next]_(Lifecycle!lifecycleVars)
<1> SUFFICES ASSUME RunsInv, RunsInv', [Next]_vars
             PROVE  Lifecycle!Next \/ UNCHANGED Lifecycle!lifecycleVars
  OBVIOUS
<1> USE DEF RunsInv, TypeOK, StartedRuns, UnstoppedRuns, OnlyStopsEndListeners, HandlesOfTheRun
<1>1. CASE UNCHANGED vars
  BY <1>1, SameListenersStutter DEF vars, runtimeVars, listenerVars
<1>2. ASSUME NEW t \in Targets, Start(t) PROVE Lifecycle!Next
  <2> DEFINE g == generation + 1
  <2>1. g \in Runs /\ listenUrl = NoRun /\ listenUrl' = g
    BY <1>2, MaxRunsIsNat DEF Start, Runs
  <2>2. phases[g] = "unused" /\ \A h \in Runs : h < g => phases[h] # "unused"
    BY <2>1, MaxRunsIsNat DEF phases, RunPhase, Runs
  <2>3. phases' = [phases EXCEPT ![g] = "open"]
    BY <1>2, <2>1 DEF Start, phases, RunPhase
  <2> QED
    BY <2>1, <2>2, <2>3 DEF Lifecycle!Next, Lifecycle!Open, phases, NoRun
<1>3. CASE StopTake
  <2>1. generation \in Runs /\ listenUrl = generation /\ listenUrl' = NoRun
    BY <1>3 DEF StopTake
  <2>2. phases[generation] = "open"
    BY <1>3, <2>1 DEF StopTake, phases, RunPhase
  <2>3. phases' = [phases EXCEPT ![generation] = "stopping"]
    <3>1. generation \in Runs /\ UNCHANGED listener /\ stopPc[generation] = "none" /\ listener[generation] \notin {"unborn", "ended"}
      BY <1>3, <2>1, <2>2 DEF StopTake, phases, RunPhase
    <3>2. \A h \in Runs : IF h = generation THEN stopPc'[h] # "none" ELSE stopPc'[h] = stopPc[h]
      BY <1>3, <2>1 DEF StopTake
    <3>3. \A h \in Runs : phases'[h] = IF h = generation THEN "stopping" ELSE phases[h]
      BY <3>1, <3>2 DEF RunPhase, phases
    <3>4. phases' = [h \in Runs |-> phases'[h]] /\ phases = [h \in Runs |-> phases[h]]
      BY DEF phases
    <3> HIDE DEF phases
    <3> QED
      BY <2>1, <3>3, <3>4
  <2> QED
    BY <2>1, <2>2, <2>3 DEF Lifecycle!Next, Lifecycle!Stop, phases, NoRun
<1>4. ASSUME NEW g \in Runs, StopSteps(g) PROVE UNCHANGED Lifecycle!lifecycleVars
  <2>1. /\ UNCHANGED <<listener, listenUrl>>
        /\ \A h \in Runs : stopPc'[h] = "none" <=> stopPc[h] = "none"
    BY <1>4 DEF StopSteps, StopBroadcast, StopListener, StopAbort, runtimeVars
  <2> QED
    BY <2>1 DEF Lifecycle!lifecycleVars, RunPhase
<1>5. ASSUME NEW g \in Runs, ListenerSteps(g)
      PROVE  Lifecycle!Next \/ UNCHANGED Lifecycle!lifecycleVars
  <2>1. CASE ListenerLeaves(g)
    BY <1>5, <2>1 DEF ListenerLeaves, Lifecycle!lifecycleVars, RunPhase, runtimeVars
  <2>2. CASE ListenerAborted(g) \/ MarkStopped(g)
    <3>1. /\ listener[g] \in {"listening", "leaving"}
          /\ listener' = [listener EXCEPT ![g] = "ended"]
          /\ UNCHANGED stopPc
      BY <2>2 DEF ListenerAborted, MarkStopped
    <3>2. stopPc[g] # "none"
      BY <2>2 DEF ListenerAborted, MarkStopped
    <3>3. UNCHANGED listenUrl
      BY <2>2, <3>2 DEF ListenerAborted, MarkStopped, ResetRuntime, runtimeVars, Runs
    <3>4. phases[g] = "stopping"
      BY <3>1, <3>2 DEF phases, RunPhase
    <3>5. \A h \in Runs : phases'[h] = IF h = g THEN "released" ELSE phases[h]
      BY <3>1 DEF phases, RunPhase
    <3>6. phases' = [phases EXCEPT ![g] = "released"]
      BY <3>5 DEF phases
    <3> QED
      BY <3>3, <3>4, <3>6 DEF Lifecycle!Next, Lifecycle!Release, phases
  <2> QED  BY <1>5, <2>1, <2>2 DEF ListenerSteps
<1>6. ASSUME NEW g \in Runs, NEW c \in Conns, Accept(g, c)
      PROVE  UNCHANGED Lifecycle!lifecycleVars
  BY <1>6, SameListenersStutter DEF Accept, runtimeVars, listenerVars
<1>7. ASSUME NEW c \in Conns, ConnSteps(c) PROVE UNCHANGED Lifecycle!lifecycleVars
  BY <1>7, ConnStepsLeaveRuns, SameListenersStutter DEF listenerVars
<1> QED
  BY <1>1, <1>2, <1>3, <1>4, <1>5, <1>6, <1>7 DEF Next, ConnSteps

(***************************************************************************)
(* The backend implements the safety part of the lifecycle: at most one    *)
(* run is open, its address is the one shown, and ending an earlier run    *)
(* never disturbs it.                                                      *)
(***************************************************************************)
THEOREM LifecycleSafe == Spec => Lifecycle!SafeSpec
<1>1. Init => Lifecycle!Init
  BY LifecycleInit
<1>2. RunsInv /\ RunsInv' /\ [Next]_vars => [Lifecycle!Next]_(Lifecycle!lifecycleVars)
  BY LifecycleStep
<1> QED
  BY <1>1, <1>2, RunsInvCorrect, PTL DEF Spec, Lifecycle!SafeSpec

----------------------------------------------------------------------------
(* Counting connections *)

(***************************************************************************)
(* Sets of connections are finite, so adding or removing one changes the   *)
(* cardinality by one.                                                     *)
(***************************************************************************)
LEMMA CardinalityByOne ==
  ASSUME NEW S \in SUBSET Conns, NEW c \in Conns
  PROVE  /\ Cardinality(S) \in Nat
         /\ c \notin S => Cardinality(S \cup {c}) = Cardinality(S) + 1
         /\ c \in S => Cardinality(S) > 0 /\ Cardinality(S \ {c}) = Cardinality(S) - 1
<1>1. IsFiniteSet(S)
  BY ConnsAssumption, FS_Subset
<1>2. Cardinality(S) \in Nat /\ Cardinality(S \ {c}) \in Nat
  BY <1>1, FS_CardinalityType, FS_RemoveElement
<1>3. c \notin S => Cardinality(S \cup {c}) = Cardinality(S) + 1
  BY <1>1, FS_AddElement
<1>4. c \in S => Cardinality(S \ {c}) = Cardinality(S) - 1
  BY <1>1, FS_RemoveElement
<1> QED
  BY <1>2, <1>3, <1>4

LEMMA NoneCounted == Cardinality({}) = 0
BY FS_EmptySet

RegistryInv == TypeOK /\ RegistryCountsOpenSessions

LEMMA RegistryInit == Init => RegistryInv
<1> SUFFICES ASSUME Init PROVE RegistryCountsOpenSessions
  BY TypeInit DEF RegistryInv
<1>1. RegisteredConns = {}
  BY DEF Init, RegisteredConns, Registered, Subscribed
<1> QED
  BY <1>1, NoneCounted DEF Init, RegistryCountsOpenSessions

LEMMA RegistryStep == RegistryInv /\ [Next]_vars => RegistryInv'
<1> SUFFICES ASSUME RegistryInv, [Next]_vars PROVE RegistryInv'
  OBVIOUS
<1> USE DEF RegistryInv, RegistryCountsOpenSessions
<1>0. TypeOK'
  BY TypeStep
<1> USE <1>0
<1>a. ASSUME UNCHANGED registryVars, UNCHANGED RegisteredConns PROVE RegistryInv'
  BY <1>a DEF registryVars
<1>1. CASE UNCHANGED vars
  BY <1>1, <1>a DEF vars, connVars, RegisteredConns
<1>2. ASSUME NEW t \in Targets, Start(t) PROVE RegistryInv'
  BY <1>2, <1>a DEF Start, connVars, RegisteredConns
<1>3. CASE StopTake
  BY <1>3, <1>a DEF StopTake, connVars, RegisteredConns
<1>4. ASSUME NEW g \in Runs, StopSteps(g) \/ ListenerSteps(g) PROVE RegistryInv'
  <2>1. UNCHANGED <<conn, registryVars>>
    BY <1>4 DEF StopSteps, StopBroadcast, StopListener, StopAbort, ListenerSteps,
                ListenerLeaves, ListenerAborted, MarkStopped, connVars
  <2> QED
    BY <2>1, <1>a DEF RegisteredConns
<1>5. ASSUME NEW g \in Runs, NEW c \in Conns, Accept(g, c) PROVE RegistryInv'
  <2>1. UNCHANGED RegisteredConns
    BY <1>5 DEF Accept, TypeOK, RegisteredConns, Registered, Subscribed
  <2> QED
    BY <1>5, <2>1, <1>a DEF Accept
<1>6. ASSUME NEW c \in Conns, ConnSteps(c) PROVE RegistryInv'
  <2>1. CASE RegisterSession(c)
    <3>1. c \notin RegisteredConns /\ RegisteredConns' = RegisteredConns \cup {c}
      BY <2>1 DEF RegisterSession, Advance, TypeOK, RegisteredConns, Registered, Subscribed
    <3> QED
      BY <2>1, <3>1, CardinalityByOne DEF RegisterSession, TypeOK, RegisteredConns
  <2>2. CASE CloseSession(c)
    <3>1. c \in RegisteredConns /\ RegisteredConns' = RegisteredConns \ {c}
      BY <2>2 DEF CloseSession, Advance, TypeOK, RegisteredConns, Registered, Subscribed
    <3>2. Cardinality(RegisteredConns) > 0
          /\ Cardinality(RegisteredConns') = Cardinality(RegisteredConns) - 1
      BY <3>1, CardinalityByOne DEF RegisteredConns
    <3> QED
      BY <2>2, <3>2 DEF CloseSession, SaturatingDec, TypeOK
  <2>3. CASE ~RegisterSession(c) /\ ~CloseSession(c)
    <3>1. UNCHANGED registryVars
      BY <1>6, <2>3
         DEF ConnSteps, TaskSteps, PeerSteps, IncrementActive, AnnounceSession, Subscribe,
             HeardShutdown, DecrementActive, HandshakeDone, TargetConnected, ConnectFailed,
             ForwardingEnds, Finish
    <3>2. UNCHANGED RegisteredConns
      BY <1>6, <2>3
         DEF ConnSteps, TaskSteps, PeerSteps, IncrementActive, AnnounceSession, Subscribe,
             HeardShutdown, DecrementActive, HandshakeDone, TargetConnected, ConnectFailed,
             ForwardingEnds, Finish, Advance, TypeOK, RegisteredConns, Registered, Subscribed
    <3> QED
      BY <3>1, <3>2, <1>a
  <2> QED  BY <2>1, <2>2, <2>3
<1> QED
  BY <1>1, <1>2, <1>3, <1>4, <1>5, <1>6 DEF Next, ConnSteps

(***************************************************************************)
(* The SessionRegistry's active_sessions is the number of connections with *)
(* a session that has been started and not closed, whichever way each of   *)
(* them ended; the saturating subtraction never has to saturate.           *)
(***************************************************************************)
THEOREM RegistryCorrect == Spec => []RegistryCountsOpenSessions
<1>1. RegistryInv => RegistryCountsOpenSessions
  BY DEF RegistryInv
<1> QED
  BY <1>1, RegistryInit, RegistryStep, PTL DEF Spec

(***************************************************************************)
(* ActiveCountBounds is inductive once connections are known to belong to  *)
(* runs that have been started: a new run starts without connections.      *)
(***************************************************************************)
OwnersStarted == \A c \in Conns : run[c] <= generation

CountInv == RunsInv /\ OwnersStarted /\ ActiveCountBounds

LEMMA CountInit == Init => CountInv
<1> SUFFICES ASSUME Init PROVE CountInv
  OBVIOUS
<1>1. CountedConns = {}
  BY DEF Init, CountedConns, Counted, Registered, Subscribed
<1> QED
  BY <1>1, NoneCounted, RunsInvInit DEF Init, CountInv, OwnersStarted, ActiveCountBounds, NoRun

(***************************************************************************)
(* A step that leaves the connections' phases alone may reset the count    *)
(* of a proxy it stops, or change nothing that matters here.               *)
(***************************************************************************)
LEMMA CountKept ==
  ASSUME CountInv, UNCHANGED <<conn, run, generation>>,
         UNCHANGED <<active, isRunning>> \/ (active' = 0 /\ ~isRunning')
  PROVE  OwnersStarted' /\ ActiveCountBounds'
<1>1. /\ UNCHANGED CountedConns
      /\ CountedOf(generation)' = CountedOf(generation)
      /\ LateEndsOf(generation)' = LateEndsOf(generation)
  BY DEF CountedConns, CountedOf, LateEndsOf
<1>2. Cardinality(CountedConns) \in Nat
  BY ConnsAssumption, FS_Subset, FS_CardinalityType DEF CountedConns
<1>3. ActiveCountBounds'
  BY <1>1, <1>2 DEF CountInv, ActiveCountBounds
<1>4. OwnersStarted'
  BY DEF CountInv, OwnersStarted
<1> QED
  BY <1>3, <1>4

LEMMA CountStepOfRuns ==
  ASSUME CountInv, NEW g \in Runs, StopSteps(g) \/ ListenerSteps(g)
  PROVE  OwnersStarted' /\ ActiveCountBounds'
<1>1. UNCHANGED <<conn, run, generation>>
  BY DEF StopSteps, StopBroadcast, StopListener, StopAbort, ListenerSteps, ListenerLeaves,
         ListenerAborted, MarkStopped, ResetRuntime, connVars, runtimeVars
<1>2. UNCHANGED <<active, isRunning>> \/ (active' = 0 /\ ~isRunning')
  BY DEF StopSteps, StopBroadcast, StopListener, StopAbort, ListenerSteps, ListenerLeaves,
         ListenerAborted, MarkStopped, ResetRuntime, runtimeVars
<1> QED
  BY <1>1, <1>2, CountKept

LEMMA CountStepOfConns ==
  ASSUME CountInv, NEW c \in Conns, ConnSteps(c)
  PROVE  OwnersStarted' /\ ActiveCountBounds'
<1> DEFINE Own == CountedOf(generation)
           Late == LateEndsOf(generation)
<1> USE DEF CountInv, RunsInv, TypeOK
<1>1. UNCHANGED <<generation, isRunning, run>> /\ OwnersStarted'
  BY ConnStepsLeaveRuns DEF OwnersStarted
<1>2. CountedConns \in SUBSET Conns /\ Own \in SUBSET Conns /\ Late \in SUBSET Conns
  BY DEF CountedConns, CountedOf, LateEndsOf
<1>3. /\ Cardinality(CountedConns) \in Nat
      /\ Cardinality(Own) \in Nat
      /\ Cardinality(Late) \in Nat
  BY <1>2, CardinalityByOne
<1>4. CASE IncrementActive(c)
  <2>1. /\ c \notin CountedConns
        /\ CountedConns' = CountedConns \cup {c}
        /\ Own' = Own \/ (c \notin Own /\ Own' = Own \cup {c})
        /\ Late' = Late
    BY <1>1, <1>4 DEF IncrementActive, Advance, CountedConns, CountedOf, LateEndsOf, Counted,
                      Registered, Subscribed
  <2>2. /\ Cardinality(CountedConns') = Cardinality(CountedConns) + 1
        /\ \/ Cardinality(Own') = Cardinality(Own)
           \/ Cardinality(Own') = Cardinality(Own) + 1
    BY <1>2, <2>1, CardinalityByOne
  <2>3. active' = active + 1
    BY <1>4 DEF IncrementActive
  <2> QED
    BY <1>1, <1>3, <2>1, <2>2, <2>3 DEF ActiveCountBounds
<1>5. CASE DecrementActive(c)
  <2>1. c \in CountedConns /\ CountedConns' = CountedConns \ {c}
    BY <1>5 DEF DecrementActive, Advance, CountedConns, Counted, Registered, Subscribed
  <2>2. \/ c \in Own /\ Own' = Own \ {c} /\ Late' = Late
        \/ Own' = Own /\ c \notin Late /\ Late' = Late \cup {c}
    <3>1. CASE run[c] = generation
      BY <1>1, <1>5, <3>1 DEF DecrementActive, Advance, CountedConns, CountedOf, LateEndsOf,
                              Counted, Registered, Subscribed
    <3>2. CASE run[c] < generation
      BY <1>1, <1>5, <3>2 DEF DecrementActive, Advance, CountedConns, CountedOf, LateEndsOf,
                              Counted, Registered, Subscribed
    <3> QED  BY <3>1, <3>2 DEF OwnersStarted
  <2>3. /\ Cardinality(CountedConns) > 0
        /\ Cardinality(CountedConns') = Cardinality(CountedConns) - 1
    BY <1>2, <2>1, CardinalityByOne
  <2>4. \/ /\ Cardinality(Own) > 0
           /\ Cardinality(Own') = Cardinality(Own) - 1
           /\ Cardinality(Late') = Cardinality(Late)
        \/ /\ Cardinality(Own') = Cardinality(Own)
           /\ Cardinality(Late') = Cardinality(Late) + 1
    BY <1>2, <2>2, CardinalityByOne
  <2>5. active' = IF active > 0 THEN active - 1 ELSE 0
    BY <1>5 DEF DecrementActive, SaturatingDec
  <2> QED
    BY <1>1, <1>3, <2>3, <2>4, <2>5 DEF ActiveCountBounds
<1>6. CASE ~IncrementActive(c) /\ ~DecrementActive(c)
  <2>1. UNCHANGED active
    BY <1>6 DEF ConnSteps, TaskSteps, PeerSteps, RegisterSession, AnnounceSession, Subscribe,
                HeardShutdown, CloseSession, HandshakeDone, TargetConnected, ConnectFailed,
                ForwardingEnds, Finish, runtimeVars
  <2>2. /\ \A d \in Conns : conn'[d] \in Counted <=> conn[d] \in Counted
        /\ \A d \in Conns : conn'[d] = "done" <=> conn[d] = "done"
    BY <1>6 DEF ConnSteps, TaskSteps, PeerSteps, RegisterSession, AnnounceSession, Subscribe,
                HeardShutdown, CloseSession, HandshakeDone, TargetConnected, ConnectFailed,
                ForwardingEnds, Finish, Advance, Counted, Registered, Subscribed
  <2>3. CountedConns' = CountedConns /\ Own' = Own /\ Late' = Late
    BY <1>1, <2>2 DEF CountedConns, CountedOf, LateEndsOf
  <2> QED
    BY <1>1, <2>1, <2>3 DEF ActiveCountBounds
<1> QED
  BY <1>1, <1>4, <1>5, <1>6

LEMMA CountStep == CountInv /\ [Next]_vars => CountInv'
<1> SUFFICES ASSUME CountInv, [Next]_vars PROVE OwnersStarted' /\ ActiveCountBounds'
  BY RunsInvStep DEF CountInv
<1>1. CASE UNCHANGED vars
  BY <1>1, CountKept DEF vars, runtimeVars, connVars
<1>2. ASSUME NEW t \in Targets, Start(t) PROVE OwnersStarted' /\ ActiveCountBounds'
  <2>1. CountedOf(generation)' = {}
    BY <1>2 DEF Start, connVars, CountInv, RunsInv, TypeOK, OwnersStarted, CountedOf,
                CountedConns
  <2>2. /\ Cardinality(CountedConns') \in Nat
        /\ Cardinality(LateEndsOf(generation)') \in Nat
    BY ConnsAssumption, FS_Subset, FS_CardinalityType DEF CountedConns, LateEndsOf
  <2>3. OwnersStarted'
    BY <1>2 DEF Start, connVars, CountInv, RunsInv, TypeOK, OwnersStarted
  <2> QED
    BY <1>2, <2>1, <2>2, <2>3, NoneCounted DEF Start, ActiveCountBounds
<1>3. CASE StopTake
  BY <1>3, CountKept DEF StopTake, connVars
<1>4. ASSUME NEW g \in Runs, StopSteps(g) \/ ListenerSteps(g)
      PROVE  OwnersStarted' /\ ActiveCountBounds'
  BY <1>4, CountStepOfRuns
<1>5. ASSUME NEW g \in Runs, NEW c \in Conns, Accept(g, c)
      PROVE  OwnersStarted' /\ ActiveCountBounds'
  <2> USE DEF Accept, runtimeVars, CountInv, RunsInv, TypeOK
  <2>1. /\ CountedConns' = CountedConns
        /\ CountedOf(generation)' = CountedOf(generation)
        /\ LateEndsOf(generation)' = LateEndsOf(generation)
    BY <1>5 DEF CountedConns, CountedOf, LateEndsOf, Counted, Registered, Subscribed
  <2>2. g <= generation
    BY <1>5 DEF StartedRuns, Runs
  <2>3. OwnersStarted'
    BY <1>5, <2>2 DEF OwnersStarted
  <2> QED
    BY <1>5, <2>1, <2>3 DEF ActiveCountBounds
<1>6. ASSUME NEW c \in Conns, ConnSteps(c) PROVE OwnersStarted' /\ ActiveCountBounds'
  BY <1>6, CountStepOfConns
<1> QED
  BY <1>1, <1>2, <1>3, <1>4, <1>5, <1>6 DEF Next, ConnSteps

(***************************************************************************)
(* active_connections never counts more than the connections that hold a   *)
(* slot, and while a proxy runs it misses at most one of its own for each  *)
(* connection of an earlier run that has ended.                            *)
(***************************************************************************)
THEOREM ActiveCountCorrect == Spec => []ActiveCountBounds
<1>1. CountInv => ActiveCountBounds
  BY DEF CountInv
<1> QED
  BY <1>1, CountInit, CountStep, PTL DEF Spec

=============================================================================

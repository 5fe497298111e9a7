------------------------------- MODULE Proxy -------------------------------
(***************************************************************************)
(* The backend of Proxy Mode (src-tauri/src/proxy.rs and session.rs): the  *)
(* ProxyManager behind its tokio mutex, the listener task of each run, the *)
(* task of each accepted connection, the broadcast channel that stop()     *)
(* uses to end connections, and the SessionRegistry counters.              *)
(*                                                                         *)
(* A run is one successful start(); its number is `generation`.  Every     *)
(* mutex-protected section, channel operation and stretch of a task        *)
(* between two awaits is one action, so tasks interleave exactly where the *)
(* multi-threaded tokio runtime lets them.  What a connection does with    *)
(* frames while it forwards is ProxyForwarding's subject; here forwarding  *)
(* is one phase that ends with one of the outcomes of forward_messages.    *)
(*                                                                         *)
(* Not represented: poisoning of the registry's RwLock (its two critical   *)
(* sections cannot panic), log events, and failing accept() calls, which   *)
(* only log.                                                               *)
(***************************************************************************)
EXTENDS Integers, FiniteSets

CONSTANTS
  Conns,     \* the client connections that may arrive
  Targets,   \* target URLs that pass validate_websocket_url
  NoTarget,  \* target_url: None
  MaxRuns    \* bound: number of successful start() calls explored

ASSUME MaxRunsAssumption  == MaxRuns \in Nat \ {0}
ASSUME ConnsAssumption    == IsFiniteSet(Conns)
ASSUME NoTargetAssumption == NoTarget \notin Targets

Runs  == 1 .. MaxRuns
NoRun == 0

VARIABLES
  \* ProxyRuntime, guarded by the mutex
  generation,   \* number of the latest run
  isRunning,
  listenUrl,    \* the run whose listener's address is shown, or NoRun
  targetUrl,
  active,       \* active_connections
  handles,      \* the run whose shutdown, task and channel handles are held
  \* per run
  stopPc,       \* how far a stop() of the run has got
  listener,     \* the listener task
  closing,      \* runs whose listener was sent the oneshot shutdown
  aborting,     \* runs whose listener task was aborted
  \* per connection
  conn,         \* where the connection's task is
  run,          \* the run that accepted it
  heard,        \* a current receiver of the task holds the shutdown message
  outcome,      \* the status proxy_connection's result stands for
  \* SessionRegistry
  nextId,
  activeSessions,
  totalSessions

runtimeVars  == <<generation, isRunning, listenUrl, targetUrl, active, handles>>
listenerVars == <<stopPc, listener, closing, aborting>>
connVars     == <<conn, run, heard, outcome>>
registryVars == <<nextId, activeSessions, totalSessions>>
vars         == <<runtimeVars, listenerVars, connVars, registryVars>>

(***************************************************************************)
(* Phases of a connection's task, in the order handle_proxy_connection and *)
(* proxy_connection go through them.                                       *)
(***************************************************************************)
Subscribed == {"handshake", "dialing", "forwarding"}
Registered == {"registered", "announced", "finished"} \cup Subscribed
Counted    == {"counted", "deregistered"} \cup Registered
Phases     == {"idle", "accepted", "done"} \cup Counted

Outcomes == {"closed", "error"}   \* ProxySessionCloseStatus

TypeOK ==
  /\ generation \in 0 .. MaxRuns
  /\ isRunning \in BOOLEAN
  /\ listenUrl \in 0 .. MaxRuns
  /\ targetUrl \in Targets \cup {NoTarget}
  /\ active \in Nat
  /\ handles \in 0 .. MaxRuns
  /\ stopPc \in [Runs -> {"none", "broadcast", "listener", "abort", "done"}]
  /\ listener \in [Runs -> {"unborn", "listening", "leaving", "ended"}]
  /\ closing \subseteq Runs
  /\ aborting \subseteq Runs
  /\ conn \in [Conns -> Phases]
  /\ run \in [Conns -> 0 .. MaxRuns]
  /\ heard \in [Conns -> BOOLEAN]
  /\ outcome \in [Conns -> Outcomes \cup {"none"}]
  /\ nextId \in Nat
  /\ activeSessions \in Nat
  /\ totalSessions \in Nat

Init ==
  /\ generation = 0
  /\ isRunning = FALSE
  /\ listenUrl = NoRun
  /\ targetUrl = NoTarget
  /\ active = 0
  /\ handles = NoRun
  /\ stopPc = [g \in Runs |-> "none"]
  /\ listener = [g \in Runs |-> "unborn"]
  /\ closing = {}
  /\ aborting = {}
  /\ conn = [c \in Conns |-> "idle"]
  /\ run = [c \in Conns |-> NoRun]
  /\ heard = [c \in Conns |-> FALSE]
  /\ outcome = [c \in Conns |-> "none"]
  /\ nextId = 1
  /\ activeSessions = 0
  /\ totalSessions = 0

PlainDec(n) == n - 1         \* faulty: no saturation

(***************************************************************************)
(* saturating_sub(1) on u64.                                               *)
(***************************************************************************)
SaturatingDec(n) == IF n > 0 THEN n - 1 ELSE 0

----------------------------------------------------------------------------
(* start() and stop() *)

StartUnchecked(t) ==         \* faulty: no is_running check
  /\ generation < MaxRuns
  /\ generation' = generation + 1
  /\ active' = 0
  /\ isRunning' = TRUE
  /\ listenUrl' = generation'
  /\ targetUrl' = t
  /\ handles' = generation'
  /\ listener' = [listener EXCEPT ![generation'] = "listening"]
  /\ UNCHANGED <<stopPc, closing, aborting, connVars, registryVars>>

(***************************************************************************)
(* start(): the mutex is held from the is_running check to the end, across *)
(* the bind, so the whole body is one step.  A rejected target URL, a      *)
(* running proxy and a failed bind return before anything is assigned.     *)
(***************************************************************************)
Start(t) ==
  /\ ~isRunning
  /\ generation < MaxRuns
  /\ generation' = generation + 1
  /\ active' = 0
  /\ isRunning' = TRUE
  /\ listenUrl' = generation'
  /\ targetUrl' = t
  /\ handles' = generation'
  /\ listener' = [listener EXCEPT ![generation'] = "listening"]
  /\ UNCHANGED <<stopPc, closing, aborting, connVars, registryVars>>

(***************************************************************************)
(* stop() under the mutex: takes the three handles out of the runtime and  *)
(* resets it.  A proxy that is not running makes it return early.          *)
(***************************************************************************)
StopTake ==
  /\ isRunning
  /\ stopPc' = [stopPc EXCEPT ![handles] = "broadcast"]
  /\ handles' = NoRun
  /\ active' = 0
  /\ isRunning' = FALSE
  /\ listenUrl' = NoRun
  /\ targetUrl' = NoTarget
  /\ UNCHANGED <<generation, listener, closing, aborting, connVars, registryVars>>

StopBroadcastOrGiveUp(g) ==  \* faulty: send()'s "no receivers" error ends stop()
  /\ stopPc[g] = "broadcast"
  /\ stopPc' = [stopPc EXCEPT ![g] =
       IF \E c \in Conns : run[c] = g /\ conn[c] \in Subscribed THEN "listener" ELSE "done"]
  /\ heard' = [c \in Conns |->
       heard[c] \/ (run[c] = g /\ conn[c] \in Subscribed)]
  /\ UNCHANGED <<runtimeVars, listener, closing, aborting, conn, run, outcome, registryVars>>

(***************************************************************************)
(* stop() after it released the mutex: the broadcast reaches exactly the   *)
(* receivers that exist now.                                               *)
(***************************************************************************)
StopBroadcast(g) ==
  /\ stopPc[g] = "broadcast"
  /\ stopPc' = [stopPc EXCEPT ![g] = "listener"]
  /\ heard' = [c \in Conns |->
       heard[c] \/ (run[c] = g /\ conn[c] \in Subscribed)]
  /\ UNCHANGED <<runtimeVars, listener, closing, aborting, conn, run, outcome, registryVars>>

StopListener(g) ==
  /\ stopPc[g] = "listener"
  /\ stopPc' = [stopPc EXCEPT ![g] = "abort"]
  /\ closing' = closing \cup {g}
  /\ UNCHANGED <<runtimeVars, listener, aborting, connVars, registryVars>>

StopAbort(g) ==
  /\ stopPc[g] = "abort"
  /\ stopPc' = [stopPc EXCEPT ![g] = "done"]
  /\ aborting' = aborting \cup {g}
  /\ UNCHANGED <<runtimeVars, listener, closing, connVars, registryVars>>

----------------------------------------------------------------------------
(* run_proxy_listener *)

(***************************************************************************)
(* The select! polls shutdown and accept in random order, so a pending     *)
(* shutdown does not prevent another accept; and an abort takes effect     *)
(* only when the task next yields.                                         *)
(***************************************************************************)
Accept(g, c) ==
  /\ listener[g] = "listening"
  /\ conn[c] = "idle"
  /\ conn' = [conn EXCEPT ![c] = "accepted"]
  /\ run' = [run EXCEPT ![c] = g]
  /\ UNCHANGED <<runtimeVars, listenerVars, heard, outcome, registryVars>>

ListenerLeaves(g) ==
  /\ listener[g] = "listening"
  /\ g \in closing
  /\ listener' = [listener EXCEPT ![g] = "leaving"]
  /\ UNCHANGED <<runtimeVars, stopPc, closing, aborting, connVars, registryVars>>

ListenerAborted(g) ==
  /\ listener[g] \in {"listening", "leaving"}
  /\ g \in aborting
  /\ listener' = [listener EXCEPT ![g] = "ended"]
  /\ UNCHANGED <<runtimeVars, stopPc, closing, aborting, connVars, registryVars>>

(***************************************************************************)
(* mark_stopped(generation) under the mutex: a listener that outlived its  *)
(* run must not touch the runtime of a later one.                          *)
(***************************************************************************)
ResetRuntime ==
  /\ active' = 0
  /\ isRunning' = FALSE
  /\ listenUrl' = NoRun
  /\ targetUrl' = NoTarget
  /\ handles' = NoRun
  /\ UNCHANGED generation

MarkStoppedUnchecked(g) ==   \* faulty: no generation check
  /\ listener[g] = "leaving"
  /\ listener' = [listener EXCEPT ![g] = "ended"]
  /\ ResetRuntime
  /\ UNCHANGED <<stopPc, closing, aborting, connVars, registryVars>>

MarkStopped(g) ==
  /\ listener[g] = "leaving"
  /\ listener' = [listener EXCEPT ![g] = "ended"]
  /\ \/ generation # g /\ UNCHANGED runtimeVars
     \/ generation = g /\ ResetRuntime
  /\ UNCHANGED <<stopPc, closing, aborting, connVars, registryVars>>

----------------------------------------------------------------------------
(* handle_proxy_connection and proxy_connection *)

Advance(c, from, to) ==
  /\ conn[c] = from
  /\ conn' = [conn EXCEPT ![c] = to]
  /\ UNCHANGED run

IncrementActive(c) ==
  /\ Advance(c, "accepted", "counted")
  /\ active' = active + 1
  /\ UNCHANGED <<generation, isRunning, listenUrl, targetUrl, handles>>
  /\ UNCHANGED <<listenerVars, heard, outcome, registryVars>>

RegisterSession(c) ==        \* start_proxy_session
  /\ Advance(c, "counted", "registered")
  /\ nextId' = nextId + 1
  /\ activeSessions' = activeSessions + 1
  /\ totalSessions' = totalSessions + 1
  /\ UNCHANGED <<runtimeVars, listenerVars, heard, outcome>>

AnnounceSession(c) ==        \* emits proxy://session-started
  /\ Advance(c, "registered", "announced")
  /\ UNCHANGED <<runtimeVars, listenerVars, heard, outcome, registryVars>>

(***************************************************************************)
(* proxy_connection subscribes a fresh receiver before each await; a       *)
(* receiver only sees what is sent after it subscribed.                    *)
(***************************************************************************)
Subscribe(c) ==
  /\ Advance(c, "announced", "handshake")
  /\ UNCHANGED <<runtimeVars, listenerVars, heard, outcome, registryVars>>

Finish(c, o) ==
  /\ conn' = [conn EXCEPT ![c] = "finished"]
  /\ outcome' = [outcome EXCEPT ![c] = o]
  /\ heard' = [heard EXCEPT ![c] = FALSE]
  /\ UNCHANGED <<runtimeVars, listenerVars, run, registryVars>>

HeardBeforeForwarding(c) ==  \* faulty: the forwarding loops do not select on shutdown
  /\ conn[c] \in Subscribed \ {"forwarding"}
  /\ heard[c]
  /\ Finish(c, "closed")

HeardShutdown(c) ==          \* the shutdown branch of any of the selects
  /\ conn[c] \in Subscribed
  /\ heard[c]
  /\ Finish(c, "closed")

(***************************************************************************)
(* The other branch of a select may win although the shutdown message is   *)
(* there; the next receiver then starts without it.                        *)
(***************************************************************************)
HandshakeDone(c) ==
  /\ Advance(c, "handshake", "dialing")
  /\ heard' = [heard EXCEPT ![c] = FALSE]
  /\ UNCHANGED <<runtimeVars, listenerVars, outcome, registryVars>>

TargetConnected(c) ==
  /\ Advance(c, "dialing", "forwarding")
  /\ heard' = [heard EXCEPT ![c] = FALSE]
  /\ UNCHANGED <<runtimeVars, listenerVars, outcome, registryVars>>

ConnectFailed(c) ==          \* accept_async or connect_async returns an error
  /\ conn[c] \in {"handshake", "dialing"}
  /\ Finish(c, "error")

ForwardingEnds(c) ==         \* one forward_messages returns on its own
  /\ conn[c] = "forwarding"
  /\ \E o \in Outcomes : Finish(c, o)

CloseCleanSession(c) ==      \* faulty: an error returns without close_proxy_session
  /\ Advance(c, "finished", "deregistered")
  /\ activeSessions' =
       IF outcome[c] = "error" THEN activeSessions ELSE SaturatingDec(activeSessions)
  /\ outcome' = [outcome EXCEPT ![c] = "none"]
  /\ UNCHANGED <<runtimeVars, listenerVars, heard, nextId, totalSessions>>

CloseSession(c) ==           \* close_proxy_session, then proxy://session-closed
  /\ Advance(c, "finished", "deregistered")
  /\ activeSessions' = SaturatingDec(activeSessions)
  /\ outcome' = [outcome EXCEPT ![c] = "none"]   \* moved into the event
  /\ UNCHANGED <<runtimeVars, listenerVars, heard, nextId, totalSessions>>

DecrementWhileRunning(c) ==  \* faulty: gives the slot back only to a running proxy
  /\ Advance(c, "deregistered", "done")
  /\ active' = IF isRunning THEN SaturatingDec(active) ELSE active
  /\ UNCHANGED <<generation, isRunning, listenUrl, targetUrl, handles>>
  /\ UNCHANGED <<listenerVars, heard, outcome, registryVars>>

DecrementActive(c) ==
  /\ Advance(c, "deregistered", "done")
  /\ active' = SaturatingDec(active)
  /\ UNCHANGED <<generation, isRunning, listenUrl, targetUrl, handles>>
  /\ UNCHANGED <<listenerVars, heard, outcome, registryVars>>

----------------------------------------------------------------------------

StopSteps(g) == StopBroadcast(g) \/ StopListener(g) \/ StopAbort(g)

ListenerSteps(g) == ListenerLeaves(g) \/ ListenerAborted(g) \/ MarkStopped(g)

(***************************************************************************)
(* What a connection's task does without waiting for a peer.               *)
(***************************************************************************)
TaskSteps(c) ==
  \/ IncrementActive(c)
  \/ RegisterSession(c)
  \/ AnnounceSession(c)
  \/ Subscribe(c)
  \/ CloseSession(c)
  \/ DecrementActive(c)

(***************************************************************************)
(* What may have to wait for one.  Hearing the shutdown is among it: a     *)
(* forwarding loop looks for the message only at its select, which it does *)
(* not reach while a write waits for the peer, and it writes a close frame *)
(* before it returns.  ProxyPeers models this.                             *)
(***************************************************************************)
PeerSteps(c) ==
  \/ HeardShutdown(c)
  \/ HandshakeDone(c)
  \/ TargetConnected(c)
  \/ ConnectFailed(c)
  \/ ForwardingEnds(c)

Next ==
  \/ \E t \in Targets : Start(t)
  \/ StopTake
  \/ \E g \in Runs : StopSteps(g) \/ ListenerSteps(g)
  \/ \E g \in Runs, c \in Conns : Accept(g, c)
  \/ \E c \in Conns : TaskSteps(c) \/ PeerSteps(c)

Spec == Init /\ [][Next]_vars

----------------------------------------------------------------------------
(* Safety *)

(***************************************************************************)
(* The status reports a running proxy exactly when there is a listener     *)
(* that accepts clients and that nobody has begun to stop, and then it is  *)
(* the listener of the latest run: a late mark_stopped() of an earlier run *)
(* neither hides a live listener nor leaves a dead one reported.           *)
(***************************************************************************)
StatusMatchesListener ==
  \A g \in Runs :
    (isRunning /\ generation = g) <=> (listener[g] = "listening" /\ stopPc[g] = "none")

(***************************************************************************)
(* The registry counts exactly the connections between start_proxy_session *)
(* and close_proxy_session, on every way out of proxy_connection.          *)
(***************************************************************************)
RegisteredConns == {c \in Conns : conn[c] \in Registered}

RegistryCountsOpenSessions ==
  /\ activeSessions = Cardinality(RegisteredConns)
  /\ totalSessions = nextId - 1

(***************************************************************************)
(* What active_connections is worth: it never exceeds the connections that *)
(* hold a slot, and while a proxy runs it misses at most one of its own    *)
(* connections for each connection of an earlier run that has ended.  One  *)
(* that ended after the new start took its decrement from the new run's    *)
(* counter; one that ended before it took nothing, and is counted all the  *)
(* same, so that the bound needs no history of the order.                  *)
(***************************************************************************)
CountedConns   == {c \in Conns : conn[c] \in Counted}
CountedOf(g)   == {c \in CountedConns : run[c] = g}
LateEndsOf(g)  == {c \in Conns : conn[c] = "done" /\ run[c] < g}

ActiveCountBounds ==
  /\ active <= Cardinality(CountedConns)
  /\ isRunning =>
       active + Cardinality(LateEndsOf(generation)) >= Cardinality(CountedOf(generation))

----------------------------------------------------------------------------
(* Refinement *)

(***************************************************************************)
(* The promise of ProxyLifecycle, read off the tasks: a run is stopping    *)
(* from the moment its handles are taken until its listener task is gone.  *)
(***************************************************************************)
RunPhase(g) ==
  IF listener[g] = "unborn" THEN "unused"
  ELSE IF listener[g] = "ended" THEN "released"
  ELSE IF stopPc[g] = "none" THEN "open"
  ELSE "stopping"

Lifecycle == INSTANCE ProxyLifecycle WITH
  phase <- [g \in Runs |-> RunPhase(g)],
  shown <- listenUrl

(***************************************************************************)
(* Every behaviour of the backend, under the fairness of ProxyPeers, is    *)
(* one that ProxyLifecycle allows, its fairness included.                  *)
(***************************************************************************)
ImplementsLifecycle == Lifecycle!Spec

----------------------------------------------------------------------------
(* What the documentation says *)

(***************************************************************************)
(* docs/proxy-mode.md: stopping the proxy "sends a shutdown signal to      *)
(* active proxy forwarding loops".  After stop() has returned, a loop of   *)
(* the stopped run that still forwards has been signalled.                 *)
(***************************************************************************)
StopSignalsEveryLoop ==
  \A c \in Conns :
    conn[c] = "forwarding" /\ stopPc[run[c]] = "done" => heard[c]

=============================================================================

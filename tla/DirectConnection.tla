-------------------------- MODULE DirectConnection --------------------------
(***************************************************************************)
(* Direct Mode (src/store/connection-store.ts): at most one WebSocket to a *)
(* server, opened, replaced, closed and reconnected by the user while the  *)
(* browser delivers its events, the text of binary frames arrives later    *)
(* than the frames, and a reconnect waits between closing and reopening.   *)
(*                                                                         *)
(* Every connect() that gets as far as a socket is an attempt, numbered    *)
(* from 1; it owns one WebSocket and one session, so both go by its        *)
(* number.  A connection is identified with its endpoint.  JavaScript runs *)
(* each handler to its end, and a WebSocket changes its readyState in the  *)
(* task that fires the event, so each handler is one action.               *)
(*                                                                         *)
(* Left out: error texts, logs and toasts; selectedConnectionId; the limit *)
(* of 20 connections; demo entries of the list; endpoint templates, which  *)
(* let one entry stand for several endpoints; a failing saveConnection()   *)
(* (its callers validate first); a throwing send() (the WebSocket API only *)
(* throws before the socket is open).                                      *)
(***************************************************************************)
EXTENDS Integers

CONSTANTS
  Conns,          \* saved connections, that is, their endpoints
  NoConn,         \* null
  MaxAttempts,    \* bound: sockets opened
  MaxFrames,      \* bound: frames received or sent on a socket
  MaxReconnects   \* bound: reconnects under way at a time for a connection

ASSUME BoundsAssumption == {MaxAttempts, MaxFrames, MaxReconnects} \subseteq Nat
ASSUME NoConnAssumption == NoConn \notin Conns

Attempts  == 1 .. MaxAttempts
NoAttempt == 0

VARIABLES
  \* the store
  socket,             \* the attempt whose socket it holds
  activeSession,      \* activeSessionId
  activeConnection,   \* activeConnectionId
  endpoint,           \* endpointUrl
  status,
  isConnected,
  listed,             \* connections
  connStatus,         \* their statuses; idle for one that is not listed
  cooling,            \* lastReconnectAttemptAt is less than 900 ms ago
  waiting,            \* reconnects in delay(120), per connection
  \* each attempt
  attempts,           \* how many there have been
  owner,              \* its connection
  ready,              \* readyState of its socket
  attached,           \* attempts whose socket has its handlers
  normalizing,        \* its frames inside normalizeMessage
  \* the rest of the program
  session,            \* status of its session in the session store
  packets,            \* packets recorded for its session
  demo,               \* demoMode.isActive
  replaced            \* history: attempts whose closing socket a connect() cleaned up

storeVars   == <<socket, activeSession, activeConnection, endpoint, status, isConnected,
                 listed, connStatus>>
retryVars   == <<cooling, waiting>>
socketVars  == <<attempts, owner, ready, attached, session, replaced>>
trafficVars == <<normalizing, packets>>
vars        == <<storeVars, retryVars, socketVars, trafficVars, demo>>

ConnStatuses    == {"idle", "connecting", "connected", "disconnected", "error"}
SessionStatuses == {"none", "connecting", "connected", "closed", "error", "forgotten"}
Unfinished      == {"connecting", "connected"}

TypeOK ==
  /\ socket \in {NoAttempt} \cup Attempts
  /\ activeSession \in {NoAttempt} \cup Attempts
  /\ activeConnection \in Conns \cup {NoConn}
  /\ endpoint \in Conns
  /\ status \in ConnStatuses
  /\ isConnected \in BOOLEAN
  /\ listed \subseteq Conns
  /\ connStatus \in [Conns -> ConnStatuses]
  /\ cooling \in BOOLEAN
  /\ waiting \in [Conns -> 0 .. MaxReconnects]
  /\ attempts \in 0 .. MaxAttempts
  /\ owner \in [Attempts -> Conns \cup {NoConn}]
  /\ ready \in [Attempts -> {"none", "connecting", "open", "closing", "closed"}]
  /\ attached \subseteq Attempts
  /\ normalizing \in [Attempts -> 0 .. MaxFrames]
  /\ session \in [Attempts -> SessionStatuses]
  /\ packets \in [Attempts -> 0 .. MaxFrames]
  /\ demo \in BOOLEAN
  /\ replaced \subseteq Attempts

Init ==
  /\ socket = NoAttempt
  /\ activeSession = NoAttempt
  /\ activeConnection = NoConn
  /\ endpoint \in Conns
  /\ status = "idle"
  /\ isConnected = FALSE
  /\ listed = {}
  /\ connStatus = [c \in Conns |-> "idle"]
  /\ cooling = FALSE
  /\ waiting = [c \in Conns |-> 0]
  /\ attempts = 0
  /\ owner = [a \in Attempts |-> NoConn]
  /\ ready = [a \in Attempts |-> "none"]
  /\ attached = {}
  /\ normalizing = [a \in Attempts |-> 0]
  /\ session = [a \in Attempts |-> "none"]
  /\ packets = [a \in Attempts |-> 0]
  /\ demo = FALSE
  /\ replaced = {}

----------------------------------------------------------------------------
(* Helpers of the store *)

Live(a) == a # NoAttempt /\ ready[a] \in {"connecting", "open"}   \* isLiveSocket

Current(a) == socket = a /\ activeSession = a                     \* isCurrentSocket

PatchConnection(c, st) ==
  connStatus' = IF c \in listed THEN [connStatus EXCEPT ![c] = st] ELSE connStatus

UpdateSession(a, st) ==
  session' = IF a = NoAttempt THEN session ELSE [session EXCEPT ![a] = st]

(***************************************************************************)
(* cleanupSocket: detaches the handlers first, so the close() that follows *)
(* reports nothing.                                                        *)
(***************************************************************************)
CleanUp(a) ==
  /\ attached' = attached \ {a}
  /\ ready' = IF Live(a) THEN [ready EXCEPT ![a] = "closing"] ELSE ready

LetGo ==                     \* what every end of the current attempt sets
  /\ socket' = NoAttempt
  /\ activeSession' = NoAttempt
  /\ activeConnection' = NoConn
  /\ isConnected' = FALSE
  /\ UNCHANGED <<endpoint, listed>>

----------------------------------------------------------------------------
(* connect() *)

Refused == (demo \/ Live(socket)) /\ UNCHANGED <<storeVars, socketVars>>

(***************************************************************************)
(* A socket that is not live any more is dropped before the new endpoint   *)
(* is even looked at.                                                      *)
(***************************************************************************)
DropClosingSocket ==
  replaced' = IF socket = NoAttempt THEN replaced ELSE replaced \cup {socket}

(***************************************************************************)
(* An endpoint that does not resolve or validate, or a constructor that    *)
(* throws.  `c` is the connection asked for by id, or NoConn.              *)
(***************************************************************************)
ConnectFails(c) ==
  /\ DropClosingSocket
  /\ attached' = attached \ {socket}
  /\ socket' = NoAttempt
  /\ status' = "error"
  /\ isConnected' = FALSE
  /\ PatchConnection(c, "error")
  /\ UNCHANGED <<activeSession, activeConnection, endpoint, listed>>
  /\ UNCHANGED <<attempts, owner, ready, session>>

OpenSocket(c) ==             \* to the connection asked for, or to the endpoint entered
  LET a == attempts + 1
      t == IF c \in listed THEN c ELSE endpoint
  IN
  /\ a \in Attempts
  /\ DropClosingSocket
  /\ attempts' = a
  /\ owner' = [owner EXCEPT ![a] = t]
  /\ ready' = [ready EXCEPT ![a] = "connecting"]
  /\ attached' = (attached \ {socket}) \cup {a}
  /\ session' = [session EXCEPT ![a] = "connecting"]
  /\ socket' = a
  /\ activeSession' = a
  /\ activeConnection' = t
  /\ endpoint' = t
  /\ listed' = listed \cup {t}
  /\ connStatus' = [connStatus EXCEPT ![t] = "connecting"]
  /\ status' = "connecting"
  /\ isConnected' = FALSE

ConnectUnguarded(c) ==       \* faulty: no isLiveSocket check
  \/ demo /\ UNCHANGED <<storeVars, socketVars>>
  \/ ~demo /\ (ConnectFails(c) \/ OpenSocket(c))

ConnectTo(c) ==
  \/ Refused
  \/ ~demo /\ ~Live(socket) /\ (ConnectFails(c) \/ OpenSocket(c))

Connect(c) == ConnectTo(c) /\ UNCHANGED <<retryVars, trafficVars, demo>>

----------------------------------------------------------------------------
(* disconnect() and reconnect() *)

LeaveSessionOpen ==          \* faulty: the session is left to an onclose that was detached
  /\ CleanUp(socket)
  /\ PatchConnection(activeConnection, "disconnected")
  /\ LetGo
  /\ status' = "disconnected"
  /\ UNCHANGED <<attempts, owner, replaced, session>>

GiveUp ==
  /\ CleanUp(socket)
  /\ UpdateSession(activeSession, "closed")
  /\ PatchConnection(activeConnection, "disconnected")
  /\ LetGo
  /\ status' = "disconnected"
  /\ UNCHANGED <<attempts, owner, replaced>>

Disconnect == GiveUp /\ UNCHANGED <<retryVars, trafficVars, demo>>

(***************************************************************************)
(* reconnect(c): a connection attempt in progress and the cooldown refuse  *)
(* it; otherwise the connection, if it is the active one, is closed and    *)
(* reopened after a delay, and any other is opened at once.                *)
(***************************************************************************)
Reconnect(c) ==
  /\ status # "connecting"
  /\ ~cooling
  /\ cooling' = TRUE
  /\ \/ /\ activeConnection = c /\ socket # NoAttempt
        /\ waiting[c] < MaxReconnects
        /\ waiting' = [waiting EXCEPT ![c] = @ + 1]
        /\ GiveUp
     \/ /\ activeConnection # c \/ socket = NoAttempt
        /\ ConnectTo(c)
        /\ UNCHANGED waiting
  /\ UNCHANGED <<trafficVars, demo>>

(***************************************************************************)
(* What happened during the delay is connect()'s to find out.              *)
(***************************************************************************)
DelayOver(c) ==
  /\ waiting[c] > 0
  /\ waiting' = [waiting EXCEPT ![c] = @ - 1]
  /\ ConnectTo(c)
  /\ UNCHANGED <<cooling, trafficVars, demo>>

CooledDown ==
  /\ cooling
  /\ cooling' = FALSE
  /\ UNCHANGED <<storeVars, waiting, socketVars, trafficVars, demo>>

----------------------------------------------------------------------------
(* Events of the sockets; one without handlers only changes its readyState *)

Detached(a, st) ==
  /\ a \notin attached
  /\ ready' = [ready EXCEPT ![a] = st]
  /\ UNCHANGED <<storeVars, attempts, owner, attached, session, replaced>>

Opened(a) ==                 \* onopen
  /\ ready[a] = "connecting"
  /\ \/ Detached(a, "open")
     \/ /\ a \in attached /\ Current(a)
        /\ ready' = [ready EXCEPT ![a] = "open"]
        /\ activeConnection' = owner[a]
        /\ PatchConnection(owner[a], "connected")
        /\ isConnected' = TRUE
        /\ status' = "connected"
        /\ UpdateSession(a, "connected")
        /\ UNCHANGED <<socket, activeSession, endpoint, listed, attempts, owner, attached, replaced>>
     \/ /\ a \in attached /\ ~Current(a)
        /\ CleanUp(a)         \* "Connection replaced"
        /\ UNCHANGED <<storeVars, attempts, owner, session, replaced>>
  /\ UNCHANGED <<retryVars, trafficVars, demo>>

StartsClosing(a) ==          \* the server's close frame has arrived, onclose is yet to come
  /\ ready[a] = "open"
  /\ ready' = [ready EXCEPT ![a] = "closing"]
  /\ UNCHANGED <<storeVars, retryVars, attempts, owner, attached, session, replaced>>
  /\ UNCHANGED <<trafficVars, demo>>

EndsAlike(a, st) ==          \* faulty: gives the session the connection's status
  /\ ready' = [ready EXCEPT ![a] = "closed"]
  /\ attached' = attached \ {a}
  /\ \/ /\ Current(a)
        /\ PatchConnection(owner[a], st)
        /\ UpdateSession(a, st)
        /\ LetGo
        /\ status' = st
     \/ ~Current(a) /\ UNCHANGED <<storeVars, session>>
  /\ UNCHANGED <<attempts, owner, replaced>>

(***************************************************************************)
(* The current attempt is over with status st; its handlers are gone.      *)
(***************************************************************************)
Ends(a, st) ==
  /\ ready' = [ready EXCEPT ![a] = "closed"]
  /\ attached' = attached \ {a}
  /\ \/ /\ Current(a)
        /\ PatchConnection(owner[a], st)
        /\ UpdateSession(a, IF st = "error" THEN "error" ELSE "closed")
        /\ LetGo
        /\ status' = st
     \/ ~Current(a) /\ UNCHANGED <<storeVars, session>>
  /\ UNCHANGED <<attempts, owner, replaced>>

Closed(a, clean) ==          \* onclose; not clean: code 1006
  /\ ready[a] \in {"open", "closing"}
  /\ \/ Detached(a, "closed")
     \/ a \in attached /\ Ends(a, IF status = "error" \/ ~clean THEN "error" ELSE "disconnected")
  /\ UNCHANGED <<retryVars, trafficVars, demo>>

FailureLeavesFlag(a) ==      \* faulty: isConnected survives an error
  /\ ready[a] \in {"connecting", "open", "closing"}
  /\ \/ Detached(a, "closed")
     \/ /\ a \in attached
        /\ ready' = [ready EXCEPT ![a] = "closed"]
        /\ attached' = attached \ {a}
        /\ PatchConnection(owner[a], "error")
        /\ UpdateSession(a, "error")
        /\ socket' = NoAttempt
        /\ activeSession' = NoAttempt
        /\ activeConnection' = NoConn
        /\ status' = "error"
        /\ UNCHANGED <<isConnected, endpoint, listed, attempts, owner, replaced>>
  /\ UNCHANGED <<retryVars, trafficVars, demo>>

(***************************************************************************)
(* onerror, which detaches the onclose that the browser fires right after  *)
(* it.                                                                     *)
(***************************************************************************)
Failed(a) ==
  /\ ready[a] \in {"connecting", "open", "closing"}
  /\ \/ Detached(a, "closed")
     \/ a \in attached /\ Ends(a, "error")
  /\ UNCHANGED <<retryVars, trafficVars, demo>>

----------------------------------------------------------------------------
(* Frames *)

Message(a) ==                \* onmessage: starts normalizeMessage
  /\ ready[a] = "open"
  /\ a \in attached /\ Current(a)
  /\ normalizing[a] + packets[a] < MaxFrames
  /\ normalizing' = [normalizing EXCEPT ![a] = @ + 1]
  /\ UNCHANGED <<storeVars, retryVars, socketVars, packets, demo>>

NormalizedUnchecked(a) ==    \* faulty: does not look again after the await
  /\ normalizing[a] > 0
  /\ normalizing' = [normalizing EXCEPT ![a] = @ - 1]
  /\ packets' = [packets EXCEPT ![a] = @ + 1]
  /\ UNCHANGED <<storeVars, retryVars, socketVars, demo>>

Normalized(a) ==
  /\ normalizing[a] > 0
  /\ normalizing' = [normalizing EXCEPT ![a] = @ - 1]
  /\ packets' = IF Current(a) THEN [packets EXCEPT ![a] = @ + 1] ELSE packets
  /\ UNCHANGED <<storeVars, retryVars, socketVars, demo>>

SendMessage ==               \* refused unless all of the guard holds
  /\ socket # NoAttempt /\ ready[socket] = "open"
  /\ activeConnection # NoConn /\ activeSession # NoAttempt
  /\ normalizing[activeSession] + packets[activeSession] < MaxFrames
  /\ packets' = [packets EXCEPT ![activeSession] = @ + 1]
  /\ UNCHANGED <<storeVars, retryVars, socketVars, normalizing, demo>>

----------------------------------------------------------------------------
(* The list of connections, demos and restarts *)

SaveConnection(c) ==
  /\ listed' = listed \cup {c}
  /\ endpoint' = c
  /\ status' = IF activeConnection = NoConn THEN "idle" ELSE status
  /\ UNCHANGED <<socket, activeSession, activeConnection, isConnected, connStatus>>
  /\ UNCHANGED <<retryVars, socketVars, trafficVars, demo>>

ChooseEndpoint(c) ==         \* selectConnection and setEndpointUrl
  /\ endpoint' = c
  /\ UNCHANGED <<socket, activeSession, activeConnection, status, isConnected, listed, connStatus>>
  /\ UNCHANGED <<retryVars, socketVars, trafficVars, demo>>

ClearHistory ==
  /\ listed' = listed \cap {activeConnection}
  /\ connStatus' = [c \in Conns |-> IF c \in listed' THEN connStatus[c] ELSE "idle"]
  /\ UNCHANGED <<socket, activeSession, activeConnection, endpoint, status, isConnected>>
  /\ UNCHANGED <<retryVars, socketVars, trafficVars, demo>>

StartDemo ==                 \* as the buttons and startDemoStream allow it
  /\ ~demo /\ ~isConnected /\ status # "connecting"
  /\ demo' = TRUE
  /\ UNCHANGED <<storeVars, retryVars, socketVars, trafficVars>>

StopDemo ==
  /\ demo
  /\ demo' = FALSE
  /\ UNCHANGED <<storeVars, retryVars, socketVars, trafficVars>>

RestoreAsSaved(st) == st     \* faulty: the list comes back as it was stored

Sanitize(st) == IF st \in Unfinished THEN "disconnected" ELSE st   \* sanitizeConnection

(***************************************************************************)
(* The window closes or reloads, with a last dispose(), or the program     *)
(* crashes.  It starts again from what it persisted: the list, if the user *)
(* wants it persisted, and the endpoint.                                   *)
(***************************************************************************)
Restart ==
  /\ socket' = NoAttempt
  /\ activeSession' = NoAttempt
  /\ activeConnection' = NoConn
  /\ status' = "idle"
  /\ isConnected' = FALSE
  /\ listed' \in {listed, {}}
  /\ connStatus' = [c \in Conns |-> IF c \in listed' THEN Sanitize(connStatus[c]) ELSE "idle"]
  /\ ready' = [a \in Attempts |-> IF a <= attempts THEN "closed" ELSE "none"]
  /\ owner' = [a \in Attempts |-> NoConn]
  /\ attached' = {}
  /\ session' = [a \in Attempts |-> IF a <= attempts THEN "forgotten" ELSE "none"]
  /\ cooling' = FALSE
  /\ waiting' = [c \in Conns |-> 0]
  /\ normalizing' = [a \in Attempts |-> 0]
  /\ packets' = [a \in Attempts |-> 0]
  /\ demo' = FALSE
  /\ replaced' = {}
  /\ UNCHANGED <<endpoint, attempts>>

----------------------------------------------------------------------------

HandshakeEnds(a) == Opened(a) \/ (ready[a] = "connecting" /\ Failed(a))

UserSteps(c) == Connect(c) \/ Reconnect(c) \/ SaveConnection(c) \/ ChooseEndpoint(c)

SocketEvents(a) ==
  \/ Opened(a)
  \/ StartsClosing(a)
  \/ \E clean \in BOOLEAN : Closed(a, clean)
  \/ Failed(a)
  \/ Message(a)
  \/ Normalized(a)

Next ==
  \/ \E c \in Conns : UserSteps(c) \/ DelayOver(c)
  \/ Connect(NoConn)
  \/ Disconnect
  \/ SendMessage
  \/ \E a \in Attempts : SocketEvents(a)
  \/ CooledDown
  \/ ClearHistory
  \/ StartDemo
  \/ StopDemo
  \/ Restart

Spec == Init /\ [][Next]_vars

(***************************************************************************)
(* The browser ends every opening handshake, one way or the other.         *)
(***************************************************************************)
FairSpec == Spec /\ \A a \in Attempts : WF_vars(HandshakeEnds(a))

----------------------------------------------------------------------------

(***************************************************************************)
(* However connects, reconnects, delays and events interleave, a socket    *)
(* that is open or opening is the one the store holds, with its handlers:  *)
(* no second connection, and none that runs on unseen.                     *)
(***************************************************************************)
LiveSocketIsCurrent ==
  \A a \in Attempts : Live(a) => Current(a) /\ a \in attached

(***************************************************************************)
(* isConnected, which enables sending, replay and the proxy, is true       *)
(* exactly while the socket has opened and not yet reported its end, and   *)
(* then status, active connection and session say the same.                *)
(***************************************************************************)
ConnectedMeansOpened ==
  /\ isConnected <=> socket # NoAttempt /\ ready[socket] \in {"open", "closing"}
  /\ isConnected =>
       /\ status = "connected"
       /\ activeConnection = owner[socket]
       /\ activeSession = socket /\ session[socket] = "connected"

(***************************************************************************)
(* A session that is shown as going on belongs to the current attempt or   *)
(* to one whose socket was closing when another connect() replaced it, and *)
(* only such a session can be left over.                                   *)
(***************************************************************************)
SessionsEndUnlessReplaced ==
  \A a \in Attempts : session[a] \in Unfinished => a = activeSession \/ a \in replaced

(***************************************************************************)
(* The list shows a connection as connecting or connected only for such a  *)
(* session, also after a restart from what was persisted.                  *)
(***************************************************************************)
ListedStatusIsBacked ==
  \A c \in listed : connStatus[c] \in Unfinished =>
    \E a \in Attempts : owner[a] = c /\ session[a] \in Unfinished

(***************************************************************************)
(* A session that has ended gets no more packets: neither a frame whose    *)
(* text took longer to read than the connection lived, nor a late send.    *)
(***************************************************************************)
NoPacketAfterTheEnd ==
  [][\A a \in Attempts : packets'[a] > packets[a] => session[a] \in Unfinished]_vars

(***************************************************************************)
(* No session is left connecting: whatever the user does meanwhile, it is  *)
(* told how its handshake ended or that it was given up.                   *)
(***************************************************************************)
EverySessionDecided ==
  \A a \in Attempts : session[a] = "connecting" ~> session[a] # "connecting"

----------------------------------------------------------------------------
(* What the documentation says *)

(***************************************************************************)
(* docs/function-inventory.md: "On `close`, close the session and set      *)
(* disconnected state."  A socket that has closed has no session that is   *)
(* still shown as connected.                                               *)
(***************************************************************************)
CloseEndsSession ==
  \A a \in Attempts : ready[a] = "closed" => session[a] \notin Unfinished

=============================================================================

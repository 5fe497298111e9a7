---------------------------- MODULE DirectProofs ----------------------------
(***************************************************************************)
(* Theorems about DirectConnection, for any endpoints and any number of    *)
(* attempts, frames and waiting reconnects.                                *)
(*                                                                         *)
(* The store's fields and the sockets change in a few ways only, whoever   *)
(* causes them; frames, timers and demos do not touch them.  The argument  *)
(* about the connection is therefore made for those steps (ConnectionStep) *)
(* and a predicate of those variables (ConnectionInv).                     *)
(***************************************************************************)
EXTENDS DirectConnection, TLAPS

LEMMA BoundsAreNat == MaxAttempts \in Nat /\ MaxFrames \in Nat /\ MaxReconnects \in Nat
BY BoundsAssumption

----------------------------------------------------------------------------
(* What can happen to the connection *)

ConnectionTypes ==
  /\ socket \in {NoAttempt} \cup Attempts
  /\ activeSession \in {NoAttempt} \cup Attempts
  /\ activeConnection \in Conns \cup {NoConn}
  /\ endpoint \in Conns
  /\ status \in ConnStatuses
  /\ listed \subseteq Conns
  /\ connStatus \in [Conns -> ConnStatuses]
  /\ attempts \in 0 .. MaxAttempts
  /\ owner \in [Attempts -> Conns \cup {NoConn}]
  /\ ready \in [Attempts -> {"none", "connecting", "open", "closing", "closed"}]
  /\ attached \subseteq Attempts
  /\ session \in [Attempts -> SessionStatuses]
  /\ replaced \subseteq Attempts

UnlistedIdle == \A c \in Conns \ listed : connStatus[c] = "idle"

EndsSomehow(a) ==            \* onclose or onerror, or neither where they are detached
  /\ ready[a] \in {"connecting", "open", "closing"}
  /\ \/ Detached(a, "closed")
     \/ a \in attached /\ \E st \in {"error", "disconnected"} : Ends(a, st)

ListStep ==                  \* saving, choosing an endpoint, clearing the list
  /\ UNCHANGED <<socket, activeSession, activeConnection, isConnected, socketVars>>
  /\ endpoint' \in Conns
  /\ status' = status \/ (status' = "idle" /\ activeConnection = NoConn)
  /\ listed' \subseteq Conns
  /\ connStatus' \in [Conns -> ConnStatuses]
  /\ \A c \in Conns : connStatus'[c] \in {connStatus[c], "idle"}
  /\ UnlistedIdle'

ConnectionStep ==
  \/ UNCHANGED <<storeVars, socketVars>>
  \/ \E c \in Conns \cup {NoConn} : ConnectTo(c)
  \/ GiveUp
  \/ \E a \in Attempts : Opened(a) \/ StartsClosing(a) \/ EndsSomehow(a)
  \/ ListStep
  \/ Restart

LEMMA StepsOfTheConnection ==
  ASSUME ConnectionTypes, UnlistedIdle, [Next]_vars
  PROVE  ConnectionStep
<1> USE DEF ConnectionStep
<1>1. CASE UNCHANGED vars
  BY <1>1 DEF vars
<1>2. ASSUME NEW c \in Conns, Connect(c) \/ Reconnect(c) \/ DelayOver(c) PROVE ConnectionStep
  BY <1>2 DEF Connect, Reconnect, DelayOver
<1>3. CASE Connect(NoConn) \/ Disconnect
  BY <1>3 DEF Connect, Disconnect
<1>4. ASSUME NEW c \in Conns, SaveConnection(c) \/ ChooseEndpoint(c) PROVE ConnectionStep
  <2>1. ListStep
    BY <1>4 DEF SaveConnection, ChooseEndpoint, ListStep, ConnectionTypes, UnlistedIdle
  <2> QED  BY <2>1
<1>5. CASE ClearHistory
  <2>1. connStatus' \in [Conns -> ConnStatuses]
    BY <1>5 DEF ClearHistory, ConnectionTypes, ConnStatuses
  <2>2. ListStep
    BY <1>5, <2>1 DEF ClearHistory, ListStep, ConnectionTypes, UnlistedIdle
  <2> QED  BY <2>2
<1>6. ASSUME NEW a \in Attempts, Opened(a) \/ StartsClosing(a) PROVE ConnectionStep
  BY <1>6
<1>7. ASSUME NEW a \in Attempts, NEW clean \in BOOLEAN, Closed(a, clean) \/ Failed(a)
      PROVE  ConnectionStep
  <2>1. EndsSomehow(a)
    BY <1>7 DEF Closed, Failed, EndsSomehow
  <2> QED  BY <2>1
<1>8. ASSUME NEW a \in Attempts, Message(a) \/ Normalized(a) PROVE ConnectionStep
  BY <1>8 DEF Message, Normalized
<1>9. CASE SendMessage \/ CooledDown \/ StartDemo \/ StopDemo \/ Restart
  BY <1>9 DEF SendMessage, CooledDown, StartDemo, StopDemo
<1> QED
  BY <1>1, <1>2, <1>3, <1>4, <1>5, <1>6, <1>7, <1>8, <1>9 DEF Next, UserSteps, SocketEvents

----------------------------------------------------------------------------
(* The invariant of the connection *)

(***************************************************************************)
(* A held socket is the active attempt's, has its handlers, and all of the *)
(* store's flags and its session tell how far it got.                      *)
(***************************************************************************)
HeldSocket ==
  /\ socket # NoAttempt =>
       /\ activeSession = socket
       /\ ready[socket] \in {"connecting", "open", "closing"}
       /\ owner[socket] \in Conns
       /\ status = IF ready[socket] = "connecting" THEN "connecting" ELSE "connected"
       /\ session[socket] = status
  /\ isConnected = (socket # NoAttempt /\ ready[socket] # "connecting")

HandlersOfHeldSocket == attached = {socket} \ {NoAttempt}

LiveIsHeld == \A a \in Attempts : Live(a) => socket = a

(***************************************************************************)
(* An active session without a socket is what a failed connect() leaves    *)
(* after it dropped a closing socket.                                      *)
(***************************************************************************)
ActiveSession ==
  activeSession # NoAttempt =>
    /\ activeConnection = owner[activeSession]
    /\ socket = NoAttempt => activeSession \in replaced

AttemptsSoFar ==
  /\ socket <= attempts /\ activeSession <= attempts
  /\ \A a \in Attempts : a > attempts => ready[a] = "none" /\ session[a] = "none"

ConnectionInv ==
  /\ ConnectionTypes
  /\ HeldSocket
  /\ HandlersOfHeldSocket
  /\ LiveIsHeld
  /\ ActiveSession
  /\ AttemptsSoFar
  /\ SessionsEndUnlessReplaced
  /\ UnlistedIdle
  /\ ListedStatusIsBacked

LEMMA ConnectionInit == Init => ConnectionInv
<1> SUFFICES ASSUME Init PROVE ConnectionInv
  OBVIOUS
<1> USE DEF Init, NoAttempt
<1>1. ConnectionTypes
  BY BoundsAreNat DEF ConnectionTypes, ConnStatuses, SessionStatuses
<1>2. HeldSocket /\ HandlersOfHeldSocket
  BY DEF HeldSocket, HandlersOfHeldSocket
<1>3. LiveIsHeld /\ SessionsEndUnlessReplaced
  BY DEF LiveIsHeld, Live, SessionsEndUnlessReplaced, Unfinished
<1>4. ActiveSession /\ UnlistedIdle /\ ListedStatusIsBacked
  BY DEF ActiveSession, UnlistedIdle, ListedStatusIsBacked
<1>5. AttemptsSoFar
  BY DEF AttemptsSoFar
<1> QED
  BY <1>1, <1>2, <1>3, <1>4, <1>5 DEF ConnectionInv

LEMMA ConnectFailsKeeps ==
  ASSUME ConnectionInv, NEW c \in Conns \cup {NoConn}, ~Live(socket), ConnectFails(c)
  PROVE  ConnectionInv'
<1> USE DEF ConnectionInv, ConnectFails
<1>1. ConnectionTypes'
  BY DEF ConnectionTypes, PatchConnection, DropClosingSocket, NoAttempt, ConnStatuses
<1>2. HeldSocket'
  BY DEF HeldSocket
<1>3. HandlersOfHeldSocket'
  BY DEF HandlersOfHeldSocket, HeldSocket
<1>4. LiveIsHeld'
  BY DEF LiveIsHeld, Live, HeldSocket
<1>5. ActiveSession'
  BY DEF ActiveSession, HeldSocket, DropClosingSocket
<1>6. AttemptsSoFar'
  BY BoundsAreNat DEF AttemptsSoFar, ConnectionTypes, NoAttempt
<1>7. SessionsEndUnlessReplaced'
  BY DEF SessionsEndUnlessReplaced, DropClosingSocket
<1>8. UnlistedIdle' /\ ListedStatusIsBacked'
  BY NoConnAssumption DEF UnlistedIdle, ListedStatusIsBacked, PatchConnection, ConnectionTypes, Unfinished
<1> QED
  BY <1>1, <1>2, <1>3, <1>4, <1>5, <1>6, <1>7, <1>8

LEMMA OpenSocketKeeps ==
  ASSUME ConnectionInv, NEW c \in Conns \cup {NoConn}, ~Live(socket), OpenSocket(c)
  PROVE  ConnectionInv'
<1> DEFINE a == attempts + 1
           t == IF c \in listed THEN c ELSE endpoint
<1> USE DEF ConnectionInv
<1>0. /\ a \in Attempts /\ a # NoAttempt /\ a > attempts
      /\ t \in Conns
      /\ ready[a] = "none" /\ session[a] = "none"
  BY BoundsAreNat DEF OpenSocket, ConnectionTypes, Attempts, NoAttempt, AttemptsSoFar
<1>1. /\ attempts' = a
      /\ owner' = [owner EXCEPT ![a] = t]
      /\ ready' = [ready EXCEPT ![a] = "connecting"]
      /\ attached' = (attached \ {socket}) \cup {a}
      /\ session' = [session EXCEPT ![a] = "connecting"]
      /\ socket' = a /\ activeSession' = a /\ activeConnection' = t
      /\ endpoint' = t
      /\ listed' = listed \cup {t}
      /\ connStatus' = [connStatus EXCEPT ![t] = "connecting"]
      /\ status' = "connecting"
      /\ isConnected' = FALSE
      /\ DropClosingSocket
  BY DEF OpenSocket
<1> HIDE DEF a, t
<1>2. ConnectionTypes'
  BY <1>0, <1>1, BoundsAreNat
     DEF ConnectionTypes, DropClosingSocket, NoAttempt, ConnStatuses, SessionStatuses, Attempts
<1>3. HeldSocket'
  BY <1>0, <1>1 DEF HeldSocket, ConnectionTypes
<1>4. HandlersOfHeldSocket'
  BY <1>0, <1>1 DEF HandlersOfHeldSocket
<1>5. LiveIsHeld'
  BY <1>0, <1>1 DEF LiveIsHeld, Live, ConnectionTypes
<1>6. ActiveSession'
  BY <1>0, <1>1 DEF ActiveSession, ConnectionTypes
<1>7. AttemptsSoFar'
  BY <1>0, <1>1, BoundsAreNat DEF AttemptsSoFar, ConnectionTypes, Attempts, NoAttempt, a
<1>8. SessionsEndUnlessReplaced'
  <2> SUFFICES ASSUME NEW b \in Attempts, b # a, session[b] \in Unfinished
               PROVE  b \in replaced'
    BY <1>1 DEF SessionsEndUnlessReplaced, ConnectionTypes
  <2>1. b \in replaced \/ b = activeSession
    BY DEF SessionsEndUnlessReplaced
  <2>2. b # NoAttempt
    BY DEF Attempts, NoAttempt
  <2>3. b = activeSession => b \in replaced \/ b = socket
    BY <2>2 DEF HeldSocket, ActiveSession
  <2> QED
    BY <1>1, <2>1, <2>2, <2>3 DEF DropClosingSocket
<1>9. UnlistedIdle'
  BY <1>0, <1>1 DEF UnlistedIdle, ConnectionTypes
<1>10. ListedStatusIsBacked'
  <2> SUFFICES ASSUME NEW d \in listed', connStatus'[d] \in Unfinished
               PROVE  \E b \in Attempts : owner'[b] = d /\ session'[b] \in Unfinished
    BY DEF ListedStatusIsBacked
  <2>1. CASE d = t
    BY <1>0, <1>1, <2>1 DEF ConnectionTypes, Unfinished
  <2>2. CASE d # t
    <3>1. PICK b \in Attempts : owner[b] = d /\ session[b] \in Unfinished
      BY <1>0, <1>1, <2>2 DEF ListedStatusIsBacked, ConnectionTypes
    <3>2. b # a
      BY <1>0, <3>1 DEF Unfinished
    <3> QED  BY <1>0, <1>1, <3>1, <3>2 DEF ConnectionTypes
  <2> QED  BY <2>1, <2>2
<1> QED
  BY <1>2, <1>3, <1>4, <1>5, <1>6, <1>7, <1>8, <1>9, <1>10

LEMMA GiveUpKeeps ==
  ASSUME ConnectionInv, GiveUp
  PROVE  ConnectionInv'
<1> USE DEF ConnectionInv, GiveUp, LetGo
<1>1. ConnectionTypes'
  <2>1. ready' \in [Attempts -> {"none", "connecting", "open", "closing", "closed"}]
    BY DEF ConnectionTypes, CleanUp
  <2>2. session' \in [Attempts -> SessionStatuses]
    BY DEF ConnectionTypes, UpdateSession, SessionStatuses
  <2>3. connStatus' \in [Conns -> ConnStatuses] /\ status' \in ConnStatuses
    BY DEF ConnectionTypes, PatchConnection, ConnStatuses
  <2> QED
    BY <2>1, <2>2, <2>3 DEF ConnectionTypes, CleanUp
<1>2. HeldSocket' /\ ActiveSession'
  BY DEF HeldSocket, ActiveSession
<1>3. HandlersOfHeldSocket'
  BY DEF HandlersOfHeldSocket, CleanUp
<1>4. LiveIsHeld'
  BY DEF LiveIsHeld, Live, CleanUp, ConnectionTypes
<1>5. AttemptsSoFar'
  BY BoundsAreNat
     DEF AttemptsSoFar, ConnectionTypes, CleanUp, UpdateSession, NoAttempt, Attempts
<1>6. SessionsEndUnlessReplaced'
  BY DEF SessionsEndUnlessReplaced, UpdateSession, ConnectionTypes, Unfinished
<1>7. UnlistedIdle'
  BY DEF UnlistedIdle, PatchConnection, ConnectionTypes
<1>8. ListedStatusIsBacked'
  <2> SUFFICES ASSUME NEW d \in listed, connStatus'[d] \in Unfinished
               PROVE  \E b \in Attempts : owner[b] = d /\ session'[b] \in Unfinished
    BY DEF ListedStatusIsBacked
  <2>1. d # activeConnection /\ connStatus'[d] = connStatus[d]
    BY DEF PatchConnection, ConnectionTypes, Unfinished
  <2>2. PICK b \in Attempts : owner[b] = d /\ session[b] \in Unfinished
    BY <2>1 DEF ListedStatusIsBacked
  <2>3. b # activeSession
    BY <2>1, <2>2 DEF ActiveSession, Attempts, NoAttempt
  <2> QED  BY <2>2, <2>3 DEF UpdateSession, ConnectionTypes
<1> QED
  BY <1>1, <1>2, <1>3, <1>4, <1>5, <1>6, <1>7, <1>8

LEMMA OpenedKeeps ==
  ASSUME ConnectionInv, NEW a \in Attempts, Opened(a)
  PROVE  ConnectionInv'
<1> USE DEF ConnectionInv
<1>1. CASE Detached(a, "open")
  <2>1. a # socket
    BY <1>1 DEF Detached, HandlersOfHeldSocket, Attempts, NoAttempt
  <2>2. FALSE
    BY <2>1 DEF Opened, LiveIsHeld, Live, Attempts, NoAttempt
  <2> QED  BY <2>2
<1>2. CASE a \in attached /\ ~Current(a)
  BY <1>2 DEF HandlersOfHeldSocket, HeldSocket, Current
<1>3. CASE /\ a \in attached /\ Current(a)
           /\ ready' = [ready EXCEPT ![a] = "open"]
           /\ activeConnection' = owner[a]
           /\ PatchConnection(owner[a], "connected")
           /\ isConnected' = TRUE
           /\ status' = "connected"
           /\ UpdateSession(a, "connected")
           /\ UNCHANGED <<socket, activeSession, endpoint, listed, attempts, owner, attached,
                          replaced>>
  <2> USE <1>3
  <2>1. /\ a # NoAttempt /\ socket = a /\ activeSession = a /\ owner[a] \in Conns
        /\ ready[a] = "connecting" /\ session[a] = "connecting"
        /\ session' = [session EXCEPT ![a] = "connected"]
    BY DEF Opened, Current, HeldSocket, UpdateSession, Attempts, NoAttempt
  <2>2. ConnectionTypes'
    BY <2>1 DEF ConnectionTypes, PatchConnection, ConnStatuses, SessionStatuses
  <2>3. HeldSocket'
    BY <2>1 DEF HeldSocket, ConnectionTypes
  <2>4. HandlersOfHeldSocket' /\ LiveIsHeld' /\ ActiveSession'
    BY <2>1 DEF HandlersOfHeldSocket, LiveIsHeld, Live, ActiveSession, ConnectionTypes
  <2>5. AttemptsSoFar'
    BY <2>1 DEF AttemptsSoFar, ConnectionTypes
  <2>6. SessionsEndUnlessReplaced'
    BY <2>1 DEF SessionsEndUnlessReplaced, ConnectionTypes
  <2>7. UnlistedIdle'
    BY <2>1 DEF UnlistedIdle, PatchConnection, ConnectionTypes
  <2>8. ListedStatusIsBacked'
    BY <2>1 DEF ListedStatusIsBacked, PatchConnection, ConnectionTypes, Unfinished
  <2> QED
    BY <2>2, <2>3, <2>4, <2>5, <2>6, <2>7, <2>8
<1> QED
  BY <1>1, <1>2, <1>3 DEF Opened

LEMMA StartsClosingKeeps ==
  ASSUME ConnectionInv, NEW a \in Attempts, StartsClosing(a)
  PROVE  ConnectionInv'
<1> USE DEF ConnectionInv, StartsClosing, storeVars
<1>0. /\ a # NoAttempt /\ socket = a
      /\ ready' = [ready EXCEPT ![a] = "closing"]
      /\ ready[a] = "open"
  BY DEF LiveIsHeld, Live, Attempts, NoAttempt
<1>1. ConnectionTypes'
  BY DEF ConnectionTypes
<1>2. HeldSocket'
  BY <1>0 DEF HeldSocket, ConnectionTypes
<1>3. HandlersOfHeldSocket' /\ LiveIsHeld' /\ ActiveSession'
  BY <1>0 DEF HandlersOfHeldSocket, LiveIsHeld, Live, ActiveSession, ConnectionTypes
<1>4. AttemptsSoFar'
  BY <1>0 DEF AttemptsSoFar, ConnectionTypes
<1>5. SessionsEndUnlessReplaced' /\ UnlistedIdle' /\ ListedStatusIsBacked'
  BY DEF SessionsEndUnlessReplaced, UnlistedIdle, ListedStatusIsBacked
<1> QED
  BY <1>1, <1>2, <1>3, <1>4, <1>5

LEMMA EndsSomehowKeeps ==
  ASSUME ConnectionInv, NEW a \in Attempts, EndsSomehow(a)
  PROVE  ConnectionInv'
<1> USE DEF ConnectionInv
<1>0. a # NoAttempt /\ a <= attempts
  BY BoundsAreNat DEF EndsSomehow, AttemptsSoFar, ConnectionTypes, Attempts, NoAttempt
<1>1. CASE Detached(a, "closed")
  <2> USE <1>1 DEF Detached, storeVars
  <2>1. socket # a
    BY <1>0 DEF HandlersOfHeldSocket
  <2>2. ConnectionTypes'
    BY DEF ConnectionTypes
  <2>3. HeldSocket' /\ HandlersOfHeldSocket'
    BY <2>1 DEF HeldSocket, HandlersOfHeldSocket, ConnectionTypes
  <2>4. LiveIsHeld' /\ ActiveSession'
    BY DEF LiveIsHeld, Live, ActiveSession, ConnectionTypes
  <2>5. AttemptsSoFar'
    BY <1>0, BoundsAreNat DEF AttemptsSoFar, ConnectionTypes, Attempts
  <2>6. SessionsEndUnlessReplaced' /\ UnlistedIdle' /\ ListedStatusIsBacked'
    BY DEF SessionsEndUnlessReplaced, UnlistedIdle, ListedStatusIsBacked
  <2> QED
    BY <2>2, <2>3, <2>4, <2>5, <2>6
<1>2. ASSUME a \in attached, NEW st \in {"error", "disconnected"}, Ends(a, st)
      PROVE  ConnectionInv'
  <2> DEFINE over == IF st = "error" THEN "error" ELSE "closed"
  <2>1. socket = a /\ activeSession = a /\ owner[a] \in Conns
    BY <1>0, <1>2 DEF HandlersOfHeldSocket, HeldSocket
  <2>2. /\ ready' = [ready EXCEPT ![a] = "closed"]
        /\ attached' = attached \ {a}
        /\ session' = [session EXCEPT ![a] = over]
        /\ PatchConnection(owner[a], st)
        /\ LetGo
        /\ status' = st
        /\ UNCHANGED <<attempts, owner, replaced>>
    BY <1>0, <1>2, <2>1 DEF Ends, Current, UpdateSession
  <2>3. over \in {"error", "closed"}
    OBVIOUS
  <2> HIDE DEF over
  <2> USE <2>1, <2>2, <2>3 DEF LetGo
  <2>4. ConnectionTypes'
    BY DEF ConnectionTypes, PatchConnection, ConnStatuses, SessionStatuses
  <2>5. HeldSocket' /\ ActiveSession' /\ HandlersOfHeldSocket'
    BY DEF HeldSocket, ActiveSession, HandlersOfHeldSocket
  <2>6. LiveIsHeld'
    BY DEF LiveIsHeld, Live, ConnectionTypes
  <2>7. AttemptsSoFar'
    BY <1>0, BoundsAreNat DEF AttemptsSoFar, ConnectionTypes, Attempts, NoAttempt
  <2>8. SessionsEndUnlessReplaced'
    BY DEF SessionsEndUnlessReplaced, ConnectionTypes, Unfinished
  <2>9. UnlistedIdle'
    BY DEF UnlistedIdle, PatchConnection, ConnectionTypes
  <2>10. ListedStatusIsBacked'
    <3> SUFFICES ASSUME NEW d \in listed, connStatus'[d] \in Unfinished
                 PROVE  \E b \in Attempts : owner[b] = d /\ session'[b] \in Unfinished
      BY DEF ListedStatusIsBacked
    <3>1. d # owner[a] /\ connStatus'[d] = connStatus[d]
      BY DEF PatchConnection, ConnectionTypes, Unfinished
    <3>2. PICK b \in Attempts : owner[b] = d /\ session[b] \in Unfinished
      BY <3>1 DEF ListedStatusIsBacked
    <3> QED  BY <3>1, <3>2 DEF ConnectionTypes
  <2> QED
    BY <2>4, <2>5, <2>6, <2>7, <2>8, <2>9, <2>10
<1> QED
  BY <1>1, <1>2 DEF EndsSomehow

LEMMA ListStepKeeps ==
  ASSUME ConnectionInv, ListStep
  PROVE  ConnectionInv'
<1> USE DEF ConnectionInv, ListStep, socketVars
<1>1. ConnectionTypes'
  BY DEF ConnectionTypes, ConnStatuses
<1>2. HeldSocket'
  BY NoConnAssumption DEF HeldSocket, ActiveSession, ConnectionTypes
<1>3. HandlersOfHeldSocket' /\ LiveIsHeld' /\ ActiveSession' /\ AttemptsSoFar'
  BY DEF HandlersOfHeldSocket, LiveIsHeld, Live, ActiveSession, AttemptsSoFar
<1>4. SessionsEndUnlessReplaced' /\ UnlistedIdle'
  BY DEF SessionsEndUnlessReplaced
<1>5. ListedStatusIsBacked'
  BY DEF ListedStatusIsBacked, UnlistedIdle, ConnectionTypes, Unfinished
<1> QED
  BY <1>1, <1>2, <1>3, <1>4, <1>5

LEMMA RestartKeeps ==
  ASSUME ConnectionInv, Restart
  PROVE  ConnectionInv'
<1> USE DEF ConnectionInv, Restart
<1>1. ConnectionTypes'
  <2>1. connStatus' \in [Conns -> ConnStatuses]
    BY DEF ConnectionTypes, Sanitize, ConnStatuses
  <2> QED
    BY <2>1 DEF ConnectionTypes, ConnStatuses, SessionStatuses, NoAttempt
<1>2. HeldSocket' /\ HandlersOfHeldSocket' /\ ActiveSession'
  BY DEF HeldSocket, HandlersOfHeldSocket, ActiveSession
<1>3. LiveIsHeld' /\ SessionsEndUnlessReplaced'
  BY DEF LiveIsHeld, Live, SessionsEndUnlessReplaced, Unfinished
<1>4. AttemptsSoFar'
  BY BoundsAreNat DEF AttemptsSoFar, ConnectionTypes, Attempts, NoAttempt
<1>5. UnlistedIdle' /\ ListedStatusIsBacked'
  BY DEF UnlistedIdle, ListedStatusIsBacked, Sanitize, ConnectionTypes, Unfinished
<1> QED
  BY <1>1, <1>2, <1>3, <1>4, <1>5

LEMMA ConnectionKept == ConnectionInv /\ [Next]_vars => ConnectionInv'
<1> SUFFICES ASSUME ConnectionInv, [Next]_vars PROVE ConnectionInv'
  OBVIOUS
<1>1. ConnectionStep
  BY StepsOfTheConnection DEF ConnectionInv
<1>2. CASE UNCHANGED <<storeVars, socketVars>>
  BY <1>2 DEF storeVars, socketVars, ConnectionInv, ConnectionTypes, HeldSocket,
     HandlersOfHeldSocket, LiveIsHeld, Live, ActiveSession, AttemptsSoFar,
     SessionsEndUnlessReplaced, UnlistedIdle, ListedStatusIsBacked
<1>3. ASSUME NEW c \in Conns \cup {NoConn}, ConnectTo(c) PROVE ConnectionInv'
  BY <1>2, <1>3, ConnectFailsKeeps, OpenSocketKeeps DEF ConnectTo, Refused
<1>4. ASSUME NEW a \in Attempts, Opened(a) \/ StartsClosing(a) \/ EndsSomehow(a)
      PROVE  ConnectionInv'
  BY <1>4, OpenedKeeps, StartsClosingKeeps, EndsSomehowKeeps
<1> QED
  BY <1>1, <1>2, <1>3, <1>4, GiveUpKeeps, ListStepKeeps, RestartKeeps DEF ConnectionStep

LEMMA ConnectionCorrect == Spec => []ConnectionInv
BY ConnectionInit, ConnectionKept, PTL DEF Spec

(***************************************************************************)
(* Whatever the user, the timers, the server and the browser do, and in    *)
(* whatever order: an open or opening socket is the one the store holds    *)
(* and hears from.                                                         *)
(***************************************************************************)
THEOREM LiveSocketCorrect == Spec => []LiveSocketIsCurrent
<1>1. ConnectionInv => LiveSocketIsCurrent
  BY DEF ConnectionInv, LiveIsHeld, HeldSocket, HandlersOfHeldSocket, LiveSocketIsCurrent,
         Live, Current
<1> QED
  BY <1>1, ConnectionCorrect, PTL

(***************************************************************************)
(* The flags that the rest of the program goes by are truthful.            *)
(***************************************************************************)
THEOREM ConnectedCorrect == Spec => []ConnectedMeansOpened
<1>1. ASSUME ConnectionInv PROVE ConnectedMeansOpened
  <2> USE <1>1 DEF ConnectionInv
  <2>1. isConnected <=> socket # NoAttempt /\ ready[socket] \in {"open", "closing"}
    BY DEF HeldSocket
  <2>2. ASSUME isConnected
        PROVE  /\ status = "connected"
               /\ activeConnection = owner[socket]
               /\ activeSession = socket /\ session[socket] = "connected"
    BY <2>2 DEF HeldSocket, ActiveSession
  <2> QED
    BY <2>1, <2>2 DEF ConnectedMeansOpened
<1> QED
  BY <1>1, ConnectionCorrect, PTL

(***************************************************************************)
(* A session that goes on without being the active one had its closing     *)
(* socket dropped by another connect().                                    *)
(***************************************************************************)
THEOREM SessionsCorrect == Spec => []SessionsEndUnlessReplaced
<1>1. ConnectionInv => SessionsEndUnlessReplaced
  BY DEF ConnectionInv
<1> QED
  BY <1>1, ConnectionCorrect, PTL

(***************************************************************************)
(* The list of connections, also the one restored from disk, shows as      *)
(* going on only what has a session that does.                             *)
(***************************************************************************)
THEOREM ListCorrect == Spec => []ListedStatusIsBacked
<1>1. ConnectionInv => ListedStatusIsBacked
  BY DEF ConnectionInv
<1> QED
  BY <1>1, ConnectionCorrect, PTL

----------------------------------------------------------------------------
(* Frames *)

(***************************************************************************)
(* Packets come from a frame of the current attempt, after its text has    *)
(* been read, or from a send on its socket; both ask for it in the step    *)
(* that records the packet.                                                *)
(***************************************************************************)
LEMMA PacketsOfUnfinished ==
  ASSUME ConnectionInv, NEW a \in Attempts, [Next]_vars,
         packets \in [Attempts -> 0 .. MaxFrames], packets'[a] > packets[a]
  PROVE  session[a] \in Unfinished
<1> USE BoundsAreNat DEF ConnectionInv
<1>1. socket # NoAttempt => session[socket] \in Unfinished
  BY DEF HeldSocket, Unfinished
<1>2. packets' # packets
  OBVIOUS
<1>3. ASSUME NEW b \in Attempts, Normalized(b) PROVE session[a] \in Unfinished
  <2>1. Current(b) /\ packets' = [packets EXCEPT ![b] = @ + 1]
    BY <1>2, <1>3 DEF Normalized
  <2>2. a = b
    BY <2>1
  <2> QED
    BY <1>1, <2>1, <2>2 DEF Current, Attempts, NoAttempt
<1>4. CASE SendMessage
  <2>1. /\ socket # NoAttempt /\ activeSession = socket
        /\ packets' = [packets EXCEPT ![activeSession] = @ + 1]
    BY <1>4 DEF SendMessage, HeldSocket
  <2>2. a = socket
    BY <2>1
  <2> QED
    BY <1>1, <2>1, <2>2
<1>5. CASE Restart
  BY <1>5 DEF Restart
<1>6. CASE UNCHANGED vars
  BY <1>2, <1>6 DEF vars, trafficVars
<1>7. ASSUME NEW c \in Conns, UserSteps(c) \/ DelayOver(c) PROVE FALSE
  BY <1>2, <1>7 DEF UserSteps, Connect, Reconnect, SaveConnection, ChooseEndpoint, DelayOver,
     trafficVars
<1>8. CASE Connect(NoConn) \/ Disconnect \/ CooledDown \/ ClearHistory \/ StartDemo \/ StopDemo
  BY <1>2, <1>8 DEF Connect, Disconnect, CooledDown, ClearHistory, StartDemo, StopDemo, trafficVars
<1>9. ASSUME NEW b \in Attempts, SocketEvents(b), ~Normalized(b) PROVE FALSE
  BY <1>2, <1>9 DEF SocketEvents, Opened, StartsClosing, Closed, Failed, Message, trafficVars
<1> QED
  BY <1>3, <1>4, <1>5, <1>6, <1>7, <1>8, <1>9 DEF Next, SocketEvents

(***************************************************************************)
(* The other variables keep their types, because a frame counts as one     *)
(* from its arrival on, while it is read and after it was recorded.        *)
(***************************************************************************)
TrafficTypes ==
  /\ normalizing \in [Attempts -> 0 .. MaxFrames]
  /\ packets \in [Attempts -> 0 .. MaxFrames]
  /\ \A a \in Attempts : normalizing[a] + packets[a] <= MaxFrames
  /\ waiting \in [Conns -> 0 .. MaxReconnects]

FlagTypes == isConnected \in BOOLEAN /\ cooling \in BOOLEAN /\ demo \in BOOLEAN

LEMMA TrafficInit == Init => TrafficTypes /\ FlagTypes
<1> SUFFICES ASSUME Init PROVE TrafficTypes /\ FlagTypes
  OBVIOUS
<1>1. TrafficTypes
  BY BoundsAreNat DEF Init, TrafficTypes
<1>2. FlagTypes
  BY DEF Init, FlagTypes
<1> QED
  BY <1>1, <1>2

LEMMA TrafficKept ==
  ASSUME ConnectionTypes, TrafficTypes, [Next]_vars
  PROVE  TrafficTypes'
<1> USE BoundsAreNat DEF TrafficTypes, retryVars, trafficVars
<1>1. ASSUME NEW c \in Conns, UserSteps(c) PROVE TrafficTypes'
  <2>1. CASE Reconnect(c)
    BY <2>1 DEF Reconnect
  <2>2. CASE Connect(c) \/ SaveConnection(c) \/ ChooseEndpoint(c)
    BY <2>2 DEF Connect, SaveConnection, ChooseEndpoint
  <2> QED  BY <1>1, <2>1, <2>2 DEF UserSteps
<1>2. ASSUME NEW c \in Conns, DelayOver(c) PROVE TrafficTypes'
  BY <1>2 DEF DelayOver
<1>3. ASSUME NEW a \in Attempts, Message(a) PROVE TrafficTypes'
  BY <1>3 DEF Message
<1>4. ASSUME NEW a \in Attempts, Normalized(a) PROVE TrafficTypes'
  BY <1>4 DEF Normalized
<1>5. ASSUME NEW a \in Attempts,
             Opened(a) \/ StartsClosing(a) \/ Failed(a) \/ \E clean \in BOOLEAN : Closed(a, clean)
      PROVE  TrafficTypes'
  BY <1>5 DEF Opened, StartsClosing, Failed, Closed
<1>6. CASE SendMessage
  <2>1. activeSession \in Attempts
    BY <1>6 DEF SendMessage, ConnectionTypes
  <2> QED
    BY <1>6, <2>1 DEF SendMessage
<1>7. CASE Restart
  BY <1>7 DEF Restart
<1>8. CASE \/ Connect(NoConn) \/ Disconnect \/ CooledDown \/ ClearHistory
           \/ StartDemo \/ StopDemo \/ UNCHANGED vars
  BY <1>8 DEF Connect, Disconnect, CooledDown, ClearHistory, StartDemo, StopDemo, vars
<1> QED
  BY <1>1, <1>2, <1>3, <1>4, <1>5, <1>6, <1>7, <1>8 DEF Next, SocketEvents

LEMMA FlagsKept == ConnectionInv' /\ FlagTypes /\ [Next]_vars => FlagTypes'
<1> SUFFICES ASSUME ConnectionInv', FlagTypes, [Next]_vars PROVE FlagTypes'
  OBVIOUS
<1>1. isConnected' \in BOOLEAN
  BY DEF ConnectionInv, HeldSocket
<1>2. cooling' \in {cooling, TRUE, FALSE} /\ demo' \in {demo, TRUE, FALSE}
  BY DEF Next, vars, UserSteps, SocketEvents, Connect, Reconnect, SaveConnection, ChooseEndpoint,
     DelayOver, Disconnect, SendMessage, Opened, StartsClosing, Closed, Failed, Message,
     Normalized, CooledDown, ClearHistory, StartDemo, StopDemo, Restart, retryVars
<1> QED
  BY <1>1, <1>2 DEF FlagTypes

LEMMA AllCorrect == Spec => [](ConnectionInv /\ TrafficTypes /\ FlagTypes)
<1>1. ConnectionInv => ConnectionTypes
  BY DEF ConnectionInv
<1> QED
  BY <1>1, ConnectionInit, ConnectionKept, TrafficInit, TrafficKept, FlagsKept, PTL DEF Spec

(***************************************************************************)
(* Every variable keeps its type.                                          *)
(***************************************************************************)
THEOREM TypeCorrect == Spec => []TypeOK
<1>1. ConnectionInv /\ TrafficTypes /\ FlagTypes => TypeOK
  <2> SUFFICES ASSUME ConnectionInv, TrafficTypes, FlagTypes PROVE TypeOK
    OBVIOUS
  <2>1. isConnected \in BOOLEAN /\ cooling \in BOOLEAN /\ demo \in BOOLEAN
    BY DEF FlagTypes
  <2> QED
    BY <2>1 DEF ConnectionInv, ConnectionTypes, TrafficTypes, TypeOK
<1> QED
  BY <1>1, AllCorrect, PTL

(***************************************************************************)
(* No session that has ended gets another packet.                          *)
(***************************************************************************)
THEOREM PacketsCorrect == Spec => NoPacketAfterTheEnd
<1>1. ConnectionInv /\ TrafficTypes /\ [Next]_vars =>
        [\A a \in Attempts : packets'[a] > packets[a] => session[a] \in Unfinished]_vars
  BY PacketsOfUnfinished DEF TrafficTypes
<1> QED
  BY <1>1, AllCorrect, PTL DEF Spec, NoPacketAfterTheEnd

=============================================================================

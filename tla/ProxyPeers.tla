----------------------------- MODULE ProxyPeers -----------------------------
(***************************************************************************)
(* The proxy backend with peers that need not read what is written to      *)
(* them.  A forwarding connection has two loops (forward_messages), each   *)
(* named for the side it writes to.  A loop waits in its select for the    *)
(* next frame or the shutdown message, then in writer.send() for the peer; *)
(* what it sends is a frame or, after the shutdown, the close frame.  The  *)
(* connection's select ends with the first loop that returns.              *)
(*                                                                         *)
(* This is what the liveness of the backend depends on: clients and        *)
(* targets are not fair, the tasks of the runtime are.                     *)
(***************************************************************************)
EXTENDS Proxy

VARIABLES
  reading,   \* per connection: the sides that take what is written to them
  loop       \* per connection and side: "select", "writing" or "goodbye"

peersVars == <<vars, reading, loop>>

Sides == {"client", "target"}

AtSelect == [s \in Sides |-> "select"]

PeersInit ==
  /\ Init
  /\ reading = [c \in Conns |-> Sides]
  /\ loop = [c \in Conns |-> AtSelect]

----------------------------------------------------------------------------

StopsReading(c, s) ==
  /\ s \in reading[c]
  /\ reading' = [reading EXCEPT ![c] = @ \ {s}]
  /\ UNCHANGED <<vars, loop>>

ReadsAgain(c, s) ==
  /\ s \notin reading[c]
  /\ reading' = [reading EXCEPT ![c] = @ \cup {s}]
  /\ UNCHANGED <<vars, loop>>

LoopGoes(c, s, from, to) ==
  /\ conn[c] = "forwarding"
  /\ loop[c][s] = from
  /\ loop' = [loop EXCEPT ![c][s] = to]
  /\ UNCHANGED <<vars, reading>>

FrameRead(c, s) == LoopGoes(c, s, "select", "writing")

FrameWritten(c, s) == s \in reading[c] /\ LoopGoes(c, s, "writing", "select")

(***************************************************************************)
(* The shutdown branch of a loop's select, and its writer.send(Close),     *)
(* whose result is ignored; with that the loop returns, and the other one  *)
(* is dropped wherever it is.                                              *)
(***************************************************************************)
LoopHears(c, s) == heard[c] /\ LoopGoes(c, s, "select", "goodbye")

GoodbyeSaid(c, s) ==
  /\ conn[c] = "forwarding"
  /\ loop[c][s] = "goodbye"
  /\ s \in reading[c]
  /\ HeardShutdown(c)
  /\ loop' = [loop EXCEPT ![c] = AtSelect]
  /\ UNCHANGED reading

(***************************************************************************)
(* Before it forwards a connection hears the shutdown in the select of its *)
(* handshake or its dial and returns at once.                              *)
(***************************************************************************)
HearsEarly(c) ==
  /\ conn[c] \in {"handshake", "dialing"}
  /\ HeardShutdown(c)
  /\ UNCHANGED <<loop, reading>>

(***************************************************************************)
(* A read that fails or finds the end of the stream, a failed write and a  *)
(* forwarded close frame end forwarding wherever the loops are.            *)
(***************************************************************************)
OtherPeerSteps(c) ==
  /\ HandshakeDone(c) \/ TargetConnected(c) \/ ConnectFailed(c) \/ ForwardingEnds(c)
  /\ loop' = [loop EXCEPT ![c] = AtSelect]
  /\ UNCHANGED reading

LoopSteps(c, s) ==
  \/ FrameRead(c, s)
  \/ FrameWritten(c, s)
  \/ LoopHears(c, s)
  \/ GoodbyeSaid(c, s)

OwnPace ==
  \/ \E t \in Targets : Start(t)
  \/ StopTake
  \/ \E g \in Runs : StopSteps(g) \/ ListenerSteps(g)
  \/ \E g \in Runs, c \in Conns : Accept(g, c)
  \/ \E c \in Conns : TaskSteps(c)

PeersNext ==
  \/ OwnPace /\ UNCHANGED <<loop, reading>>
  \/ \E c \in Conns : HearsEarly(c) \/ OtherPeerSteps(c)
  \/ \E c \in Conns, s \in Sides :
       LoopSteps(c, s) \/ StopsReading(c, s) \/ ReadsAgain(c, s)

(***************************************************************************)
(* The runtime schedules every runnable task, so the steps of a stop()     *)
(* under way, of a listener told to end and of a connection's task are     *)
(* weakly fair.  A select polls its branches in random order, so a loop    *)
(* that comes back to it again and again while the message is there hears  *)
(* it.  A peer that comes back to reading again and again takes what was   *)
(* sent; nothing makes it come back, and nothing ends a frame's write or   *)
(* the close frame's but the peer.                                         *)
(***************************************************************************)
PeersFairness ==
  /\ \A g \in Runs : WF_peersVars(StopSteps(g) /\ UNCHANGED <<loop, reading>>)
  /\ \A g \in Runs : WF_peersVars(ListenerSteps(g) /\ UNCHANGED <<loop, reading>>)
  /\ \A c \in Conns : WF_peersVars(TaskSteps(c) /\ UNCHANGED <<loop, reading>>)
  /\ \A c \in Conns, s \in Sides :
       /\ SF_peersVars(LoopHears(c, s))
       /\ SF_peersVars(FrameWritten(c, s))
       /\ SF_peersVars(GoodbyeSaid(c, s))

PeersSpec == PeersInit /\ [][PeersNext]_peersVars /\ PeersFairness

----------------------------------------------------------------------------
(* Liveness *)

(***************************************************************************)
(* Once a stop() has taken a run's handles, that run's listener ends: no   *)
(* later client can be accepted on its port.                               *)
(***************************************************************************)
StoppedListenerEnds ==
  \A g \in Runs : (stopPc[g] # "none") ~> (listener[g] = "ended")

(***************************************************************************)
(* A forwarding connection that holds the shutdown message ends, and with  *)
(* it its session and its slot in the count, if one of its peers keeps     *)
(* coming back to reading, whatever the other one does: the two loops wait *)
(* for different peers, and the first to return takes the other with it.   *)
(* With neither peer reading it may stay for ever.                         *)
(***************************************************************************)
SignalledLoopEnds ==
  \A c \in Conns, s \in Sides :
    []<>(s \in reading[c]) =>
      ((conn[c] = "forwarding" /\ heard[c]) ~> (conn[c] = "done"))

=============================================================================

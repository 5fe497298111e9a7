-------------------------- MODULE ProxyForwarding --------------------------
(***************************************************************************)
(* One proxied connection while it forwards (src-tauri/src/proxy.rs): the  *)
(* two forward_messages loops that proxy_connection polls in one select!,  *)
(* from the client to the target ("outbound") and back ("inbound").  Each  *)
(* loop reads a frame, shows it to the frontend (capture_message), writes  *)
(* it to the other side and goes on; the first loop that returns ends the  *)
(* connection, and the other is dropped wherever it is.                    *)
(*                                                                         *)
(* Frames are captured before they are written, writes wait for a peer     *)
(* that may not read, and the shutdown broadcast arrives at any moment.    *)
(***************************************************************************)
EXTENDS Naturals, Sequences, SequencesExt

CONSTANTS
  Frames,      \* frames packet_payload turns into a packet (text, binary, ping, pong)
  MaxFrames    \* bound: such frames read per direction

ASSUME MaxFramesAssumption == MaxFrames \in Nat

Directions == {"outbound", "inbound"}
CloseFrame == "close"

ASSUME CloseFrameAssumption == CloseFrame \notin Frames

VARIABLES
  loop,        \* where each loop is: an await, or "returned"
  inHand,      \* the frame a loop is writing
  heard,       \* directions whose receiver holds the shutdown message
  read,        \* the frames each loop has read
  captured,    \* the packet events emitted for each direction
  written,     \* the frames each loop's writer has accepted
  result       \* proxy_connection's result, or "none"

vars == <<loop, inHand, heard, read, captured, written, result>>

Results == {"stopped", "ended", "closeFrame", "error"}

TypeOK ==
  /\ loop \in [Directions -> {"reading", "writing", "closing", "returned", "dropped"}]
  /\ inHand \in [Directions -> Frames \cup {CloseFrame, "none"}]
  /\ heard \subseteq Directions
  /\ read \in [Directions -> Seq(Frames \cup {CloseFrame})]
  /\ captured \in [Directions -> Seq(Frames)]
  /\ written \in [Directions -> Seq(Frames \cup {CloseFrame})]
  /\ result \in Results \cup {"none"}

Init ==
  /\ loop = [d \in Directions |-> "reading"]
  /\ inHand = [d \in Directions |-> "none"]
  /\ heard = {}
  /\ read = [d \in Directions |-> <<>>]
  /\ captured = [d \in Directions |-> <<>>]
  /\ written = [d \in Directions |-> <<>>]
  /\ result = "none"

(***************************************************************************)
(* The select! over both loops: `d` returns r, the other one is dropped.   *)
(***************************************************************************)
Returns(d, r) ==
  /\ loop' = [e \in Directions |-> IF e = d THEN "returned" ELSE "dropped"]
  /\ result' = r

(***************************************************************************)
(* StopBroadcast of Proxy.tla as seen by this connection.                  *)
(***************************************************************************)
Shutdown ==
  /\ result = "none"
  /\ heard # Directions
  /\ heard' = Directions
  /\ UNCHANGED <<loop, inHand, read, captured, written, result>>

(***************************************************************************)
(* capture_message: every frame but a close frame becomes a packet event.  *)
(***************************************************************************)
Capture(d, f) ==
  captured' = IF f = CloseFrame THEN captured ELSE [captured EXCEPT ![d] = Append(@, f)]

ReadFrame(d, f) ==
  /\ loop[d] = "reading"
  /\ Len(read[d]) < MaxFrames \/ f = CloseFrame
  /\ read' = [read EXCEPT ![d] = Append(@, f)]
  /\ Capture(d, f)
  /\ inHand' = [inHand EXCEPT ![d] = f]
  /\ loop' = [loop EXCEPT ![d] = "writing"]
  /\ UNCHANGED <<heard, written, result>>

StreamEnds(d) ==             \* reader.next() yields None
  /\ loop[d] = "reading"
  /\ Returns(d, "ended")
  /\ UNCHANGED <<inHand, heard, read, captured, written>>

ReadFails(d) ==
  /\ loop[d] = "reading"
  /\ Returns(d, "error")
  /\ UNCHANGED <<inHand, heard, read, captured, written>>

WriteFrameAndGoOn(d) ==      \* faulty: a forwarded close frame does not end the loop
  /\ loop[d] = "writing"
  /\ written' = [written EXCEPT ![d] = Append(@, inHand[d])]
  /\ inHand' = [inHand EXCEPT ![d] = "none"]
  /\ loop' = [loop EXCEPT ![d] = "reading"]
  /\ UNCHANGED <<heard, read, captured, result>>

(***************************************************************************)
(* writer.send(message): a written close frame ends the loop.              *)
(***************************************************************************)
WriteFrame(d) ==
  /\ loop[d] = "writing"
  /\ written' = [written EXCEPT ![d] = Append(@, inHand[d])]
  /\ inHand' = [inHand EXCEPT ![d] = "none"]
  /\ \/ inHand[d] = CloseFrame /\ Returns(d, "closeFrame")
     \/ inHand[d] # CloseFrame /\ loop' = [loop EXCEPT ![d] = "reading"] /\ UNCHANGED result
  /\ UNCHANGED <<heard, read, captured>>

WriteFailureIgnored(d) ==    \* faulty: goes on with the next frame
  /\ loop[d] = "writing"
  /\ inHand' = [inHand EXCEPT ![d] = "none"]
  /\ loop' = [loop EXCEPT ![d] = "reading"]
  /\ UNCHANGED <<heard, read, captured, written, result>>

WriteFails(d) ==
  /\ loop[d] = "writing"
  /\ Returns(d, "error")
  /\ UNCHANGED <<inHand, heard, read, captured, written>>

(***************************************************************************)
(* The shutdown branch of a loop's select: it says goodbye to the side it  *)
(* writes to, ignoring whether that works, and returns.                    *)
(***************************************************************************)
HearShutdown(d) ==
  /\ loop[d] = "reading"
  /\ d \in heard
  /\ heard' = heard \ {d}
  /\ loop' = [loop EXCEPT ![d] = "closing"]
  /\ UNCHANGED <<inHand, read, captured, written, result>>

SayGoodbyeAndGoOn(d) ==      \* faulty: no return after the goodbye
  /\ loop[d] = "closing"
  /\ loop' = [loop EXCEPT ![d] = "reading"]
  /\ UNCHANGED <<inHand, heard, read, captured, written, result>>

SayGoodbye(d) ==
  /\ loop[d] = "closing"
  /\ \/ written' = [written EXCEPT ![d] = Append(@, CloseFrame)]
     \/ UNCHANGED written
  /\ Returns(d, "stopped")
  /\ UNCHANGED <<inHand, heard, read, captured>>

WriteSteps(d) == WriteFrame(d) \/ WriteFails(d) \/ SayGoodbye(d)

Next ==
  \/ Shutdown
  \/ \E d \in Directions :
       \/ \E f \in Frames \cup {CloseFrame} : ReadFrame(d, f)
       \/ StreamEnds(d)
       \/ ReadFails(d)
       \/ HearShutdown(d)
       \/ WriteSteps(d)

(***************************************************************************)
(* Writes finish (or fail) because both peers keep reading or go away.     *)
(* Shutdown and the next frame compete in a select! that picks among its   *)
(* ready branches at random, so a branch that is ready again and again is  *)
(* taken: strong fairness.                                                 *)
(***************************************************************************)
Fairness ==
  \A d \in Directions : WF_vars(WriteSteps(d)) /\ SF_vars(HearShutdown(d))

Spec == Init /\ [][Next]_vars

FairSpec == Spec /\ Fairness

----------------------------------------------------------------------------

(***************************************************************************)
(* The frames of s without a close frame at its end.                       *)
(***************************************************************************)
Packets(s) == IF s # <<>> /\ Last(s) = CloseFrame THEN Front(s) ELSE s

(***************************************************************************)
(* The capture is a faithful transcript: in each direction, what the peer  *)
(* got is a prefix, in order, of what the user was shown, what was shown   *)
(* is exactly what was read up to a close frame (after which nothing is    *)
(* read), and at most the frame being written when the connection ended    *)
(* was shown without having been delivered.                                *)
(***************************************************************************)
CaptureIsTranscript ==
  \A d \in Directions :
    /\ captured[d] = Packets(read[d])
    /\ IsPrefix(Packets(written[d]), captured[d])
    /\ Len(captured[d]) <= Len(Packets(written[d])) + 1

(***************************************************************************)
(* A close frame, forwarded or sent as goodbye, is the last thing a side   *)
(* is sent, and the connection does not outlive it: no direction goes on   *)
(* forwarding after the other was closed.                                  *)
(***************************************************************************)
CloseIsFinal ==
  \A d \in Directions :
    CloseFrame \in Range(written[d]) =>
      /\ Last(written[d]) = CloseFrame
      /\ result \in {"closeFrame", "stopped"}

(***************************************************************************)
(* A signalled connection ends, even if both sides keep sending.           *)
(***************************************************************************)
ShutdownEndsForwarding == (heard # {}) ~> (result # "none")

=============================================================================

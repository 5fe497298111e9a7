-------------------------- MODULE ForwardingProofs --------------------------
(***************************************************************************)
(* Theorems about ProxyForwarding, for any frames and any number of them.  *)
(***************************************************************************)
EXTENDS ProxyForwarding, SequenceTheorems, TLAPS

(***************************************************************************)
(* A loop that writes has a frame in hand, and both loops are over exactly *)
(* when the connection has a result.                                       *)
(***************************************************************************)
Over(d) == loop[d] \in {"returned", "dropped"}

LoopsInv ==
  /\ \A d \in Directions : loop[d] = "writing" => inHand[d] \in Frames \cup {CloseFrame}
  /\ \A d \in Directions : Over(d) <=> result # "none"

(***************************************************************************)
(* Nobody has been sent a close frame while the connection goes on.  This  *)
(* is what makes CloseIsFinal inductive: the first close frame is written  *)
(* by the step that ends both loops.                                       *)
(***************************************************************************)
OpenInv ==
  result = "none" => \A d \in Directions : CloseFrame \notin Range(written[d])

ForwardingInv == TypeOK /\ LoopsInv /\ OpenInv /\ CloseIsFinal

----------------------------------------------------------------------------
(* Sequences *)

LEMMA AppendedLast ==
  ASSUME NEW S, NEW s \in Seq(S), NEW e \in S
  PROVE  /\ Append(s, e) \in Seq(S)
         /\ Last(Append(s, e)) = e
         /\ Range(Append(s, e)) = Range(s) \cup {e}
<1>1. Append(s, e) \in Seq(S) /\ Len(Append(s, e)) = Len(s) + 1
  BY AppendProperties
<1>2. Append(s, e)[Len(s) + 1] = e /\ \A i \in 1 .. Len(s) : Append(s, e)[i] = s[i]
  BY AppendProperties
<1>3. Last(Append(s, e)) = e
  BY <1>1, <1>2 DEF Last
<1>4. DOMAIN s = 1 .. Len(s) /\ DOMAIN Append(s, e) = 1 .. Len(s) + 1 /\ Len(s) \in Nat
  BY <1>1, LenProperties
<1>5. 1 .. Len(s) + 1 = (1 .. Len(s)) \cup {Len(s) + 1}
  BY <1>4
<1>6. Range(Append(s, e)) = Range(s) \cup {e}
  BY <1>2, <1>4, <1>5 DEF Range
<1> QED
  BY <1>1, <1>3, <1>6

LEMMA EmptyRange == Range(<<>>) = {}
BY DEF Range

----------------------------------------------------------------------------
(* The inductive invariant *)

LEMMA ForwardingInit == Init => ForwardingInv
<1> SUFFICES ASSUME Init PROVE ForwardingInv
  OBVIOUS
<1>1. TypeOK
  BY EmptySeq DEF Init, TypeOK, Results
<1>2. LoopsInv
  BY DEF Init, LoopsInv, Over
<1>3. \A d \in Directions : Range(written[d]) = {}
  BY EmptyRange DEF Init
<1> QED
  BY <1>1, <1>2, <1>3 DEF ForwardingInv, OpenInv, CloseIsFinal

(***************************************************************************)
(* A step that writes nothing and ends the connection only if it was going *)
(* on keeps what holds of close frames.                                    *)
(***************************************************************************)
LEMMA SilentStep ==
  ASSUME ForwardingInv, written' = written, result = "none" \/ result' = result
  PROVE  OpenInv' /\ CloseIsFinal'
BY DEF ForwardingInv, OpenInv, CloseIsFinal, TypeOK

(***************************************************************************)
(* A write of a frame that is no close frame, or of a close frame by a     *)
(* step that ends the connection with one of the two results for it.       *)
(***************************************************************************)
LEMMA WritingStep ==
  ASSUME ForwardingInv, result = "none",
         NEW d \in Directions, NEW f \in Frames \cup {CloseFrame},
         written' = [written EXCEPT ![d] = Append(@, f)],
         \/ f # CloseFrame /\ result' = result
         \/ f = CloseFrame /\ result' \in {"closeFrame", "stopped"}
  PROVE  OpenInv' /\ CloseIsFinal'
<1>1. written \in [Directions -> Seq(Frames \cup {CloseFrame})]
  BY DEF ForwardingInv, TypeOK
<1>2. \A e \in Directions : CloseFrame \notin Range(written[e])
  BY DEF ForwardingInv, OpenInv
<1>3. \A e \in Directions : e # d => Range(written'[e]) = Range(written[e])
  BY <1>1
<1>4. Last(written'[d]) = f /\ Range(written'[d]) = Range(written[d]) \cup {f}
  BY <1>1, AppendedLast
<1>5. CASE f # CloseFrame
  BY <1>2, <1>3, <1>4, <1>5 DEF OpenInv, CloseIsFinal
<1>6. CASE f = CloseFrame
  BY <1>2, <1>3, <1>4, <1>6 DEF OpenInv, CloseIsFinal
<1> QED
  BY <1>5, <1>6

LEMMA EndedStep ==
  ASSUME ForwardingInv, NEW d \in Directions, ~Over(d)
  PROVE  result = "none"
BY DEF ForwardingInv, LoopsInv

LEMMA ReadKeeps ==
  ASSUME ForwardingInv, NEW d \in Directions, NEW f \in Frames \cup {CloseFrame}, ReadFrame(d, f)
  PROVE  TypeOK' /\ LoopsInv'
<1>1. read' \in [Directions -> Seq(Frames \cup {CloseFrame})]
  BY DEF ForwardingInv, TypeOK, ReadFrame
<1>2. captured' \in [Directions -> Seq(Frames)]
  BY DEF ForwardingInv, TypeOK, ReadFrame, Capture
<1>3. TypeOK'
  BY <1>1, <1>2 DEF ForwardingInv, TypeOK, ReadFrame
<1>4. LoopsInv'
  BY DEF ForwardingInv, TypeOK, LoopsInv, Over, ReadFrame
<1> QED
  BY <1>3, <1>4

LEMMA ReturnKeeps ==
  ASSUME ForwardingInv, NEW d \in Directions, NEW r \in Results, Returns(d, r),
         written' \in [Directions -> Seq(Frames \cup {CloseFrame})],
         inHand' \in [Directions -> Frames \cup {CloseFrame, "none"}],
         UNCHANGED <<heard, read, captured>>
  PROVE  TypeOK' /\ LoopsInv'
BY DEF ForwardingInv, TypeOK, LoopsInv, Over, Returns, Results

LEMMA ForwardingStep == ForwardingInv /\ [Next]_vars => ForwardingInv'
<1> SUFFICES ASSUME ForwardingInv, [Next]_vars PROVE ForwardingInv'
  OBVIOUS
<1>0. CASE UNCHANGED vars
  BY <1>0 DEF vars, ForwardingInv, TypeOK, LoopsInv, Over, OpenInv, CloseIsFinal
<1>1. CASE Shutdown
  <2>1. TypeOK' /\ LoopsInv'
    BY <1>1 DEF ForwardingInv, TypeOK, LoopsInv, Over, Shutdown
  <2> QED
    BY <1>1, <2>1, SilentStep DEF Shutdown, ForwardingInv
<1>2. ASSUME NEW d \in Directions, NEW f \in Frames \cup {CloseFrame}, ReadFrame(d, f)
      PROVE  ForwardingInv'
  <2>1. OpenInv' /\ CloseIsFinal'
    BY <1>2, SilentStep DEF ReadFrame
  <2> QED
    BY <1>2, <2>1, ReadKeeps DEF ForwardingInv
<1>3. ASSUME NEW d \in Directions, StreamEnds(d) \/ ReadFails(d) \/ WriteFails(d)
      PROVE  ForwardingInv'
  <2>1. PICK r \in Results : Returns(d, r)
    BY <1>3 DEF StreamEnds, ReadFails, WriteFails, Results
  <2>2. result = "none" /\ UNCHANGED <<written, inHand, heard, read, captured>>
    BY <1>3, EndedStep DEF Over, StreamEnds, ReadFails, WriteFails
  <2>3. TypeOK' /\ LoopsInv'
    BY <2>1, <2>2, ReturnKeeps DEF ForwardingInv, TypeOK
  <2> QED
    BY <2>2, <2>3, SilentStep DEF ForwardingInv
<1>4. ASSUME NEW d \in Directions, HearShutdown(d) PROVE ForwardingInv'
  <2>1. TypeOK' /\ LoopsInv'
    BY <1>4 DEF ForwardingInv, TypeOK, LoopsInv, Over, HearShutdown
  <2> QED
    BY <1>4, <2>1, SilentStep DEF HearShutdown, ForwardingInv
<1>5. ASSUME NEW d \in Directions, WriteFrame(d) PROVE ForwardingInv'
  <2>1. result = "none" /\ inHand[d] \in Frames \cup {CloseFrame}
    BY <1>5, EndedStep DEF WriteFrame, Over, ForwardingInv, LoopsInv
  <2>2. OpenInv' /\ CloseIsFinal'
    BY <1>5, <2>1, WritingStep DEF WriteFrame, Returns
  <2>3. written' \in [Directions -> Seq(Frames \cup {CloseFrame})]
    BY <1>5, <2>1 DEF WriteFrame, ForwardingInv, TypeOK
  <2>4. inHand' \in [Directions -> Frames \cup {CloseFrame, "none"}]
    BY <1>5 DEF WriteFrame, ForwardingInv, TypeOK
  <2>5. CASE Returns(d, "closeFrame")
    BY <1>5, <2>2, <2>3, <2>4, <2>5, ReturnKeeps DEF WriteFrame, ForwardingInv, Results
  <2>6. CASE loop' = [loop EXCEPT ![d] = "reading"] /\ UNCHANGED result
    BY <1>5, <2>2, <2>3, <2>4, <2>6 DEF WriteFrame, ForwardingInv, TypeOK, LoopsInv, Over
  <2> QED
    BY <1>5, <2>5, <2>6 DEF WriteFrame
<1>6. ASSUME NEW d \in Directions, SayGoodbye(d) PROVE ForwardingInv'
  <2>1. result = "none"
    BY <1>6, EndedStep DEF SayGoodbye, Over
  <2>2. OpenInv' /\ CloseIsFinal'
    BY <1>6, <2>1, WritingStep, SilentStep DEF SayGoodbye, Returns
  <2>3. written' \in [Directions -> Seq(Frames \cup {CloseFrame})]
    <3>1. written \in [Directions -> Seq(Frames \cup {CloseFrame})]
      BY DEF ForwardingInv, TypeOK
    <3>2. Append(written[d], CloseFrame) \in Seq(Frames \cup {CloseFrame})
      BY <3>1, AppendedLast
    <3> QED
      BY <1>6, <3>1, <3>2 DEF SayGoodbye
  <2>4. TypeOK' /\ LoopsInv'
    BY <1>6, <2>3, ReturnKeeps DEF SayGoodbye, ForwardingInv, TypeOK, Results
  <2> QED
    BY <2>2, <2>4 DEF ForwardingInv
<1> QED
  BY <1>0, <1>1, <1>2, <1>3, <1>4, <1>5, <1>6 DEF Next, WriteSteps

LEMMA ForwardingCorrect == Spec => []ForwardingInv
BY ForwardingInit, ForwardingStep, PTL DEF Spec

----------------------------------------------------------------------------
(* The transcript *)

LEMMA WithoutClose ==
  ASSUME NEW s \in Seq(Frames \cup {CloseFrame}), NEW p \in Seq(Frames),
         s = p \/ s = Append(p, CloseFrame)
  PROVE  Packets(s) = p
<1>1. CASE s = p
  <2>1. p # <<>> => Last(p) \in Frames
    BY EmptySeq, ElementOfSeq DEF Last
  <2> QED
    BY <1>1, <2>1, CloseFrameAssumption DEF Packets
<1>2. CASE s = Append(p, CloseFrame)
  <2>1. p \in Seq(Frames \cup {CloseFrame})
    BY SeqMonotonic
  <2>2. s # <<>> /\ Last(s) = CloseFrame /\ Len(s) = Len(p) + 1 /\ \A i \in 1 .. Len(p) : s[i] = p[i]
    BY <1>2, <2>1, AppendProperties, AppendedLast
  <2>3. /\ Front(s) \in Seq(Frames \cup {CloseFrame})
        /\ Len(Front(s)) = Len(p)
        /\ \A i \in 1 .. Len(p) : Front(s)[i] = p[i]
    BY <2>2, SubSeqProperties, LenProperties, ElementOfSeq DEF Front
  <2>4. Front(s) = p
    BY <2>1, <2>3, SeqEqual
  <2> QED
    BY <2>2, <2>4 DEF Packets
<1> QED
  BY <1>1, <1>2

LEMMA PrefixOfAppended ==
  ASSUME NEW s \in Seq(Frames), NEW f \in Frames
  PROVE  IsPrefix(s, s) /\ IsPrefix(s, Append(s, f)) /\ Len(Append(s, f)) = Len(s) + 1 /\ Len(s) \in Nat
<1>1. /\ Append(s, f) \in Seq(Frames) /\ Len(Append(s, f)) = Len(s) + 1 /\ Len(s) \in Nat
      /\ \A i \in 1 .. Len(s) : Append(s, f)[i] = s[i] /\ s[i] \in Frames
  BY AppendProperties, LenProperties, ElementOfSeq
<1> DEFINE t == SubSeq(Append(s, f), 1, Len(s))
<1>2. t \in Seq(Frames) /\ Len(t) = Len(s) /\ \A i \in 1 .. Len(s) : t[i] = s[i]
  BY <1>1, SubSeqProperties
<1>3. t = s
  BY <1>2, SeqEqual
<1>4. SubSeq(s, 1, Len(s)) = s
  BY SubSeqFull
<1> QED
  BY <1>1, <1>3, <1>4 DEF IsPrefix

(***************************************************************************)
(* Where a direction's three transcripts stand.  While its loop goes on    *)
(* they are equal but for the frame in hand; once it is over, read may end *)
(* with a close frame that was not passed on, written with one that was    *)
(* passed on or said as goodbye, and one packet may be undelivered.        *)
(***************************************************************************)
InStep(d) == read[d] = captured[d] /\ written[d] = captured[d]

Passing(d) ==
  \/ /\ inHand[d] = CloseFrame
     /\ read[d] = Append(captured[d], CloseFrame) /\ written[d] = captured[d]
  \/ /\ inHand[d] \in Frames /\ written[d] \in Seq(Frames)
     /\ read[d] = captured[d] /\ captured[d] = Append(written[d], inHand[d])

Ended(d) ==
  /\ read[d] = captured[d] \/ read[d] = Append(captured[d], CloseFrame)
  /\ \/ written[d] = captured[d] \/ written[d] = Append(captured[d], CloseFrame)
     \/ \E f \in Frames : written[d] \in Seq(Frames) /\ captured[d] = Append(written[d], f)

TranscriptInv ==
  \A d \in Directions :
    /\ loop[d] \in {"reading", "closing"} => InStep(d)
    /\ loop[d] = "writing" => Passing(d)
    /\ Ended(d)

LEMMA GoingOnMayEnd ==
  ASSUME NEW d \in Directions, InStep(d) \/ Passing(d)
  PROVE  Ended(d)
BY DEF InStep, Passing, Ended

LEMMA TranscriptInit == Init => TranscriptInv
BY DEF Init, TranscriptInv, InStep, Ended

LEMMA TranscriptStep == ForwardingInv /\ TranscriptInv /\ [Next]_vars => TranscriptInv'
<1> SUFFICES ASSUME ForwardingInv, TranscriptInv, [Next]_vars PROVE TranscriptInv'
  OBVIOUS
<1>a. /\ loop \in [Directions -> {"reading", "writing", "closing", "returned", "dropped"}]
      /\ inHand \in [Directions -> Frames \cup {CloseFrame, "none"}]
      /\ read \in [Directions -> Seq(Frames \cup {CloseFrame})]
      /\ captured \in [Directions -> Seq(Frames)]
      /\ written \in [Directions -> Seq(Frames \cup {CloseFrame})]
  BY DEF ForwardingInv, TypeOK
<1>b. ASSUME UNCHANGED <<inHand, read, captured, written>>,
             \A d \in Directions : loop'[d] \in {loop[d], "returned", "dropped"}
                                   \/ {loop[d], loop'[d]} \subseteq {"reading", "closing"}
      PROVE  TranscriptInv'
  BY <1>a, <1>b DEF TranscriptInv, InStep, Passing, Ended
<1>0. CASE UNCHANGED vars \/ Shutdown
  BY <1>0, <1>b DEF vars, Shutdown
<1>1. ASSUME NEW d \in Directions, StreamEnds(d) \/ ReadFails(d) \/ WriteFails(d) PROVE TranscriptInv'
  BY <1>1, <1>b DEF StreamEnds, ReadFails, WriteFails, Returns
<1>2. ASSUME NEW d \in Directions, HearShutdown(d) PROVE TranscriptInv'
  BY <1>2, <1>a, <1>b DEF HearShutdown
<1>3. ASSUME NEW d \in Directions, NEW f \in Frames \cup {CloseFrame}, ReadFrame(d, f)
      PROVE  TranscriptInv'
  <2>1. /\ loop' = [loop EXCEPT ![d] = "writing"] /\ inHand' = [inHand EXCEPT ![d] = f]
        /\ read' = [read EXCEPT ![d] = Append(@, f)] /\ written' = written
        /\ captured' = IF f = CloseFrame THEN captured ELSE [captured EXCEPT ![d] = Append(@, f)]
    BY <1>3 DEF ReadFrame, Capture
  <2>2. InStep(d)
    BY <1>3 DEF ReadFrame, TranscriptInv
  <2>3. Passing(d)'
    BY <1>a, <2>1, <2>2 DEF InStep, Passing
  <2>4. \A e \in Directions : e # d => UNCHANGED <<loop[e], inHand[e], read[e], captured[e], written[e]>>
    BY <1>a, <2>1
  <2>5. \A e \in Directions : e # d =>
          /\ loop'[e] \in {"reading", "closing"} => InStep(e)'
          /\ loop'[e] = "writing" => Passing(e)'
          /\ Ended(e)'
    BY <2>4 DEF TranscriptInv, InStep, Passing, Ended
  <2>6. Ended(d)'
    BY <2>3 DEF Passing, Ended
  <2>7. loop'[d] = "writing"
    BY <1>a, <2>1
  <2> QED
    BY <2>3, <2>5, <2>6, <2>7 DEF TranscriptInv
<1>4. ASSUME NEW d \in Directions, WriteFrame(d) PROVE TranscriptInv'
  <2>1. /\ inHand' = [inHand EXCEPT ![d] = "none"] /\ written' = [written EXCEPT ![d] = Append(@, inHand[d])]
        /\ UNCHANGED <<read, captured>>
        /\ \/ inHand[d] = CloseFrame /\ \A e \in Directions : loop'[e] \in {"returned", "dropped"}
           \/ inHand[d] # CloseFrame /\ loop' = [loop EXCEPT ![d] = "reading"]
    BY <1>4 DEF WriteFrame, Returns
  <2>2. Passing(d)
    BY <1>4 DEF WriteFrame, TranscriptInv
  <2>3. Ended(d)' /\ (inHand[d] # CloseFrame => InStep(d)')
    BY <1>a, <2>1, <2>2 DEF Passing, Ended, InStep
  <2>4. \A e \in Directions : e # d => UNCHANGED <<inHand[e], read[e], captured[e], written[e]>>
    BY <1>a, <2>1
  <2>5. \A e \in Directions : e # d =>
          /\ loop'[e] \in {"reading", "closing"} => InStep(e)'
          /\ loop'[e] = "writing" => Passing(e)'
          /\ Ended(e)'
    <3>1. \A e \in Directions : e # d =>
            /\ loop[e] \in {"reading", "closing"} => InStep(e)'
            /\ loop[e] = "writing" => Passing(e)'
            /\ Ended(e)'
      BY <2>4 DEF TranscriptInv, InStep, Passing, Ended
    <3>2. \A e \in Directions : e # d => loop'[e] = loop[e] \/ loop'[e] \in {"returned", "dropped"}
      BY <1>a, <2>1
    <3> QED
      BY <3>1, <3>2
  <2>6. loop'[d] # "writing" /\ (loop'[d] \in {"reading", "closing"} => inHand[d] # CloseFrame)
    BY <1>a, <2>1
  <2> QED
    BY <2>3, <2>5, <2>6 DEF TranscriptInv
<1>5. ASSUME NEW d \in Directions, SayGoodbye(d) PROVE TranscriptInv'
  <2>1. InStep(d)
    BY <1>5 DEF SayGoodbye, TranscriptInv
  <2>2. /\ \A e \in Directions : loop'[e] \in {"returned", "dropped"}
        /\ written' = written \/ written' = [written EXCEPT ![d] = Append(@, CloseFrame)]
        /\ UNCHANGED <<inHand, read, captured>>
    BY <1>5 DEF SayGoodbye, Returns
  <2>3. Ended(d)'
    BY <1>a, <2>1, <2>2 DEF InStep, Ended
  <2>4. \A e \in Directions : e # d => Ended(e)'
    BY <1>a, <2>2 DEF TranscriptInv, Ended
  <2> QED
    BY <2>2, <2>3, <2>4 DEF TranscriptInv
<1> QED
  BY <1>0, <1>1, <1>2, <1>3, <1>4, <1>5 DEF Next, WriteSteps

LEMMA TranscriptHolds == ForwardingInv /\ TranscriptInv => CaptureIsTranscript
<1> SUFFICES ASSUME ForwardingInv, TranscriptInv, NEW d \in Directions
             PROVE  /\ captured[d] = Packets(read[d])
                    /\ IsPrefix(Packets(written[d]), captured[d])
                    /\ Len(captured[d]) <= Len(Packets(written[d])) + 1
  BY DEF CaptureIsTranscript
<1>1. /\ read[d] \in Seq(Frames \cup {CloseFrame}) /\ written[d] \in Seq(Frames \cup {CloseFrame})
      /\ captured[d] \in Seq(Frames)
  BY DEF ForwardingInv, TypeOK
<1>2. Ended(d)
  BY DEF TranscriptInv
<1>3. captured[d] = Packets(read[d])
  BY <1>1, <1>2, WithoutClose DEF Ended
<1>4. CASE written[d] = captured[d] \/ written[d] = Append(captured[d], CloseFrame)
  <2>1. Packets(written[d]) = captured[d]
    BY <1>1, <1>4, WithoutClose
  <2>2. IsPrefix(captured[d], captured[d]) /\ Len(captured[d]) \in Nat
    BY <1>1, SubSeqFull, LenProperties DEF IsPrefix
  <2> QED
    BY <1>3, <2>1, <2>2
<1>5. ASSUME NEW f \in Frames, written[d] \in Seq(Frames), captured[d] = Append(written[d], f)
      PROVE  IsPrefix(Packets(written[d]), captured[d]) /\ Len(captured[d]) <= Len(Packets(written[d])) + 1
  <2>1. Packets(written[d]) = written[d]
    BY <1>1, <1>5, WithoutClose
  <2> QED
    BY <1>5, <2>1, PrefixOfAppended
<1> QED
  BY <1>2, <1>3, <1>4, <1>5 DEF Ended

----------------------------------------------------------------------------
(* Theorems *)

(***************************************************************************)
(* Every variable of the two loops keeps its type (forward_messages).      *)
(***************************************************************************)
THEOREM TypeCorrect == Spec => []TypeOK
<1>1. ForwardingInv => TypeOK
  BY DEF ForwardingInv
<1> QED
  BY <1>1, ForwardingCorrect, PTL

(***************************************************************************)
(* A close frame is the last frame a side is sent, and the connection ends *)
(* with it, whatever the other direction was doing (proxy_connection).     *)
(***************************************************************************)
THEOREM CloseCorrect == Spec => []CloseIsFinal
<1>1. ForwardingInv => CloseIsFinal
  BY DEF ForwardingInv
<1> QED
  BY <1>1, ForwardingCorrect, PTL

(***************************************************************************)
(* What the user is shown of a connection is what went through it: frame   *)
(* by frame what was read, and in order what was delivered, at most one    *)
(* frame ahead of it (capture_message before writer.send).                 *)
(***************************************************************************)
THEOREM TranscriptCorrect == Spec => []CaptureIsTranscript
<1>1. Init => ForwardingInv /\ TranscriptInv
  BY ForwardingInit, TranscriptInit
<1>2. ForwardingInv /\ TranscriptInv /\ [Next]_vars => (ForwardingInv /\ TranscriptInv)'
  BY ForwardingStep, TranscriptStep
<1> QED
  BY <1>1, <1>2, TranscriptHolds, PTL DEF Spec

=============================================================================

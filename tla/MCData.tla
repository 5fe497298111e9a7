------------------------------- MODULE MCData -------------------------------
(***************************************************************************)
(* The frontend's synchronous components for TLC: those of MCStores, one   *)
(* `subject` at a time.  For the components that are operators only, the   *)
(* initial states range over the inputs: `sample` is a frame, a packet, a  *)
(* filter or a list.                                                       *)
(***************************************************************************)
EXTENDS MCStores, TLC

Symmetry == Permutations(Sessions)    \* interchangeable wherever they are used

VARIABLE sample

Decoding == INSTANCE PacketDecoding

ContentsOfPackets ==
  {[type |-> c[1], request |-> c[2], message |-> c[3], reply |-> c[4], direction |-> c[5],
    summary |-> Decoding!Summary(c[1])] :
     c \in {<<"ping", "r1", "none", "none", "outbound">>,
            <<"pong", "r1", "none", "none", "inbound">>,
            <<"auth.login", "none", "none", "none", "outbound">>,
            <<"quote", "none", "m1", "none", "inbound">>,
            <<"quote", "r1", "m1", "none", "outbound">>,
            <<"quote", "r1", "none", "m1", "inbound">>}}

(***************************************************************************)
(* The plugins to register: well formed ones with any decoder (how it      *)
(* works matters if it accepts), and ones that lack one of the things      *)
(* asked of them.                                                          *)
(***************************************************************************)
Own(priority, accepts, works) ==
  <<[id |-> "own", priority |-> priority, accepts |-> accepts, works |-> works]>>

Plain == [id |-> "a", local |-> TRUE, label |-> TRUE, byDefault |-> TRUE,
          decoders |-> Own(2, "yes", TRUE)]

SomePlugins ==
  {[Plain EXCEPT !.id = i, !.byDefault = e, !.decoders = Own(p, d[1], d[2])] :
     i \in {"a", "b"}, e \in BOOLEAN, p \in 1 .. 2,
     d \in {<<"yes", TRUE>>, <<"yes", FALSE>>, <<"no", TRUE>>, <<"throws", TRUE>>}}
    \cup {[Plain EXCEPT !.local = FALSE], [Plain EXCEPT !.label = FALSE],
          [Plain EXCEPT !.id = ""], [Plain EXCEPT !.id = "core"]}

Trees == INSTANCE PayloadTrees WITH
  PlainKeys <- {"k"}, SensitiveKeys <- {"token"},
  Texts <- {{}, {"credential"}, {"custom"}, {"url", "custom"}}

AllPayloads == Trees!Trees

Redacting == INSTANCE Redaction WITH
  PlainKeys <- {"k"}, SensitiveKeys <- {"token"}, Payloads <- AllPayloads,
  Texts <- {{}, {"credential"}, {"custom"}, {"url", "custom"}}

Format == INSTANCE SessionFileFormat WITH Now <- 5

Filtering == INSTANCE Filters WITH Sessions <- {"s1", "s2"}, Words <- {"quote"}, Values <- {"1"}

Context == INSTANCE AiContext WITH Before <- 1, After <- 1, FlowLimit <- 2, PromptLimit <- 2

(***************************************************************************)
(* Every list of up to three packets, newest first, with one of them       *)
(* selected, none, or one that was trimmed from the list.                  *)
(***************************************************************************)
ContextLists ==
  UNION {{l \in [1 .. n -> [id : 1 .. n, session : {"s1", "s2"}, time : 1 .. 2, flow : BOOLEAN]] :
            \A i \in 1 .. n : /\ l[i].id = n + 1 - i
                              /\ i < n => l[i].time >= l[i + 1].time} : n \in 0 .. 3}

Trimmed == [id |-> 4, session |-> "s1", time |-> 1, flow |-> TRUE]

ContextSamples ==
  UNION {{[list |-> l, packet |-> p] : p \in {Context!None, Trimmed} \cup Range(l)} : l \in ContextLists}

----------------------------------------------------------------------------
vars == <<storesVars, sample>>

Stateful == {"bar", "list", "environments", "selection", "scroll", "relations",
             "settings", "registry", "palette"}
Pure == {"frame", "redaction", "file", "filter", "context"}

(***************************************************************************)
(* Where a component may start in several states, one of them stands for   *)
(* it in the behaviours of the other subjects.                             *)
(***************************************************************************)
MCInit ==
  /\ subject \in Stateful \cup Pure
  /\ IF subject = "frame" THEN sample \in Decoding!TextFrames \cup Decoding!JsonFrames \cup Decoding!BinaryFrames
     ELSE IF subject = "redaction" THEN sample \in Redacting!Samples
     ELSE IF subject = "file" THEN sample \in Format!Samples
     ELSE IF subject = "filter" THEN sample \in Filtering!Samples
     ELSE IF subject = "context" THEN sample \in ContextSamples
     ELSE sample = "none"
  /\ IF subject = "settings" THEN TRUE ELSE settingsStored = Settings!Unreadable
  /\ IF subject = "scroll" THEN TRUE ELSE autoScroll = TRUE
  /\ IF subject = "registry" THEN TRUE ELSE enablement = Registry!Unset
  /\ StoresInit

MCNext == StoresNext /\ UNCHANGED sample

MCSpec == MCInit /\ [][MCNext]_vars

----------------------------------------------------------------------------
(* Properties *)

(***************************************************************************)
(* packet-decoder.ts, filter-engine.ts, session-redaction.ts,              *)
(* session-file.ts, lib/ai: what is decoded, filtered, redacted, read from *)
(* a file or put in a prompt agrees with what the other operators of the   *)
(* same module say of it.                                                  *)
(***************************************************************************)
OperatorLaws ==
  /\ IF subject = "frame" THEN Decoding!FrameLaws(sample) ELSE TRUE
  /\ IF subject = "redaction"
     THEN Redacting!RedactionLaws(sample) /\ Redacting!PreviewLaws(sample) ELSE TRUE
  /\ IF subject = "file" THEN Format!FileFormatLaws(sample) ELSE TRUE
  /\ IF subject = "filter"
     THEN Filtering!FilterLaws(sample, Filtering!Order) /\ Filtering!NormalizationLaws(sample)
     ELSE TRUE
  /\ IF subject = "context" THEN Context!ContextLaws(sample.list, sample.packet) ELSE TRUE

=============================================================================

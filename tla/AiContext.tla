----------------------------- MODULE AiContext -----------------------------
(***************************************************************************)
(* What an AI action would send, and when its button is enabled            *)
(* (ai-analysis-panel.tsx, lib/ai/index.ts, provider-validation.ts and     *)
(* lib/ai/prompts.ts), as operators on a context: the packets of the       *)
(* current session newest first, the selected packet and the provider's    *)
(* settings.  A packet is [id, session, time, flow], where flow says that  *)
(* its event name is one of authentication or reconnection.                *)
(*                                                                         *)
(* Before and After are the code's 4 and 4 neighbours of a sequence,       *)
(* FlowLimit and PromptLimit its two 40s, all made small.                  *)
(***************************************************************************)
EXTENDS Arrangements, FiniteSetsExt

CONSTANTS Before, After, FlowLimit, PromptLimit

None == [id |-> 0, session |-> "none", time |-> 0, flow |-> FALSE]

PacketActions == {"explain-packet", "explain-sequence"}
SessionActions == {"summarize-session", "explain-auth-reconnect-flow"}
Actions == PacketActions \cup SessionActions

(***************************************************************************)
(* A provider's settings as far as validation looks at them: three texts   *)
(* that may be blank and a base URL that may not be one.                   *)
(***************************************************************************)
BaseUrls == {"", "text", "http"}
Settings == [provider : {"disabled", "openai-compatible", "ollama"},
             baseUrl : BaseUrls, model : {"", "m"}, apiKey : {"", "k"}]

ValidateAiProviderConfiguration(s) ==
  \/ s.provider = "disabled"
  \/ /\ s.baseUrl = "http"
     /\ s.model # ""
     /\ s.provider = "openai-compatible" => s.apiKey # ""

ProviderConfigured(s) ==
  s.provider # "disabled" /\ ValidateAiProviderConfiguration(s)

----------------------------------------------------------------------------
(* The packets of an action *)

LastOf(list, n)  == SubSeq(list, 1 + (IF Len(list) > n THEN Len(list) - n ELSE 0), Len(list))
FirstOf(list, n) == SubSeq(list, 1, IF Len(list) > n THEN n ELSE Len(list))

(***************************************************************************)
(* sort by timestamp, oldest first: a stable sort of a list that is newest *)
(* first, so packets of one millisecond stay in the list's order.          *)
(***************************************************************************)
OlderFirst(list) ==
  {ij \in (DOMAIN list) \X (DOMAIN list) :
     \/ list[ij[1]].time < list[ij[2]].time
     \/ list[ij[1]].time = list[ij[2]].time /\ ij[1] < ij[2]}

OldestFirst(list) ==
  LET order == Arranged(DOMAIN list, OlderFirst(list))
  IN  [k \in DOMAIN list |-> list[order[k]]]

SortPacketsForSession(list, session) ==
  OldestFirst(Kept(list, {i \in DOMAIN list : list[i].session = session}))

WindowAround(sorted, i) ==
  SubSeq(sorted, IF i > Before THEN i - Before ELSE 1,
                 IF i + After < Len(sorted) THEN i + After ELSE Len(sorted))

GetSequencePackets(packet, list) ==
  LET sorted == SortPacketsForSession(list, packet.session)
      found  == {i \in DOMAIN sorted : sorted[i].id = packet.id}
  IN  IF found = {} THEN <<packet>> ELSE WindowAround(sorted, Min(found))

GetAuthReconnectPackets(list) ==
  LastOf(OldestFirst(Kept(list, {i \in DOMAIN list : list[i].flow})), FlowLimit)

CreateAiActionInput(action, packet, list) ==
  [packet  |-> IF action \in PacketActions THEN packet ELSE None,
   packets |->
     IF action \in PacketActions /\ packet = None THEN <<>>
     ELSE CASE action = "explain-packet"   -> <<packet>>
            [] action = "explain-sequence" -> GetSequencePackets(packet, list)
            [] action = "explain-auth-reconnect-flow" -> GetAuthReconnectPackets(list)
            [] OTHER -> list]

----------------------------------------------------------------------------
(* The button and the handler behind it *)

ButtonEnabled(action, packet, list, s, loading) ==
  /\ ~loading
  /\ ProviderConfigured(s)
  /\ action \in PacketActions => packet # None
  /\ CreateAiActionInput(action, packet, list).packets # <<>>

ValidateAiActionAvailability(action, s, input) ==
  /\ ValidateAiProviderConfiguration(s)
  /\ s.provider # "disabled" =>
       /\ action \in PacketActions => input.packet # None
       /\ action # "explain-packet" => input.packets # <<>>

(***************************************************************************)
(* handleRunAction gets past its five refusals.                            *)
(***************************************************************************)
RunsAction(action, packet, list, s) ==
  LET input == CreateAiActionInput(action, packet, list)
  IN /\ action \in PacketActions => packet # None
     /\ input.packets # <<>>
     /\ s.provider # "disabled"
     /\ ValidateAiActionAvailability(action, s, input)
     /\ ValidateAiProviderConfiguration(s)

(***************************************************************************)
(* The packets formatted into the prompt.                                  *)
(***************************************************************************)
BuildUserPrompt(action, input) ==
  IF action = "explain-packet" THEN <<input.packet>>
  ELSE FirstOf(input.packets, PromptLimit)

----------------------------------------------------------------------------
(* Laws *)

(***************************************************************************)
(* A button that can be pressed runs its action: handleRunAction refuses   *)
(* nothing that getActionDisabledReason lets through.                      *)
(***************************************************************************)
EnabledMeansAccepted(list, packet) ==
  \A action \in Actions, s \in Settings :
    ButtonEnabled(action, packet, list, s, FALSE) => RunsAction(action, packet, list, s)

(***************************************************************************)
(* The prompt of a sequence has the selected packet in it, among its own   *)
(* session's packets and in the order of their times; a session's prompt   *)
(* has the newest packets, none of which is older than one left out.       *)
(***************************************************************************)
PromptIsTheContext(list, packet) ==
  LET sequence == BuildUserPrompt("explain-sequence",
                                  CreateAiActionInput("explain-sequence", packet, list))
      summary  == BuildUserPrompt("summarize-session",
                                  CreateAiActionInput("summarize-session", packet, list))
      flow     == BuildUserPrompt("explain-auth-reconnect-flow",
                                  CreateAiActionInput("explain-auth-reconnect-flow", packet, list))
  IN /\ packet # None =>
          /\ packet \in Range(sequence)
          /\ \A p \in Range(sequence) : p.session = packet.session
          /\ \A i \in 1 .. Len(sequence) - 1 : sequence[i].time <= sequence[i + 1].time
     /\ \A p \in Range(summary), q \in Range(list) \ Range(summary) : q.time <= p.time
     /\ \A p \in Range(flow), q \in Range(list) \ Range(flow) : q.flow => q.time <= p.time

ContextLaws(list, packet) ==
  EnabledMeansAccepted(list, packet) /\ PromptIsTheContext(list, packet)

============================================================================

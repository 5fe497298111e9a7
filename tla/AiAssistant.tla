---------------------------- MODULE AiAssistant ----------------------------
(***************************************************************************)
(* The requests to an AI provider: the analysis panel beside a packet      *)
(* (ai-analysis-panel.tsx), the list of a local provider's models on the   *)
(* settings page (settings-page.tsx, providers/ollama.ts), both through    *)
(* fetchWithTimeout (lib/ai/fetch-with-timeout.ts).                        *)
(*                                                                         *)
(* Each handler is an async function that keeps the settings and the       *)
(* packet of the render it was made in, and sets the state of the          *)
(* component when its answer comes; a component that was unmounted         *)
(* meanwhile is another mount, and its state is not touched.  The timeout  *)
(* is cleared as soon as the response's headers are there, so only the     *)
(* wait for the headers is bounded.                                        *)
(*                                                                         *)
(* What a prompt contains and when a button is enabled beyond the          *)
(* settings is in AiContext.  Only the ollama provider's settings are      *)
(* spelled out: the other one has the same fields and no model list.       *)
(***************************************************************************)
EXTENDS Integers, FiniteSets

CONSTANTS Packets, Urls, Model, None, MaxRequests, MaxMounts

VARIABLES
  provider,   \* settings.aiProvider as [kind, url, model]
  pageOpen,   \* the settings page is shown
  pageMount,  \* which mount of it
  loading,    \* ollamaModelsLoading
  models,     \* the base URL whose models are listed, or None
  selected,   \* the packet shown in the inspector, or None
  panelMount, \* which mount of the analysis panel
  panel,      \* panelState as [kind, of]: what is shown, for which request
  requests,   \* requests under way
  asked,      \* the last analysis this mount of the panel asked for
  sent        \* requests so far

assistantVars == <<provider, pageOpen, pageMount, loading, models, selected,
                   panelMount, panel, requests, asked, sent>>
pageVars  == <<pageOpen, pageMount, loading, models>>
panelVars == <<selected, panelMount, panel, asked>>

Provider == [kind : {"disabled", "ollama"}, url : Urls, model : {Model, None}]
Request  == [id : 1 .. MaxRequests, what : {"analysis", "models"},
             phase : {"headers", "body"}, mount : 1 .. MaxMounts, provider : Provider]
DefaultProvider == [kind |-> "disabled", url |-> CHOOSE u \in Urls : TRUE, model |-> None]
Idle == [kind |-> "idle", of |-> 0]

TypeOK ==
  /\ provider \in Provider
  /\ pageOpen \in BOOLEAN /\ loading \in BOOLEAN
  /\ pageMount \in 1 .. MaxMounts /\ panelMount \in 1 .. MaxMounts
  /\ models \in Urls \cup {None}
  /\ selected \in Packets \cup {None}
  /\ panel \in [kind : {"idle", "loading", "result", "error"}, of : 0 .. MaxRequests]
  /\ requests \subseteq Request
  /\ asked \in 0 .. MaxRequests /\ sent \in 0 .. MaxRequests

Init ==
  /\ provider = DefaultProvider
  /\ pageOpen = FALSE /\ pageMount = 1
  /\ loading = FALSE /\ models = None
  /\ selected = None /\ panelMount = 1
  /\ panel = Idle /\ asked = 0
  /\ requests = {} /\ sent = 0

----------------------------------------------------------------------------
(* Navigation and settings *)

OpenSettings ==
  /\ ~pageOpen /\ pageMount < MaxMounts
  /\ pageOpen' = TRUE
  /\ pageMount' = pageMount + 1
  /\ loading' = FALSE
  /\ models' = None
  /\ UNCHANGED <<provider, panelVars, requests, sent>>

CloseSettings ==
  /\ pageOpen
  /\ pageOpen' = FALSE
  /\ UNCHANGED <<provider, pageMount, loading, models, panelVars, requests, sent>>

(***************************************************************************)
(* The inspector shows one panel beside a packet and another one when none *)
(* is selected; from packet to packet the same panel stays, with its state.*)
(***************************************************************************)
SelectPacket(p) ==
  /\ p # selected
  /\ selected' = p
  /\ IF None \in {p, selected}
     THEN /\ panelMount < MaxMounts
          /\ panelMount' = panelMount + 1
          /\ panel' = Idle
          /\ asked' = 0
     ELSE UNCHANGED <<panelMount, panel, asked>>
  /\ UNCHANGED <<provider, pageVars, requests, sent>>

(***************************************************************************)
(* updateAiProvider, updateOllama.  The effect on the provider and its URL *)
(* empties the page's model list; resetting all settings does the same.    *)
(***************************************************************************)
ProviderBecomes(new) ==
  /\ provider' = new
  /\ models' = IF pageOpen /\ (new.url # provider.url \/ new.kind # provider.kind)
               THEN None ELSE models

EditProvider ==
  /\ pageOpen
  /\ \/ \E k \in {"disabled", "ollama"} : ProviderBecomes([provider EXCEPT !.kind = k])
     \/ ProviderBecomes(DefaultProvider)      \* handleResetSettings
     \/ /\ provider.kind = "ollama"
        /\ \/ \E u \in Urls : ProviderBecomes([provider EXCEPT !.url = u])
           \/ \E m \in {Model, None} : ProviderBecomes([provider EXCEPT !.model = m])
  /\ provider' # provider
  /\ UNCHANGED <<pageOpen, pageMount, loading, panelVars, requests, sent>>

----------------------------------------------------------------------------
(* Requests *)

Send(what, mount) ==
  /\ sent < MaxRequests
  /\ sent' = sent + 1
  /\ requests' = requests \cup {[id |-> sent + 1, what |-> what, phase |-> "headers",
                                 mount |-> mount, provider |-> provider]}

Configured == provider.kind # "disabled" /\ provider.model # None

MayRunAnyway == Configured   \* faulty: not disabled while it loads

(***************************************************************************)
(* getActionDisabledReason: one action explains the selected packet, the   *)
(* others are about the packets of the session and need none selected.     *)
(* (Which actions find packets is in AiContext.)                           *)
(***************************************************************************)
MayRun == panel.kind # "loading" /\ Configured

HandleRunAction ==
  /\ MayRun
  /\ Send("analysis", panelMount)
  /\ panel' = [kind |-> "loading", of |-> sent']
  /\ asked' = sent'
  /\ UNCHANGED <<provider, pageVars, selected, panelMount>>

LoadOllamaModels ==
  /\ pageOpen
  /\ provider.kind = "ollama"
  /\ ~loading
  /\ Send("models", pageMount)
  /\ loading' = TRUE
  /\ UNCHANGED <<provider, pageOpen, pageMount, models, panelVars>>

HeadersArrive(r) ==
  /\ r.phase = "headers"
  /\ requests' = (requests \ {r}) \cup {[r EXCEPT !.phase = "body"]}
  /\ UNCHANGED <<provider, pageVars, panelVars, sent>>

(***************************************************************************)
(* An analysis has ended: its panel, if that is still there, shows the     *)
(* result or the error, whatever packet is selected by now.                *)
(***************************************************************************)
ShowAnalysis(r, outcome) ==
  /\ r.what = "analysis"
  /\ panel' = IF r.mount = panelMount THEN [kind |-> outcome, of |-> r.id] ELSE panel
  /\ UNCHANGED <<provider, pageVars, selected, panelMount, asked>>

(***************************************************************************)
(* The model list has come, has come empty, or failed.  If the model was   *)
(* blank when it was asked for, the first model is filled in: the whole    *)
(* provider as it was then is written back, also when the page was left.   *)
(* A failure leaves the old list.                                          *)
(***************************************************************************)
ShowModels(r, outcome) ==
  LET here == pageOpen /\ r.mount = pageMount
      new  == IF outcome = "result" /\ r.provider.model = None
              THEN [r.provider EXCEPT !.model = Model] ELSE provider
  IN /\ r.what = "models"
     /\ provider' = new
     /\ loading' = IF here THEN FALSE ELSE loading
     /\ models' = IF pageOpen /\ (new.url # provider.url \/ new.kind # provider.kind) THEN None
                  ELSE IF ~here \/ outcome = "error" THEN models
                  ELSE IF outcome = "result" THEN r.provider.url ELSE None
     /\ UNCHANGED <<pageOpen, pageMount, panelVars>>

Ended(r, outcome) ==
  /\ requests' = requests \ {r}
  /\ ShowAnalysis(r, outcome) \/ ShowModels(r, outcome)
  /\ UNCHANGED sent

(***************************************************************************)
(* The body: a result, a status or content that is an error, or a model    *)
(* list without models.  An unreadable body is read as null.               *)
(***************************************************************************)
Answers(r) ==
  /\ r.phase = "body"
  /\ \/ Ended(r, "result")
     \/ Ended(r, "error")
     \/ r.what = "models" /\ Ended(r, "empty")

NeverTimesOut(r) == r.phase = "none" /\ Ended(r, "error")   \* faulty: a bare fetch

(***************************************************************************)
(* controller.abort() after the timeout, or a failure of the network       *)
(* before that: a network_error.                                           *)
(***************************************************************************)
TimesOut(r) == r.phase = "headers" /\ Ended(r, "error")

----------------------------------------------------------------------------

Next ==
  \/ OpenSettings \/ CloseSettings \/ EditProvider
  \/ \E p \in Packets \cup {None} : SelectPacket(p)
  \/ HandleRunAction \/ LoadOllamaModels
  \/ \E r \in requests : HeadersArrive(r) \/ Answers(r) \/ TimesOut(r)

Waiting(id) == \E r \in requests : r.id = id /\ r.phase = "headers"

(***************************************************************************)
(* The abort timer fires unless the headers come first.  Nothing makes a   *)
(* body end.                                                               *)
(***************************************************************************)
Timers ==
  \A id \in 1 .. MaxRequests : WF_assistantVars(\E r \in requests : r.id = id /\ TimesOut(r))

Spec == Init /\ [][Next]_assistantVars /\ Timers

----------------------------------------------------------------------------
(* Properties *)

Pending(what, mount) == {r \in requests : r.what = what /\ r.mount = mount}

(***************************************************************************)
(* What the panel shows belongs to the last action taken in it: while it   *)
(* loads that one's request, and no other of this panel, is under way, and *)
(* no answer to an older one ever replaces it.  The model list loads       *)
(* exactly while one request of this visit to the page is under way.       *)
(***************************************************************************)
PanelShowsTheLastAction ==
  /\ panel.of = asked
  /\ {r.id : r \in Pending("analysis", panelMount)} =
       (IF panel.kind = "loading" THEN {asked} ELSE {})
  /\ pageOpen => Cardinality(Pending("models", pageMount)) = IF loading THEN 1 ELSE 0

(***************************************************************************)
(* No request waits for its headers for ever (fetchWithTimeout).           *)
(***************************************************************************)
HeadersAreBounded == \A id \in 1 .. MaxRequests : Waiting(id) ~> ~Waiting(id)

============================================================================

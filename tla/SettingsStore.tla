--------------------------- MODULE SettingsStore ---------------------------
(***************************************************************************)
(* The settings (settings-store.ts, app-settings.ts,                       *)
(* settings-persistence.ts): every change is normalised and written to the *)
(* local storage, from where the next start takes it, whatever is found    *)
(* there.  With them their editors: the two inputs of the packet limit     *)
(* (settings-page.tsx, retention-settings-panel.tsx), each a draft that is *)
(* committed when the input loses the focus, and the Quick Start panel     *)
(* (onboarding-panel.tsx), whose effects tick steps off by themselves.     *)
(*                                                                         *)
(* One field stands for each kind of normalisation: limit for the numbers, *)
(* theme for the enumerations, texts and flags, presets for the lists of   *)
(* records, the three of the onboarding for the sets of known names.  The  *)
(* limit counts thousands, Smallest to Largest in steps of Step.           *)
(***************************************************************************)
EXTENDS Arrangements

CONSTANTS
  Smallest, Largest, Step,   \* minPacketRetentionLimit, max..., ...Step
  PresetLimit,               \* the 24 presets that are kept
  MaxPackets,                \* bound: packets in the timeline
  MaxPresets                 \* bound: presets saved

VARIABLES
  settings,   \* as the program sees them
  stored,     \* what the local storage holds
  drafts,     \* the text of the two inputs of the limit
  focus,      \* the input being edited, or "none"
  packets,    \* how many packets the timeline holds
  facts       \* the steps of the Quick Start that hold right now

settingsVars == <<settings, stored, drafts, focus, packets, facts>>

Inputs     == {"page", "panel"}
Themes     == {"dark", "light"}
QuickSteps == {"view-timeline", "open-inspector", "replay-packet", "filter-events"}
Cards      == {"quick-start", "demo-stream"}
NotFinite  == -1       \* no number at all
Unreadable == [limit |-> NotFinite, theme |-> "junk", presets |-> <<>>,
               steps |-> {}, cards |-> {}, dismissed |-> FALSE]

Preset(id, session) == [id |-> id, session |-> session, valid |-> id # ""]
RawPresets == {<<>>, <<Preset("", "none")>>,
               <<Preset("a", "s1"), Preset("", "none"), Preset("b", "none"), Preset("c", "none")>>}
Raw ==
  [limit : {NotFinite, 0, Smallest + 1, Largest + Step}, theme : {"dark", "junk"},
   presets : RawPresets, steps : {{}, {"view-timeline", "junk"}},
   cards : {{}, {"quick-start", "junk"}}, dismissed : BOOLEAN]

----------------------------------------------------------------------------
(* Normalisation *)

ClampPacketRetentionLimit(v) ==
  LET stepped == ((2 * v + Step) \div (2 * Step)) * Step
  IN IF v = NotFinite THEN Smallest
     ELSE IF stepped < Smallest THEN Smallest
     ELSE IF stepped > Largest THEN Largest ELSE stepped

NormalizeFilterPresets(presets) ==
  LET valid == Kept(presets, {i \in DOMAIN presets : presets[i].valid})
  IN [i \in 1 .. (IF Len(valid) < PresetLimit THEN Len(valid) ELSE PresetLimit) |->
        [valid[i] EXCEPT !.session = "none"]]

NormalizeOnboarding(s) ==
  [s EXCEPT !.steps = @ \cap (QuickSteps \cup {"select-packet"}), !.cards = @ \cap Cards]

NormalizeAppSettings(s) ==
  LET o == NormalizeOnboarding(s)
  IN [o EXCEPT !.limit   = ClampPacketRetentionLimit(@),
               !.theme   = IF @ \in Themes THEN @ ELSE "dark",
               !.presets = NormalizeFilterPresets(@)]

DefaultAppSettings == NormalizeAppSettings(Unreadable)

TakenAsFound(found) == found    \* faulty: trusts what is in the storage

(***************************************************************************)
(* resolvePersistedSettings: no settings, or some without a valid field,   *)
(* come out as the defaults.                                               *)
(***************************************************************************)
ResolvePersistedSettings(found) == NormalizeAppSettings(found)

----------------------------------------------------------------------------
(* The Quick Start panel *)

ShowQuickStartPanel(s) == ~s.dismissed /\ "quick-start" \notin s.cards

(***************************************************************************)
(* The two effects of the panel while it is shown: steps that hold are     *)
(* added to the completed ones for good, and with the last of the four the *)
(* panel dismisses itself.                                                 *)
(***************************************************************************)
QuickStartEffects(s, holding) ==
  LET completed == s.steps \cup holding
  IN IF ShowQuickStartPanel(s)
     THEN [s EXCEPT !.steps = completed, !.dismissed = QuickSteps \subseteq completed]
     ELSE s

----------------------------------------------------------------------------
(* The store *)

TypeOK ==
  /\ settings.limit \in Smallest .. Largest
  /\ drafts \in [Inputs -> Nat]
  /\ focus \in Inputs \cup {"none"}
  /\ packets \in 0 .. MaxPackets
  /\ facts \subseteq QuickSteps \cup {"select-packet"}

(***************************************************************************)
(* The settings become new: normalised, then seen by the Quick Start       *)
(* panel, then written.  The drafts follow a limit that has changed.       *)
(***************************************************************************)
SettingsBecome(new) ==
  LET s == QuickStartEffects(NormalizeAppSettings(new), facts)
  IN /\ settings' = s
     /\ stored' = s
     /\ drafts' = IF s.limit = settings.limit THEN drafts ELSE [i \in Inputs |-> s.limit]

Start(found, holding) ==
  LET s == ResolvePersistedSettings(found)
      t == QuickStartEffects(s, holding)
  IN /\ settings' = t
     /\ stored' = IF t = s THEN found ELSE t
     /\ drafts' = [i \in Inputs |-> t.limit]
     /\ focus' = "none"
     /\ packets' = 0
     /\ facts' = holding

Init ==
  /\ stored \in Raw \cup {Unreadable}
  /\ settings = QuickStartEffects(ResolvePersistedSettings(stored), {})
  /\ drafts = [i \in Inputs |-> settings.limit]
  /\ focus = "none" /\ packets = 0 /\ facts = {}

----------------------------------------------------------------------------
(* The limit and its inputs *)

Type(i, v) ==
  /\ focus \in {i, "none"}
  /\ focus' = i
  /\ drafts' = [drafts EXCEPT ![i] = v]
  /\ UNCHANGED <<settings, stored, packets, facts>>

TrimToRetentionLimit(limit) == packets' = IF packets > limit THEN limit ELSE packets

(***************************************************************************)
(* commitPacketLimit and updatePacketRetentionLimit: the draft is set by   *)
(* hand too, since the effect on the limit does not run when the committed *)
(* text comes out as the limit there was.                                  *)
(***************************************************************************)
CommitPacketLimit(i, v) ==
  LET limit == ClampPacketRetentionLimit(v)
      s     == QuickStartEffects(NormalizeAppSettings([settings EXCEPT !.limit = limit]), facts)
  IN /\ settings' = s
     /\ stored' = s
     /\ drafts' = IF limit = settings.limit THEN [drafts EXCEPT ![i] = limit]
                  ELSE [j \in Inputs |-> limit]
     /\ focus' = "none"
     /\ TrimToRetentionLimit(limit)
     /\ UNCHANGED facts

Blur(i) == focus = i /\ CommitPacketLimit(i, drafts[i])

ChooseLimit(i, v) == focus = "none" /\ CommitPacketLimit(i, v)    \* the three buttons

AddPacket ==
  /\ packets < MaxPackets
  /\ packets' = IF packets = settings.limit THEN packets ELSE packets + 1
  /\ UNCHANGED <<settings, stored, drafts, focus, facts>>

----------------------------------------------------------------------------
(* The other changes; a click takes the focus from the inputs first *)

Click(new) ==
  /\ focus = "none"
  /\ SettingsBecome(new)
  /\ UNCHANGED <<focus, packets, facts>>

SetTheme(t) == t # settings.theme /\ Click([settings EXCEPT !.theme = t])

SavePreset(id) ==
  /\ Len(settings.presets) < MaxPresets
  /\ Click([settings EXCEPT !.presets = <<Preset(id, "s1")>> \o @])

DismissOnboardingCard(c) ==
  /\ IF c = "quick-start" THEN ShowQuickStartPanel(settings) ELSE c \notin settings.cards
  /\ Click([settings EXCEPT !.cards = @ \cup {c},
                            !.steps = IF c = "quick-start" THEN @ \cup facts ELSE @,
                            !.dismissed = @ \/ c = "quick-start"])

RestartOnboarding ==
  Click([settings EXCEPT !.steps = {}, !.cards = {}, !.dismissed = FALSE])

ResetSettings ==
  /\ focus = "none"
  /\ SettingsBecome(DefaultAppSettings)
  /\ TrimToRetentionLimit(DefaultAppSettings.limit)
  /\ UNCHANGED <<focus, facts>>

(***************************************************************************)
(* Packets arrive, one is selected, replayed, a filter is set or cleared.  *)
(***************************************************************************)
FactsBecome(new) ==
  LET s == QuickStartEffects(settings, new)
  IN /\ new # facts
     /\ facts' = new
     /\ settings' = s
     /\ stored' = IF s = settings THEN stored ELSE s
     /\ UNCHANGED <<drafts, focus, packets>>

Restart == Start(stored, {})

----------------------------------------------------------------------------

Next ==
  \/ \E i \in Inputs : \/ \E v \in {0, Smallest + 1, Largest + Step} : Type(i, v)
                       \/ Blur(i)
                       \/ \E v \in {Smallest, Largest} : ChooseLimit(i, v)
  \/ AddPacket
  \/ \E t \in Themes : SetTheme(t)
  \/ SavePreset("d")
  \/ \E c \in Cards : DismissOnboardingCard(c)
  \/ RestartOnboarding \/ ResetSettings \/ Restart
  \/ \E new \in {{}, {"view-timeline"}, QuickSteps} : FactsBecome(new)

Spec == Init /\ [][Next]_settingsVars

----------------------------------------------------------------------------
(* Properties *)

(***************************************************************************)
(* Whatever was found in the storage, the settings in use are normal, and  *)
(* a restart at any moment brings up the same ones.                        *)
(***************************************************************************)
SettingsSurvive ==
  /\ NormalizeAppSettings(settings) = settings
  /\ ResolvePersistedSettings(stored) = settings

(***************************************************************************)
(* An input of the limit that is not being edited shows the limit in       *)
(* force, in both places, and the timeline never holds more than it.       *)
(***************************************************************************)
InputsShowTheLimit ==
  /\ \A i \in Inputs : focus # i => drafts[i] = settings.limit
  /\ packets <= settings.limit

============================================================================

------------------------------ MODULE MCStores ------------------------------
(***************************************************************************)
(* The frontend's stores, what is derived from the timeline, its           *)
(* scrolling, the palette and the plugin registry, one at a time: each     *)
(* behaviour is about one `subject`, which never changes, and takes the    *)
(* steps of that component while the others keep an initial state; with    *)
(* another subject it takes none.  They share no state here, so one run    *)
(* explores each of them as a run of its own would.  MCData adds what is   *)
(* operators only; DataProofs proves theorems about these.                 *)
(***************************************************************************)
EXTENDS TimelineFilters

CONSTANTS
  Urls, Typed, Template, DemoUrl, Envs, ListLimit, MaxConnections,    \* ConnectionList
  VariableKeys, InvalidKey, Values, Literal, MaxEdits,                \* EnvironmentStore
  Sessions, Retained, MaxArrivals,                                    \* UiSelection
  Smallest, Largest, Step, KeptPresets, MaxTrimmed, MaxPresets,       \* SettingsStore
  Overscan, Viewport, MaxItems,                                       \* TimelineScroll
  ListedSessions, ListedEnvironments,                                 \* CommandPalette
  Contents, AuthWindow, ReconnectWindow, Gaps, MaxRelated,            \* PacketRelations
  LocalPlugins, DecoderIds, MaxPlugins,                               \* PluginRegistry
  Nothing

(***************************************************************************)
(* What a selection, a connection or a session may lack is no packet.      *)
(***************************************************************************)
ASSUME SelectionAssumption == {Retained, MaxArrivals} \subseteq Nat /\ Nothing \notin Nat

VARIABLES
  subject,
  connections, selectedConnection, activeConn, status, socket, stranded, endpoint, redial,
  demoConn, envUrl, activeEnv, persists, stored, ids,
  environments, active, edits,
  timeline, batch, due, latest, selected, mode, session, hiding, arrived,
  settings, settingsStored, limitDrafts, focus, packetCount, facts,
  autoScroll, top, items, newest,
  world, isOpen, query, activeIndex,
  packets,
  plugins, enablement, threw

List == INSTANCE ConnectionList WITH
  Limit <- ListLimit, MaxIds <- MaxConnections, None <- Nothing, selected <- selectedConnection

(***************************************************************************)
(* The user types URLs; the endpoint that demos go by is neither a         *)
(* WebSocket URL nor the template; an environment is active at any time.   *)
(***************************************************************************)
ASSUME ListAssumption ==
  /\ Typed # {} /\ Typed \subseteq Urls /\ Envs # {} /\ DemoUrl \notin Urls \cup {Template}
  /\ {ListLimit, MaxConnections} \subseteq Nat /\ Nothing \notin List!Entry

Env == INSTANCE EnvironmentStore WITH
  UniqueKeys <- SetToSeq(VariableKeys), Empty <- ""

(***************************************************************************)
(* A variable's value may be empty; the keys addVariable picks match the   *)
(* pattern; a piece that stands for itself is not a token's key.           *)
(***************************************************************************)
ASSUME KeysAssumption ==
  /\ IsFiniteSet(VariableKeys) /\ InvalidKey \notin Env!ValidKeys
  /\ "" \in Values /\ \E v \in Values : v # ""
  /\ (Values \cup {Literal}) \cap Env!ValidKeys = {} /\ "****" \notin Values

ASSUME EditsAssumption == MaxEdits \in Nat

Selection == INSTANCE UiSelection WITH MaxPackets <- MaxArrivals, None <- Nothing

Settings == INSTANCE SettingsStore WITH
  PresetLimit <- KeptPresets, MaxPackets <- MaxTrimmed, stored <- settingsStored, drafts <- limitDrafts,
  packets <- packetCount

(***************************************************************************)
(* The ends of the range are limits that can be chosen.                    *)
(***************************************************************************)
ASSUME LimitsAssumption ==
  /\ {Smallest, Largest, Step, KeptPresets, MaxTrimmed} \subseteq Nat
  /\ Step > 0 /\ Smallest <= Largest /\ Smallest % Step = 0 /\ Largest % Step = 0

Scroll == INSTANCE TimelineScroll

ASSUME ScrollAssumption == {Viewport, MaxItems} \subseteq Nat /\ Overscan \in Nat \ {0}

Palette == INSTANCE CommandPalette WITH
  Sessions <- ListedSessions, Environments <- ListedEnvironments

ASSUME PaletteAssumption == {ListedSessions, ListedEnvironments} \subseteq Nat

Relating == INSTANCE PacketRelations WITH Steps <- Gaps, MaxPackets <- MaxRelated

ASSUME GapsAssumption == Gaps \subseteq Nat

Registry == INSTANCE PluginRegistry WITH Plugins <- LocalPlugins

(***************************************************************************)
(* What may be registered is a SocketLensPlugin; the registry holds the    *)
(* core plugin from the beginning.                                         *)
(***************************************************************************)
ASSUME PluginsAssumption ==
  /\ MaxPlugins \in Nat \ {0}
  /\ \A p \in LocalPlugins :
       /\ {p.local, p.label, p.byDefault} \subseteq BOOLEAN
       /\ p.decoders \in Seq([id : DecoderIds, priority : Int, accepts : {"yes", "no", "throws"}, works : BOOLEAN])

----------------------------------------------------------------------------
listVars == <<connections, selectedConnection, activeConn, status, socket, stranded, endpoint,
              redial, demoConn, envUrl, activeEnv, persists, stored, ids>>
envVars == <<environments, active, edits>>
selectionVars == <<timeline, batch, due, latest, selected, mode, session, hiding, arrived>>
settingsVars == <<settings, settingsStored, limitDrafts, focus, packetCount, facts>>
scrollVars == <<autoScroll, top, items, newest>>
paletteVars == <<world, isOpen, query, activeIndex>>
registryVars == <<plugins, enablement, threw>>

storesVars ==
  <<subject, barVars, listVars, envVars, selectionVars, settingsVars, scrollVars, paletteVars,
    packets, registryVars>>

StoresInit ==
  /\ Init /\ List!Init /\ Env!Init /\ Selection!Init /\ Settings!Init
  /\ Scroll!Init /\ Palette!Init /\ Relating!Init /\ Registry!Init

StoresBut(name) ==
  /\ UNCHANGED subject
  /\ IF name = "bar"          THEN TRUE ELSE UNCHANGED barVars
  /\ IF name = "list"         THEN TRUE ELSE UNCHANGED listVars
  /\ IF name = "environments" THEN TRUE ELSE UNCHANGED envVars
  /\ IF name = "selection"    THEN TRUE ELSE UNCHANGED selectionVars
  /\ IF name = "settings"     THEN TRUE ELSE UNCHANGED settingsVars
  /\ IF name = "scroll"       THEN TRUE ELSE UNCHANGED scrollVars
  /\ IF name = "palette"      THEN TRUE ELSE UNCHANGED paletteVars
  /\ IF name = "relations"    THEN TRUE ELSE UNCHANGED packets
  /\ IF name = "registry"     THEN TRUE ELSE UNCHANGED registryVars

StoresNext ==
  \/ subject = "bar"          /\ Next           /\ StoresBut("bar")
  \/ subject = "list"         /\ List!Next      /\ StoresBut("list")
  \/ subject = "environments" /\ Env!Next       /\ StoresBut("environments")
  \/ subject = "selection"    /\ Selection!Next /\ StoresBut("selection")
  \/ subject = "settings"     /\ Settings!Next  /\ StoresBut("settings")
  \/ subject = "scroll"       /\ Scroll!Next    /\ StoresBut("scroll")
  \/ subject = "palette"      /\ Palette!Next   /\ StoresBut("palette")
  \/ subject = "relations"    /\ Relating!Next  /\ StoresBut("relations")
  \/ subject = "registry"     /\ Registry!Next  /\ StoresBut("registry")

StoresSpec == StoresInit /\ [][StoresNext]_storesVars

----------------------------------------------------------------------------
(* Properties *)

(***************************************************************************)
(* ui-store.ts, packet-store.ts: the selection is of a packet that the     *)
(* timeline shows, or of none.                                             *)
(***************************************************************************)
SelectedIsShown == IF subject = "selection" THEN Selection!TypeOK /\ Selection!SelectedIsShown ELSE TRUE

(***************************************************************************)
(* While the user looks at an older packet, arriving packets and timers do *)
(* not move the selection (ui-store.ts).                                   *)
(***************************************************************************)
ManualSelectionStays ==
  [][IF subject = "selection" THEN Selection!SelectionStays ELSE TRUE]_storesVars

(***************************************************************************)
(* connection-store.ts: the list shows as live exactly what is, and local  *)
(* storage honours the privacy setting.                                    *)
(***************************************************************************)
ListConsistent == IF subject = "list" THEN List!TypeOK /\ List!ListConsistent ELSE TRUE

(***************************************************************************)
(* A restart or an import never changes what a template stands for         *)
(* (models/environment.ts, environment-persistence.ts).                    *)
(***************************************************************************)
EnvironmentsKeepMeaning ==
  [][IF subject = "environments" THEN Env!RestoredAlike /\ Env!ImportedAlike ELSE TRUE]_storesVars

(***************************************************************************)
(* settings-store.ts, settings-persistence.ts: whatever storage held, the  *)
(* settings are normal and survive a restart, and the inputs and the       *)
(* timeline follow the limit in force.                                     *)
(***************************************************************************)
SettingsSurvive ==
  IF subject = "settings"
  THEN Settings!TypeOK /\ Settings!SettingsSurvive /\ Settings!InputsShowTheLimit ELSE TRUE

(***************************************************************************)
(* command-palette.tsx, packet-timeline.tsx, environment-store.ts,         *)
(* plugin-registry.ts: Enter reaches a listed command, every visible row   *)
(* is rendered, a timeline that follows shows the newest packets, the      *)
(* active environment is one of the list, no profile's label shows a       *)
(* secret, and every packet decodes, by the best willing decoder of the    *)
(* enabled plugins.                                                        *)
(***************************************************************************)
ListsAreUsable ==
  /\ IF subject = "palette" THEN Palette!TypeOK /\ Palette!PaletteIsUsable ELSE TRUE
  /\ IF subject = "scroll"
     THEN Scroll!FollowingIsNearTheTop /\ Scroll!ViewportIsRendered ELSE TRUE
  /\ IF subject = "bar" THEN TypeOK /\ PresetsAreUsable ELSE TRUE
  /\ IF subject = "environments" THEN Env!TypeOK /\ Env!ActiveIsListed /\ Env!PreviewsHideSecrets ELSE TRUE
  /\ IF subject = "registry" THEN Registry!TypeOK /\ Registry!RegistryLaws ELSE TRUE

(***************************************************************************)
(* packet-relationships.ts, flow-analysis.ts, packet-grouping.ts: what is  *)
(* derived from any timeline is well formed and stable.                    *)
(***************************************************************************)
RelationLaws == IF subject = "relations" THEN Relating!RelationLaws ELSE TRUE

=============================================================================

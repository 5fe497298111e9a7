# SocketLens in TLA+

SocketLens is a desktop inspector for WebSocket traffic: a React frontend
(`src/apps/desktop/src`) with Zustand stores, and a Tauri backend in Rust
(`src/apps/desktop/src-tauri/src`) that runs a local WebSocket proxy. This
directory holds TLA+ models of the parts of it where order matters, the TLC
configurations that check them, and proofs that TLAPS checks.

Short source paths below are relative to `src/apps/desktop/src`, except
`proxy.rs`, `session.rs` and `commands.rs`, which are in `src-tauri/src`.

## 1. Inventory

### Components

| Component | State | Operations | Hard behaviour | What makes it correct | Here |
|---|---|---|---|---|---|
| Proxy backend (`proxy.rs`, `session.rs`) | `ProxyRuntime` behind a mutex (generation, flags, address, handles, `active_connections`); one listener task per run; one task per client; a broadcast channel per run; the session registry | `start`, `stop`, `mark_stopped`, accept, connection phases, registry open/close | threads; `stop()` goes on after it released the mutex; receivers that subscribe late; leftovers of one run in the next | status agrees with the listener; one listener at a time; counters agree with tasks; a stopped run ends | `Proxy`, `ProxyPeers`, `ProxyLifecycle`, `ProxyProofs` |
| Forwarding loops (`proxy.rs`, `forward_messages`) | two loops polled by one `select!`, frames in flight | read, capture, write, close frame, failure, shutdown | the first loop that returns drops the other at any await; a write waits for its peer | what is shown is what is forwarded; a close frame is the last; a shutdown ends it if a peer reads | `ProxyForwarding`, `ProxyPeers`, `ForwardingProofs` |
| Proxy status in the frontend (`App.tsx`, `commands.rs`) | `proxyStatus`, `nativeBackendState`, `proxyBusy` | buttons, command results, session events, reload | results race events; commands of a page that is gone; none or two listeners for an event | a page whose commands are answered shows what the backend is | `ProxyMirror`, `MirrorProofs` |
| Packet timeline (`store/packet-store.ts`) | `packets`, a batch and its timer outside the store, the retention limit | add, bulk add, clear, annotate, trim, timer | two places where packets live, retention in between | ordered, bounded, no packet twice, cleared packets stay away | `PacketStore`, `Arrangements`, `Capture`, `CaptureProofs`, `ArrangementProofs` |
| Session store (`store/session-store.ts`) | list of at most 20 sessions with counters, a batch and its timer | start, import, rename, remove, status, record, timer | counts arrive later than packets, sessions come and go | counters agree with what was recorded | `SessionStore`, `Capture`, `CaptureProofs` |
| Direct connections (`store/connection-store.ts`) | socket, active session and connection, status flags, persisted list of at most 20 | connect, disconnect, reconnect, socket handlers, send, save, select, clear, dispose | handlers of an old socket, an await inside `onmessage`, a 120 ms delay inside `reconnect`, entries pushed off the list, restarts | one live socket, truthful flags, sessions that end, a list that shows as live what is | `DirectConnection`, `ConnectionList`, `DirectProofs`, `DataProofs` |
| Proxy event listeners (`lib/proxy-events.ts`) | the current set of Tauri listeners | register, clean up | four promises while another registration or a cleanup happens, one of them failing | exactly the listeners of the effect in force, once no promise is outstanding | `ProxyListeners`, `ProxyMirror`, `InterfaceProofs` |
| Selection (`store/ui-store.ts`, effects of `App.tsx`) | selected packet, follow/manual mode, a 16 ms timer | select, follow, arrive, clear, filter, switch session | a timer that selects after the list changed | a selected packet is one that is shown; manual mode stays | `UiSelection`, `DataProofs` |
| Demos (`demo/*.ts`) | timers, step index, `demoMode` | start, stop, step, reset | two demos and a real connection exclude each other | one source of packets at a time | `DemoModes`, `InterfaceProofs` |
| Replay panel (`components/manual-send-panel.tsx`) | running sequence, run number | start, step, cancel, load, send | runs on while the connection changes | sequences do not mix, "running" can be left | `ReplayPanel`, `InterfaceProofs` |
| AI analysis (`components/ai-analysis-panel.tsx`, `lib/ai`) | requests under way, what the panel shows | ask, timeout, answer, change of provider and selection | an answer for an older action | the panel shows the last action; a prompt holds the packets it should | `AiAssistant`, `AiContext`, `InterfaceProofs` |
| Environments (`store/environment-store.ts`, `models/environment.ts`) | list, active environment | add, copy, edit, remove, import, interpolate, restart | deleting the active one, what cleaning up drops | an active one that is listed; templates keep their meaning | `EnvironmentStore`, `DataProofs` |
| Relationships, flows, groups (`lib/packet-*.ts`, `lib/flow-analysis.ts`) | none | derived from the timeline | ties, trimming, ids used twice | relations point forward, one answer a request, groups that stay | `PacketRelations`, `DataProofs` |
| Filters (`extensions/filter-engine.ts`, `models/filter-state.ts`) | none | compile, match, normalise | order of operators, negation, absent values | agrees with reference definitions | `Filters` |
| Timeline (`components/packet-timeline.tsx`) | drafts with debounce timers, presets, scroll position | type, timer, presets, reset, scroll, new rows | a timer over a changed filter; programmatic scrolling | drafts are fresh; visible rows are rendered | `TimelineFilters`, `TimelineScroll`, `DataProofs` |
| Session files, redaction (`models/session-*.ts`, `App.tsx`) | a pending confirmation, files being written | export, confirm, save, load, import | ids that collide, edited files, an export whose confirmation is older than its data | no secret in a redacted file; loading restores what was saved, within the retention limit | `SessionFiles`, `SessionFileFormat`, `Redaction`, `PayloadTrees`, `InterfaceProofs` |
| Settings (`store/settings-store.ts`, `lib/settings-persistence.ts`) | settings, drafts of the limit, onboarding | update, normalise, restart | any content of the storage | normal settings that survive a restart | `SettingsStore`, `DataProofs` |
| Plugins and decoders (`extensions/*`) | registry, enablement | register, enable, decode | priorities, throwing decoders, lookalike frames | every packet decodes, by the best enabled decoder | `PluginRegistry`, `PacketDecoding`, `DataProofs` |
| Command palette (`components/command-palette.tsx`, `App.tsx`) | query, highlighted index | open, type, move, run | the list changes under the highlight | Enter reaches a listed command that its handler accepts (a replay while the socket closes apart) | `CommandPalette`, `DataProofs` |
| Exports, diagnostics (`lib/asyncapi-export.ts`, `lib/diagnostics-bundle.ts`) | none | formatting | none | - | not modelled: text |
| Native commands (`commands.rs`) | none | thin wrappers | - | - | through `Proxy` and `ProxyMirror` |
| Other presentation, landing page, examples, scripts | none | - | - | - | not modelled |

### How they interact

- The backend emits `proxy://` events (session started, packet, session closed,
  error). `App.tsx` turns each into calls to the session store and the packet
  store, and starts and stops the proxy through Tauri commands.
- `connection-store.ts` and the demos call both stores directly, in the handler
  of the socket event or the timer that brought the packet.
- Each of the two stores batches on a timer of its own; readers of one may be
  ahead of readers of the other.
- The demos refuse to start over a connection, and `connect()` refuses to start
  during a demo.

JavaScript runs every handler to its end, so each handler, timer callback and
stretch between two awaits is one action. In the backend each critical section,
channel operation and stretch of a task between two awaits is one action, since
tokio runs tasks on several threads.

## 2. Modules and how they correspond to the code

`PROJECT.json` maps each definition to the lines it models.

**Proxy.** `generation`, `isRunning`, `listenUrl`, `targetUrl`, `active` and
`handles` are the fields of `ProxyRuntime`; a run is one successful `start()`
and goes by its generation. `Start` is one action because `start()` holds the
mutex throughout, across the bind. `stop()` is four actions: `StopTake` under
the mutex, then `StopBroadcast`, `StopListener` and `StopAbort` without it.
`Accept`, `ListenerLeaves`, `ListenerAborted` and `MarkStopped` are the listener
task. A connection's task goes through `IncrementActive`, `RegisterSession`,
`AnnounceSession`, `Subscribe`, `HandshakeDone`, `TargetConnected`, some end
(`HeardShutdown`, `ConnectFailed`, `ForwardingEnds`), `CloseSession` and
`DecrementActive`. `heard` says that a *current* receiver holds the shutdown
message: each await of `proxy_connection` subscribes a new receiver, which knows
nothing of earlier messages.

**ProxyPeers** extends `Proxy` with what its liveness depends on. A loop of
`forward_messages` hears the shutdown only at its `select!`, and `writer.send()`,
of a frame as of the close frame that follows the shutdown, waits for the peer.
`reading` says which peers take what is written to them, `loop` where each of the
two loops is: `FrameRead`, `FrameWritten`, `LoopHears` and `GoodbyeSaid` are its
steps. Everything else is the step of `Proxy`.

**ProxyLifecycle.** The abstract promise: runs are opened one after the other,
at most one is open, its address is the one shown, and a stopped one is
eventually released. `Proxy!RunPhase` is the refinement mapping.

**ProxyForwarding.** Details the phase "forwarding" of one connection: both
loops with the frame in hand, the packet events captured, the frames written,
and the `select!` in which the first result drops the other loop.

**PacketStore, SessionStore, Capture.** The two stores as modules with their
variables and operations, and `Capture`, which composes them the way the rest of
the program drives them: one action is one handler that calls both.
A packet is its arrival number, its session and its timestamp. `clearedUpTo` and
`recorded` are history variables of the properties.

**Arrangements** says what sorting by timestamp and filtering make of a list, for
every module that does either: the result is given by the places its members come
from (a member's place is the number of members before it), so that facts about it
can be proved without induction over sequences.

**DirectConnection.** Every `connect()` that gets as far as a socket is a
numbered attempt, which owns one WebSocket (`ready`, `attached`) and one session
(`session`). `Connect`, `Disconnect`, `Reconnect`, `DelayOver` are the user's
operations, `Opened`, `Closed`, `Failed`, `Message` the handlers, `Normalized`
what follows the await in `onmessage`, `StartsClosing` the browser's part of a
close. A socket without handlers only changes its `readyState`. `Restart` is a
closed window or a crash followed by a start from what was persisted. `replaced`
is a history variable.

**ProxyMirror** extends `Proxy`: the backend's steps are the same definitions,
two of which also emit an event to the page. Commands wait in `calls` and are
executed in any order, answers wait in `answers`, events come in order from
`inbox`. The listeners are those of `ProxyListeners`, for the two session events: a
change of the language registers them anew, and an event goes to every listener
that was there when it was emitted and still is when it arrives, which may be none
or two (`Reached`, `Heard`); `Patched` is applied once for each. A registration that
fails takes the backend for broken. `Reload` starts another page: it sends
`stop_proxy` twice, once for each of the two browser events that run
`cleanupBeforeClose`, and forgets everything that was under way to the old page.
`overtaken`, `missed` and `surplus` are history variables: the three ways in which
the copy may come to be wrong.

**ProxyListeners.** `proxy-events.ts` and the effect of `App.tsx` that uses it. A
registration is a number with its outstanding `listen()` promises, one by one;
`generation` is `registrationGeneration`, `holder` who owns the stored cleanup.
`Resolved` is what follows the awaits: a
registration that a later one overtook takes its listeners back, which until then
are live.

**DemoModes.** Both demos with `demoMode`, their intervals, sessions and entries,
and the connection as far as the guards look at it. **ReplayPanel.** The
sequence as an async loop: `HandleReplaySequence` takes the copy of the packets,
`DelayEnds` is what a loop does when its delay is over, with the run number
checked as in the code, and the render effect is part of every step. **AiAssistant.** Requests in flight
with the mount and the provider they were made with. **AiContext.** Which packets
a prompt holds and when an action is available, as operators; sorting and picking
out are those of `Arrangements`.

**UiSelection.** The selection with the two 16 ms timers; the repairing effect of
`App.tsx` is part of every action. **ConnectionList.** The list of
`connection-store.ts`, its limit, templates, demo entries and persistence; it
takes over from `DirectConnection` what that leaves out. `socket` is as much of the
socket as `connect()` looks at: none, live or closing. A `connect()` is refused by a
live one only; a closing one it lets go, and its connection's entry is `stranded`. **EnvironmentStore.**
Texts are sequences of pieces, so interpolation is a function on them; a URL may hold
a secret's value as it was typed (`TypedUrls`).
**SettingsStore.** One field for each kind of normalisation, starting from any
content of the storage. **TimelineFilters, TimelineScroll.** The bar's drafts and
timers, its presets; following and windowed rendering, in half rows.
**CommandPalette.** The commands with their conditions and what their handlers
accept; `open` is the socket's state, which only the handlers see. **PluginRegistry.** Registration, enablement and the choice of a decoder.

**PacketRelations, PacketDecoding, Redaction, Filters, SessionFileFormat** hold
the pure algorithms, on records that keep what the code looks at. **PayloadTrees**
holds the payloads that redaction walks through: texts and JSON trees. Redaction of
a tree is a recursive function over them.
**SessionFiles** is the panel with its pending confirmation, the files and the
import with new ids. A session has an endpoint, a close reason and a name, and the
name that a file gets is the one typed in the panel. Whatever is put on the timeline
is merged and cut off at the retention limit in one step (`Merged`).

**MCProxy, MCCapture** add symmetry sets for TLC. **MCInterface**, **MCStores**
and **MCData** instantiate the components of the frontend that share no state with
each other; a behaviour is about one of them (`subject`) and leaves the rest in an
initial state. One run then explores each component exactly as a run of its own
would, and a pure algorithm over all inputs of the instance (`sample`). `MCStores`
holds the stores (filter bar, connection list, environments, selection, settings),
the scrolling timeline, the palette, the plugin registry and the relations of a
growing timeline, with their properties, and is what `DataProofs` is about; `MCData`
extends it with the pure algorithms, which are only model-checked.

**ProxyProofs, DirectProofs, ForwardingProofs, CaptureProofs, MirrorProofs,
InterfaceProofs, DataProofs** hold the theorems (section 4), **ArrangementProofs**
the lemmas about `Arrangements` that three of them use.

### Faulty variants

Some operations come with a variant marked *faulty*: the same step with a
plausible mistake (a dropped generation check, a missing reset, a comparator the
wrong way round). No specification uses them. `PROJECT.json` pairs each property
with the one that violates it, which shows that the property can fail at the
instance it is checked at.

## 3. Runs

| Run | Shows | Bounds |
|---|---|---|
| `proxy` | `StatusMatchesListener`, `RegistryCountsOpenSessions`, `ActiveCountBounds`, types | two runs, three clients |
| `proxy_live` | `StoppedListenerEnds`, `SignalledLoopEnds`, `ImplementsLifecycle`, with peers that need not read (`ProxyPeers`) | two runs, one client |
| `forwarding` | `CaptureIsTranscript`, `CloseIsFinal`, `ShutdownEndsForwarding` | two frames a direction |
| `capture` | `TimelineOrderedAndBounded`, `BatchesAreScheduled`, `EachPacketOnceUntilCleared`, `CountersMatchRecorded`, `RetentionDropsOldest` | three packets, three sessions in a list of two, two timestamps, limits 1 and 2, batches of 2 and 3 |
| `direct` | `LiveSocketIsCurrent`, `ConnectedMeansOpened`, `SessionsEndUnlessReplaced`, `ListedStatusIsBacked`, `NoPacketAfterTheEnd`, `EverySessionDecided` | two attempts to two endpoints, one frame, one waiting reconnect |
| `mirror` | `MirrorIsTruthful`: a settled page agrees with the backend; no client is shown that is known to be gone, but for starts that two registrations heard | two runs, two pages, one client, two registrations a page, `MaxMoves` 4 |
| `interface` | `ListenersMatchMount`, `MountedEndsUpListening` (listeners); `DemosExclude`, `TimersRunOut` (demos, replay, AI); `SequencesAreCancellable` (replay); `PanelShowsTheLastAction` (AI); `FilesAreSafe`, `LoadRestoresTranscript` (files) | three registrations of two events; three demos of two steps; three sequences of up to three packets over two connections; two AI requests, two packets, two URLs; two captured packets, limits of one and three, two sessions, one file written, one file dialog at a time |
| `data` | `SelectedIsShown`, `ManualSelectionStays` (selection); `ListConsistent` (connection list); `EnvironmentsKeepMeaning`; `RelationLaws`; `DraftsAreFresh` (filter bar); `ListsAreUsable` (palette, scrolling, presets, environments, plugins); `SettingsSurvive`; `OperatorLaws` (decoding, redaction, filters, files, prompts) | three packets over a retention of two; a list of two with three entries created, of which a reconnect, an edited environment and persistence switched on again leave two to be created after them; two edits of three preset environments; three packets, two sessions; three presets over a limit of two; twelve rows; three plugins; every input of the pure algorithms below |
| `proxy_stop`, `mirror_twice`, `direct_close`, `redacted_name` | a sentence of the documentation that the code does not keep (section 6) | the smallest instance with the case |

Why the bounds are enough. In the proxy, trouble comes from what one run leaves
to the next: two runs give a leftover and a victim, and three clients allow one
of the old run that ends late next to two of the new one. In `Capture`, batches
of two and three flush both by size and by timer at different moments, the limit
is reached by three packets and changes while packets wait, two timestamps give
ties and late packets, and the third session pushes one off the list. In
`DirectConnection` every hazard is between an attempt and its successor, with a
delayed reconnect as third party. In `ProxyMirror` a start of the second page can
meet the stop the first one left, with the first run's client still ending. Its
listeners may be registered anew on either page; to keep the combinations few,
`MaxMoves` lets that, and a reload, happen only while at most one of a first run, a
reload and a second registration has happened; a start beyond that waits until the
page's registration is over, and is left out on a page that registered anew. An event needs two
overlapping registrations to be heard twice or not at all, and one client to be
counted wrongly. Two overlapping registrations and a third after them cover every order of awaits and
cleanups; a second event is the one that fails after another succeeded. A demo
can be started over either other one. Three sequences of up to three packets make
a sequence meet the end of an earlier one whose delay is still running; two AI
requests and three mounts give an answer for each earlier action and page. An
import next to a captured session, twice the captured packets, reaches every
collision of ids and every link within a file and out of it, and a limit of one or
three is reached by it, also when it is changed between saving and loading. A connection list of two with
three ids pushes one off while it is active; two edits of three environments
reach duplicate keys, empty values and a deleted active one; three packets over a
retention of two trim the selected one with a timer pending. Where an operation
depends on a limit (20 connections, 24 presets, the retention, 4 neighbours and 40 packets of
a prompt, the scroll overscan) the limit is a constant small enough to be passed. `Spec`
of these modules has no other bound; every bounding constant is marked `bound`
where it is declared.

The inputs of the pure algorithms: every frame of five Socket.IO parts, every
JSON message of the types the decoders know, payload trees of depth two with a
plain and a sensitive key, filters over two sessions with every operator, files
whose every field has every JSON type, contexts of up to three packets. Beyond
depth two a tree is redacted by the same recursive call as at depth one.

Deadlock is disabled where an instance is used up: all runs and clients spent in
`Proxy` and `ProxyMirror`, the connection over in `ProxyForwarding`, the bounds
of a subject reached, or a subject that is one input and takes no step, in
`MCInterface` and `MCData`.

### Fairness

- `ProxyPeers`: weak fairness of the steps of a `stop()` under way, of a listener
  that is told to end and of the steps of each connection's task that wait for no
  peer: tokio schedules every runnable task. Strong fairness of a loop that hears the
  shutdown whenever it is at its select, since `tokio::select!` picks among ready
  branches at random, and of a write whose peer is reading. Users, clients and
  targets are not fair; in particular nothing makes a peer read. `SignalledLoopEnds`
  therefore says that a signalled connection ends *if* one of its peers comes back
  to reading again and again. With neither reading, a loop may wait in
  `writer.send()` for ever, and the session and its slot in the count stay.
- `ProxyForwarding`: weak fairness of writes, which stands for a peer that keeps
  reading or goes away (what happens otherwise is in `ProxyPeers`); strong fairness of hearing the shutdown, because `tokio::select!` picks
  among ready branches at random and the branch stays ready while frames come.
- `DirectConnection`: weak fairness of the end of each opening handshake, since a
  browser fails a connection it cannot open.
- `MCInterface`: weak fairness of each registration's promises (`listen()` settles
  and its continuation runs), of the tick of a demo's interval, of the delays of a
  replay sequence, and of the timeout of each AI request that waits for its
  headers. All are timers or promises that the runtime settles; users and
  providers are not fair. `TimersRunOut` claims no end of a response's body: the
  timeout is cleared when the headers arrive, and a body may take for ever.
- `Proxy`, `Capture`, `ProxyMirror`, `MCData`: none; their properties are safety
  properties.

## 4. Proofs

Every theorem holds for all values of the constants that satisfy the named
assumptions of its modules, which TLC evaluates on the instances of the runs. Most
say only that a bound is a number or that a "none" value is none of the others:
`MaxRunsAssumption`, `NoTargetAssumption`, `BoundsAssumption`, `NoConnAssumption`,
`MaxFramesAssumption`, `CloseFrameAssumption`, `PagesAssumption`,
`MirrorRegsAssumption`, `RegsAssumption`, `DemoAssumption`, `ReplayAssumption`, `PresetAssumption`,
`AllAssumption` (`AllSessions` is what `clearPackets(null)` clears),
`SelectionAssumption`, `EditsAssumption`, `ScrollAssumption` (the overscan is positive: 8),
`PaletteAssumption`, and the bounds of `Capture` (batch sizes
and the session limit are positive in the code: 500, 500, 20). The others:

| Assumption | Says | Why the code justifies it |
|---|---|---|
| `ConnsAssumption` | finitely many clients | they are counted in a `u64` |
| `TimesAssumption` | timestamps are integers | milliseconds of `Date.now()` |
| `AiAssumption` | there is a URL, and the panel is mounted at least once | the provider starts with a default URL |
| `FilesAssumption` | a rule is absent, valid or invalid, and one that is not invalid exists; times and limits are numbers, and there is a limit; the captured packets are among all packets | "no custom rule" always exists, and `packetRetentionLimit` has a default |
| `ListAssumption` | typed endpoints are URLs and there is one; the endpoint of the demos is neither a WebSocket URL nor a template; there is an environment; "nothing" is no entry | `demo://` is refused by `isWebSocketUrl`; the environment store never becomes empty |
| `KeysAssumption` | finitely many keys are picked by `addVariable`; they match the pattern and the invalid key does not; a value may be empty and need not be; values and the literal piece of a URL are no keys, and `****` is no value | `isValidEnvironmentVariableKey`; texts are sequences of pieces |
| `QueryAssumption` | each input of the filter bar may be empty | they start empty, and "Clear filters" empties them |
| `GapsAssumption` | a packet on top of the timeline is not older than the first one | what is put below another is put there by the merge; the timeline is in order (`TimelineCorrect`) |
| `PluginsAssumption` | a plugin's `local`, `label` and default are booleans, and its decoders a list of decoders with whole priorities; the registry has room for the core plugin | `SocketLensPlugin`, `PacketDecoder`; the core plugin is registered by the constructor |
| `LimitsAssumption` of `MCStores` | the limits form a range whose ends are multiples of the step | 10,000 to 100,000 in steps of 10,000 |

| Theorem (in `ProxyProofs`) | States | Inductive invariant |
|---|---|---|
| `TypeCorrect` | `Spec => []TypeOK`: counters of unsigned type never go below zero | `TypeOK` itself; `SaturatingDec` is why |
| `StatusCorrect` | `Spec => []StatusMatchesListener` | `RunsInv` |
| `LifecycleSafe` | `Spec => Lifecycle!SafeSpec`: the backend implements the abstract lifecycle, up to its fairness | `RunsInv` |
| `RegistryCorrect` | `Spec => []RegistryCountsOpenSessions` | `RegistryInv` |
| `ActiveCountCorrect` | `Spec => []ActiveCountBounds` | `CountInv` |

`StatusMatchesListener` is not inductive: it says nothing of the handles, and
a `stop()` that took another run's handles would break it. `RunsInv` adds that
exactly the runs up to `generation` have a listener (`StartedRuns`), that only
the latest run can be one nobody stopped (`UnstoppedRuns`), that a listener ends
only because its own run was stopped (`OnlyStopsEndListeners`), and that the
handles held are those of the run that is running (`HandlesOfTheRun`). From these
`mark_stopped()` of an older run finds a larger `generation`, and one of the
latest run finds `isRunning` already reset.

`ActiveCountBounds` needs in addition that a connection belongs to a run that was
started (`OwnersStarted`): a `start()` then opens a run without connections, so
the count begins right, and each later step moves the count and the two sets by
at most one. `CardinalityByOne` and `CountKept` carry the arithmetic on finite
sets.

`LifecycleSafe` goes action by action: every step of the code is a step of the
abstract run it belongs to or leaves all phases and the shown address alone
(`SameListenersStutter`).

The theorems of `DirectProofs` hold for any endpoints and any number of attempts,
frames and waiting reconnects.

| Theorem (in `DirectProofs`) | States |
|---|---|
| `TypeCorrect` | `Spec => []TypeOK` |
| `LiveSocketCorrect` | `Spec => []LiveSocketIsCurrent` |
| `ConnectedCorrect` | `Spec => []ConnectedMeansOpened` |
| `SessionsCorrect` | `Spec => []SessionsEndUnlessReplaced` |
| `ListCorrect` | `Spec => []ListedStatusIsBacked` |
| `PacketsCorrect` | `Spec => NoPacketAfterTheEnd` |

They share one inductive invariant, `ConnectionInv`. Its core is that the store
holds a socket exactly as long as that socket has its handlers
(`HandlersOfHeldSocket`), that nothing else is live (`LiveIsHeld`), and that the
held socket's state decides the flags, the status and the session (`HeldSocket`).
None of the properties is inductive without these: an `onopen` of a socket that
is not held would set `isConnected` for another one. `ActiveSession` covers the
state that `ConnectFails` leaves, an active session without a socket, from which
`GiveUp` must still find the right list entry. `AttemptsSoFar` says that numbers
not yet used are fresh. The store and the sockets change in few ways, so
`StepsOfTheConnection` first reduces all actions to those (`ConnectionStep`), and
one lemma per kind of step shows that it keeps the invariant. Types of the other
variables need that a frame counts towards its bound from its arrival on
(`TrafficTypes`).

The other components:

| Theorem | States | Inductive invariant |
|---|---|---|
| `ForwardingProofs`: `TypeCorrect`, `CloseCorrect` | `[]TypeOK`, `[]CloseIsFinal` | `ForwardingInv`: both loops are over exactly when there is a result (`LoopsInv`), and while there is none nobody was sent a close frame (`OpenInv`) |
| `ForwardingProofs`: `TranscriptCorrect` | `[]CaptureIsTranscript` | `TranscriptInv` next to `ForwardingInv`: a loop that reads has written all it captured, one that writes has one frame more, and one that ended is in either state |
| `CaptureProofs`: `CountersCorrect`, `BatchesCorrect` | `[]CountersMatchRecorded`, `[]BatchesAreScheduled` | `CaptureInv`: types of what is counted, the counters, and each store's batch with its timer; nothing of the timeline's order is needed |
| `CaptureProofs`: `TimelineCorrect`, `PacketsOnce`, `RetentionCorrect` | `[]TimelineOrderedAndBounded`, `[]EachPacketOnceUntilCleared`, `RetentionDropsOldest` | `TimelineInv`: sorted, within the limit, no packet twice, none both listed and waiting, none that was cleared |
| `MirrorProofs`: `MirrorDrivesProxy` | `MirrorSpec => Spec`: the composition is a refinement of the backend alone, so that all theorems of `ProxyProofs` hold in it | - (step by step: `StepsOfTheBackend`) |
| `MirrorProofs`: `AgreementCorrect` | `MirrorSpec => []AgreesUnlessOvertaken` | `AgreementInv`: `RunsInv` and the stage of the page |
| `MirrorProofs`: `MirrorCorrect` | `MirrorSpec => []MirrorIsTruthful` | `AgreementInv` for the first half, `CountedInv` for `NeverOvercounts`: the events of a connection are in order and fit its phase, and on the first page no status can count a client, so that what is shown is the starts that were heard, and heard twice (`FirstPage`); whatever listeners there are, an event is heard a whole number of times |
| `InterfaceProofs`: `OwnedCorrect`, `MatchCorrect` | `[](TypeOK /\ ListenersAreOwned)`, `[]ListenersMatchMount` | `ListenersInv`: registrations are numbered as they begin (`NumbersInv`), and the holder of the cleanup is resolved, and once settled the one mounted (`HolderInv`) |
| `InterfaceProofs`: `DemoTypeCorrect`, `DemosCorrect` | `[]DemoTypeOK`, `[]DemosExclude` | `DemoInv`: which timer may be set in which mode (`TimersInv`), since stopping a demo clears only its own timer |
| `InterfaceProofs`: `SequencesCorrect` | `[]SequencesAreCancellable` | `ReplayInv`: a run has one loop, a loop's next frame comes after everything its run has sent, what was sent belongs to runs up to the latest and is in their order |
| `InterfaceProofs`: `PanelCorrect` | `[]PanelShowsTheLastAction` | `AiInv`: every request's number is used once (`RequestsInv`), the panel loads exactly while the last action's request is under way (`PanelInv`), the same of the model list and its page's mount (`PageInv`) |
| `InterfaceProofs`: `FilesCorrect` | `[]FilesAreSafe` | `FilesInv`: ids of packets are unique and below the next one, links lead to no later import, and a file in flight is as safe as one written: a secret in its endpoint, close reason or packets only where the user was asked (`RunningInv`, `DiskInv`). Its name is not claimed to be safe: `NameIsRedacted` is false (section 6) |
| `InterfaceProofs`: `TranscriptsCorrect` | `LoadRestoresTranscript`: the newest of the file's packets, all of them unless the timeline is at its limit | `FilesInv`, and what `ArrangementProofs` knows of sorting and picking out (below) |
| `InterfaceProofs`: `ContextCorrect` | `ContextLaws` of any packets that are newest first, any packet selected and any provider | - (about operators) |
| `DataProofs`: `DraftsCorrect` | `BarSpec => []DraftsAreFresh` | `BarInv`: types and the property |
| `DataProofs`: `SelectionCorrect`, `ManualSelectionCorrect` | `StoresSpec => []SelectedIsShown`, `ManualSelectionStays` | `SelectionInv`: each timer is due once, and no two packets, listed or waiting, have one number (below) |
| `DataProofs`: `EnvironmentsCorrect` | `StoresSpec => EnvironmentsKeepMeaning` | `EnvInv`: types, ids given once and below the next, an active one that is listed |
| `DataProofs`: `SettingsCorrect` | `StoresSpec => []SettingsSurvive` | `SettingsInv`: the settings are normal and what is stored resolves to them |
| `DataProofs`: `ListCorrect` | `StoresSpec => []ListConsistent` | `ListInv`, below |
| `DataProofs`: `ListsCorrect` | `StoresSpec => []ListsAreUsable` | `PresetInv` (presets of the filter bar), `EnvInv`, `ScrollInv` (types, and a timeline that follows is near its top), `PaletteInv` (the highlight is within the filtered list), `PluginsInv` (ids are those of one plugin each, and only registered ones have a choice) |
| `DataProofs`: `RelationsCorrect` | `StoresSpec => []RelationLaws` | `TimelineInv`: each packet has a number of its own, up to their count, and a time (below) |

Specifications of `MCInterface` and `MCStores` leave the components alone that a
behaviour is not about, so a theorem about them is one about a component with its
own `Init` and `Next`; the lemmas are about the component's actions. A step of
`MCData` is a `StoresNext` step, so that the theorems of `DataProofs` speak of its
runs too.

`ArrangementProofs` is about lists. `ArrangedInOrder` says that in a strict order
the places of the members are 1 to their number, one each; from it follow
`NewestFirstFacts` (sorting gives the same packets, in order, equal ones as they
were), `KeptFacts` (a filter gives the places kept, in their order) and
`JoinedFacts` (joined lists have the members of each). The one
induction needed, over a bounded range of numbers, is done with sets (`UpTo`:
a set that holds 0 and the successor of each member below `n` holds 0 to `n`); by it
the recursive function of `LeftIndex`, the index of `mergePacketsByTimestamp`, is
shown to exist and to stay in range, from which `Merge` keeps order and loses nothing.

`EachPacketOnceUntilCleared` is not inductive: an arrival could take the number of a
packet that is still held or was cleared. `TimelineInv` bounds both by `arrived`.
`RetentionCorrect` compares a packet that left with all that stay, also when one step
flushes and changes the limit and so cuts the list off twice.

`SelectionInv`: were a number given twice, a selected packet that goes out of sight
could be taken for one that is to be seen. `EnvInv`: what cleaning up drops
(variables without a valid key, profiles without a name or a URL) is looked up by no
template (`LookupFacts`). `SettingsInv`: normalising is idempotent, and the onboarding
effects keep normal settings normal (`EffectsFacts`).

`ListInv` says of the list in memory that it is within the limit, with distinct ids
(`Lists`), and that only the active connection's or the demo's entry is shown as going
on, the active one with the status of the store, but for the entries whose connection's
closing socket a `connect()` let go (`Truthful`), of the one in storage that none is
(`NoneLive`); `SocketInv` relates the socket to the active connection and its status, so
that what is let go is known. Three facts make it inductive. A new entry's id is fresh, since ids are
counted up and the active one is below the count; otherwise the patch of an earlier
connection could reach it. There is no demo next to a connection; otherwise stopping
the demo would patch an entry that is not its own. And a demo's entry is never
connected to, since its endpoint is refused.

`ListsAreUsable` leaves out two things that the code does not promise: a replay that
the palette offers while the socket is closing, which its handler refuses, and the
preview of a profile's URL without tokens, which shows what was typed (section 6).
Of the rest, the part about plugins is the longest: the decoders asked are
those of the enabled plugins, their lists joined (`DecodersFacts`); putting them in order
loses none but the fallback and puts none above one of higher priority (`OrderedFacts`);
so the first willing one is one that no other willing one outranks (`FoundFacts`).

`LoadRestoresTranscript` compares a file with what is on the timeline after it was
merged, sorted and looked at by session. The imported packets are the only ones of the
new session and are sorted already; the sort keeps the order of equal ones, so the
places they are picked out from increase and leave none of the file's out, and such a
sequence of places is 1, 2, 3 and so on (`IncreasingOnto`, `BroughtBack`). What the
limit cuts off is the end of the sorted list, so what stays of the file is its beginning,
and whatever is missing is no newer than anything that stays. That links
stay as they were rests on the new ids, which are given one to one (`ImportRestores`).

`RelationLaws` is about what is derived from the timeline, so its proof is one about the
algorithms, from `TimelineInv` alone. `RelationForms` says what each kind of relation was
made of; with that `PointForward` and `OneAnswerEach` follow for all of them. A flow of a
sequence is a component of the relations of its kind, the least set that no relation
leaves; two components that meet are one (`ComponentsAreDisjoint`), by minimality and
without induction over paths. A flow's id names only its first and last packet and how
many it has: `SamePackets` shows that this is enough, since two flows of one kind and
reason are components, which are disjoint or equal, or sets of three and more packets
that are alike, with the same argument, or pairs, which have no packets but these two.
For the groups, `ExpandedShowsAll` says that the
packets among the rows are those of the list (by `IncreasingOnto`), and `TailRuns` that a
new packet on top starts a run of its own or joins the first one, whose id names its
last packet.

`ContextCorrect` is about what an AI action sends, one of the laws of `OperatorLaws`. Its
hypotheses are those of the panel: the packets are newest first (`TimelineCorrect`) and
the selected packet is the list's one of its id, if the list has one; and `LimitsFit`:
there are fewer neighbours before a packet than packets of a prompt, and a flow is no
longer than a prompt. The code has 4 against 40, and 40 against 40. The prompt cuts off a
sequence's end, so with as many neighbours before it as packets of the prompt the
selected packet would be among those cut off; of a longer flow it would cut off the
newest.

Why `AgreementInv` looks as it does: that a settled page agrees is not inductive,
because an answer under way decides what the page will show. `Stage` lists where
a page can be: it waits for its first status, or has it under way; it rests; it
sent one command, or has that one's answer under way. The buttons are disabled
in all stages but one, so no two things of one page are ever under way, and each
answer, made in the step that changed the backend, stays true until it is taken
unless an older page's command intervenes (`overtaken`). That no other step of
the backend changes `isRunning` (`OwnStepsKeepRunning`) is where `RunsInv` comes
in: a listener that marks the runtime stopped was told so by a `stop()`.

Only model-checked:

- all liveness (`StoppedListenerEnds`, `SignalledLoopEnds`,
  `ShutdownEndsForwarding`, `EverySessionDecided`, `MountedEndsUpListening`,
  `TimersRunOut`) and the fairness half of `ImplementsLifecycle`, as the prover
  has no rules for fairness and `ENABLED` here;
- `OperatorLaws`, but for its part about prompts: laws of pure algorithms over samples
  of the instance, among them redaction, which recurses over trees. Induction over data
  is out of the prover's reach, but for the bounded form above.

## 5. Not modelled, and why

In the modelled parts:

- Poisoning of the registry's lock (its critical sections cannot panic), log
  events, failing `accept()` calls (they only log).
- The encoding of payloads, names (but for a session's in a file), error texts,
  toasts; the addresses in the frontend's copy of the proxy status.
- A `saveConnection()` that fails inside `connect()`: its callers have validated
  the endpoint first. A `send()` that throws: the WebSocket API does so only
  before the socket is open.
- `dispose()` passes codes such as 1001, which a browser's `close()` refuses; the
  exception is caught, and the socket goes away with the page. `Restart` models
  the result.
- `endedAt` and the counters' kinds: the four counters of a session are one. Close
  reasons are in `SessionFiles` only.

- What a text looks like: URL syntax, regular expressions of the redaction rules,
  the scanning of characters in decoders. A text is the set of things in it that
  a rule would find.
- Layout, navigation, keyboard focus, the capped lists of logs and toasts.
- Themes, languages and other plain choices of the settings: one field stands
  for each kind of normalisation.
- Wording of prompts; the OpenAI-compatible provider, which has the same fields
  as the other and no model list.

Parts not modelled at all:

- Exports and diagnostics (`lib/asyncapi-export.ts`, `lib/diagnostics-bundle.ts`):
  pure formatting of a snapshot.
- `sidebar.tsx`, `payload-inspector.tsx` and most other components, the landing
  page: they render what the stores hold.
- The remaining native shell (window, plugins, error texts): no state.
- Example servers, launchers, scripts: not part of the program.

## 6. Where code and documentation disagree

| Run | Property | What the code does |
|---|---|---|
| `proxy_stop` | `StopSignalsEveryLoop` | The shutdown broadcast reaches only receivers that exist when it is sent. A connection not yet subscribed, or between two receivers, forwards on after `stop()` returned. `docs/proxy-mode.md`: stopping "sends a shutdown signal to active proxy forwarding loops". |
| `direct_close` | `CloseEndsSession` | A `connect()` while the old socket is closing detaches its handlers and forgets it; its session is never closed. |
| `mirror_twice` | `CountedOnce` | A registration of the event listeners that another one overtakes is live until its four promises have resolved, and so are those of the new one; both hear a session-started event, and `activeConnections` of the copy goes up by two (`App.tsx:772`). `docs/function-inventory.md:1042`: "cleanup prevents duplicate proxy listeners". |
| `redacted_name` | `NameIsRedacted` | The custom rules are applied to a session's name (`session-redaction.ts:277`), and the name as typed, the session's own by default, is put into the file afterwards (`App.tsx:1169`, `1175`, `1226`). `docs/privacy.md:80-99` has session names in what a file contains, and custom rules in what redaction targets. |

`SessionsEndUnlessReplaced` in the run `direct` shows that the case of `direct_close`
is the only way to leave a session open, and `ListConsistent` in `data` what it
leaves in the list. `ActiveCountBounds` in `proxy` shows how far the active count may
be off: at most by the number of connections of earlier runs that have ended,
which bounds those that ended late. `NeverOvercounts` in `mirror` says that the starts
of `mirror_twice` are the only ones that the copy counts too often.

### Observations made while modelling

These are properties of the code as it is; the models contain them, and the
properties are stated so as to allow them. None contradicts a document strongly
enough to be a run of its own.

Proxy
- The session is registered and announced, and shown as a client, before the client's
  handshake and the connection to the target; `docs/proxy-mode.md:100-102` lists them
  in the other order.
- A signalled connection neither of whose peers reads may stay: the close frame is
  sent with nothing to limit the wait (`proxy.rs:478`, `499`).

Proxy in the frontend
- `listen()` calls that succeeded next to one that failed are never taken back
  (`proxy-events.ts:66`), and what they hear is handled.
- A refused start or stop leaves `nativeBackendState` at "error" until the page is
  loaded again, though the message suggests a retry.
- `docs/proxy-mode.md:111` says that stopping clears URL and count in the UI; a
  session-started event that arrives after the stop's answer puts the address
  back (the addresses are not in the model). On a page loaded in between, a connection may be counted twice for a
  while, by the status read and by its event.
- After a reload the new page may read a status before the old page's stop is
  executed (`overtaken`) and then shows a proxy that is no longer there.

Connections, environments
- A reconnect of a connection that the limit pushed off dials the endpoint typed
  meanwhile. `endpointUrl` is stored also with persistence switched off.
- Saving a template's entry again after its variable changed alters the address
  that the active entry shows. The selection can name a demo's entry after a
  restart, which removes it.
- A URL of a profile without `{{}}` is shown as typed, also where it holds the value
  of a secret (`environment-manager.tsx:286-291`); one with tokens is redacted.
- A secret whose key was made invalid is dropped on the next start, and the
  preview of a profile then shows the same text where another variable has it.

Timeline and selection
- A sent packet is selected while still in the batch, so the repairing effect
  moves the selection first; an incoming packet that the filter hides ends
  following.
- Packets of one millisecond in one batch stay in their order of arrival, though a
  later one goes above an earlier one when they come in different batches: the first
  packet of the timeline need not be the one that arrived last.
- A draft not yet applied survives "Clear filters". Presets beyond the sixth are
  kept and not shown; a 25th drops the oldest even if it is a favourite.
- `&&` inside a quoted value splits a smart condition; `&&` alone counts as an
  active filter. "heart.beat" is hidden as a heartbeat and not grouped as one,
  "session.resume" is a reconnect relation and grouped as authentication.
- A third packet with one request id removes the pair of the first two; a message
  id used in two sessions suppresses its replies. Trimming changes the anchor of
  the oldest group.

Files and redaction
- The confirmation of an unredacted export stays up when the session changes, and
  the palette's export does not use the custom rules.
- Numbers and keys of a payload are never matched by custom rules; a replacement
  can be counted again. In an edited file packets with one id share one new id,
  and `packetCount` is ignored.

Panels
- `handleLoadPacket` sets the replay status to idle, so that a later disconnect no
  longer cancels the waiting sequence.
- An AI model list restores the whole provider of the render it was asked in, an
  older URL's list can arrive, and a result stays, or still comes, when another packet
  is selected.
- "Restart onboarding" ticks steps whose condition still holds at once.
- The palette's highlight is an index that survives reopening; four refusals
  (cool-down, blank payload, invalid endpoint, a replay over a closing socket) are not
  reflected in it.

## 7. Plan

Done: the proxy backend, its forwarding loops and its mirror in the frontend; both
stores behind the timeline; direct connections with their list; all asynchronous
and stateful components of the frontend; its pure algorithms. Every safety and action
property of the passing runs but `OperatorLaws` is a theorem. What could follow:

1. The laws of filters and decoders as theorems over all inputs, as it was done with
   the prompts: of those within `OperatorLaws` they need no recursion.
2. A common model of `Capture` and `UiSelection`, whose packets are the same.
3. An abstract session life cycle that `DirectConnection` implements, in the way
   `Proxy` implements `ProxyLifecycle`.
4. Replay strategies and the inspector, if they come to keep state.

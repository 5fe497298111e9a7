--------------------------- MODULE CommandPalette ---------------------------
(***************************************************************************)
(* The command palette: the list of commands App.tsx makes of the state of *)
(* the stores, each enabled or not, and the palette that searches it and   *)
(* runs the highlighted command (command-palette.tsx).                     *)
(*                                                                         *)
(* The list is made anew whenever the stores change, also while the        *)
(* palette is open, and the highlight is an index into the part of it that *)
(* matches the query.  The query also matches the reasons why commands are *)
(* disabled, so what is listed depends on what is enabled.                 *)
(***************************************************************************)
EXTENDS Arrangements

CONSTANTS
  Sessions,     \* how many sessions there may be
  Environments  \* how many environments

VARIABLES
  world,        \* what the commands depend on
  isOpen,       \* the palette is shown
  query,        \* what was typed into it
  activeIndex   \* the highlighted row, counted from 1

paletteVars == <<world, isOpen, query, activeIndex>>

Status  == {"disconnected", "connecting", "connected", "error"}
Queries == {"", "connect", "nothing"}

(***************************************************************************)
(* The demo can only run while there is no connection; open is that of the *)
(* socket, which may be closing while the status is still connected; saved *)
(* is activeReconnectConnectionId, session the place of the selected one.  *)
(***************************************************************************)
World ==
  {w \in [status : Status, open : BOOLEAN, demo : BOOLEAN, saved : BOOLEAN, packet : BOOLEAN,
          packets : BOOLEAN, sessions : 0 .. Sessions, session : 0 .. Sessions] :
     /\ w.demo => w.status \in {"disconnected", "error"}
     /\ w.open => w.status = "connected"
     /\ w.session <= w.sessions
     /\ w.packet => w.packets}

Idle(w)      == w.status # "connected" /\ w.status # "connecting"
Connected(w) == w.status = "connected"

----------------------------------------------------------------------------
(* The commands *)

Command(id, place, enabled, words) ==
  [id |-> id, place |-> place, enabled |-> enabled, words |-> words]

StartDemoDisabledReason(w) ==
  IF w.demo THEN "demo" ELSE IF Connected(w) THEN "disconnect"
  ELSE IF w.status = "connecting" THEN "busy" ELSE "none"

ConnectDisabledReason(w) ==
  IF w.demo THEN "demo" ELSE IF Connected(w) THEN "connected"
  ELSE IF w.status = "connecting" THEN "busy" ELSE "none"

ReconnectDisabledReason(w) ==
  IF w.demo THEN "demo" ELSE IF w.status = "connecting" THEN "busy"
  ELSE IF w.saved THEN "none" ELSE "saved connection"

ReplayDisabledReason(w) ==
  IF ~w.packet THEN "select" ELSE IF ~Connected(w) THEN "connect" ELSE "none"

(***************************************************************************)
(* Reasons whose wording has the word connect in it.                       *)
(***************************************************************************)
Connecting(reason) == reason \in {"disconnect", "connected", "busy", "saved connection", "connect"}

Guarded(id, reason, words) ==
  Command(id, 0, reason = "none", words \/ Connecting(reason))

ConnectionCommands(w) ==
  <<Guarded("start-demo", StartDemoDisabledReason(w), FALSE),
    Command("open-settings", 0, TRUE, FALSE), Command("open-diagnostics", 0, TRUE, TRUE),
    Guarded("connect", ConnectDisabledReason(w), TRUE),
    Command("disconnect", 0, Connected(w) \/ w.status = "connecting", TRUE),
    Guarded("reconnect", ReconnectDisabledReason(w), TRUE)>>

SwitchCommands(w) ==
  [i \in 1 .. Environments |-> Command("environment", i, i # 1, FALSE)] \o
  (IF w.sessions = 0 THEN <<Command("no-session", 0, FALSE, FALSE)>>
   ELSE [i \in 1 .. w.sessions |-> Command("session", i, i # w.session, FALSE)])

PacketCommands(w) ==
  <<Command("toggle-bookmark", 0, w.packet, FALSE),
    Guarded("replay-selected", ReplayDisabledReason(w), TRUE),
    Command("clear-timeline", 0, w.packets, FALSE),
    Command("export-session", 0, w.session # 0, FALSE),
    Command("reset-filters", 0, TRUE, FALSE), Command("filter", 0, TRUE, FALSE)>>

CommandPaletteCommands(w) == ConnectionCommands(w) \o SwitchCommands(w) \o PacketCommands(w)

Matching(w, q) ==
  LET commands == CommandPaletteCommands(w)
  IN  {i \in DOMAIN commands : q = "" \/ (q = "connect" /\ commands[i].words)}

FilteredCommands(w, q) == Kept(CommandPaletteCommands(w), Matching(w, q))

Rows(w, q) == Cardinality(Matching(w, q))     \* the length of the filtered list

----------------------------------------------------------------------------
(* The palette *)

Init ==
  /\ world = [status |-> "disconnected", open |-> FALSE, demo |-> FALSE, saved |-> FALSE,
              packet |-> FALSE, packets |-> FALSE, sessions |-> 0, session |-> 0]
  /\ isOpen = FALSE /\ query = "" /\ activeIndex = 1

NeverClamped(w, q, i) == i      \* faulty: the highlight stays where it was

(***************************************************************************)
(* The effect on the length of the filtered list.                          *)
(***************************************************************************)
Clamped(w, q, i) ==
  LET n == Rows(w, q)
  IN IF n = 0 THEN 1 ELSE IF i > n THEN n ELSE i

SetOpen(open) ==
  /\ isOpen' = open
  /\ query' = IF open THEN query ELSE ""
  /\ activeIndex' = Clamped(world, query', activeIndex)
  /\ UNCHANGED world

OpenPalette  == ~isOpen /\ SetOpen(TRUE)
ClosePalette == isOpen /\ SetOpen(FALSE)

TypeQuery(q) ==
  /\ isOpen /\ q # query
  /\ query' = q
  /\ activeIndex' = Clamped(world, q, activeIndex)
  /\ UNCHANGED <<world, isOpen>>

MoveActiveIndex(direction) ==
  LET n == Rows(world, query)
      i == activeIndex + direction
  IN /\ isOpen /\ n > 0
     /\ activeIndex' = IF i < 1 THEN n ELSE IF i > n THEN 1 ELSE i
     /\ UNCHANGED <<world, isOpen, query>>

Hover(i) ==
  /\ isOpen /\ i \in 1 .. Rows(world, query)
  /\ activeIndex' = i
  /\ UNCHANGED <<world, isOpen, query>>

(***************************************************************************)
(* runCommand by Enter, or by a click, which hovers first: a command that  *)
(* is disabled does nothing and leaves the palette open.                   *)
(***************************************************************************)
RunCommand ==
  /\ isOpen
  /\ activeIndex \in 1 .. Rows(world, query)
  /\ FilteredCommands(world, query)[activeIndex].enabled
  /\ isOpen' = FALSE
  /\ query' = ""
  /\ activeIndex' = Clamped(world, "", activeIndex)
  /\ UNCHANGED world

(***************************************************************************)
(* What a command did, a session that was started, a connection that       *)
(* ended, one thing at a time: the list is made anew under the palette.    *)
(* A socket opens with its status, and may lose the one before the other.  *)
(***************************************************************************)
WorldBecomes(w) ==
  /\ \/ \E field \in DOMAIN w : w = [world EXCEPT ![field] = w[field]]
     \/ w = [world EXCEPT !.status = w.status, !.open = w.open]
  /\ world' = w
  /\ activeIndex' = Clamped(w, query, activeIndex)
  /\ UNCHANGED <<isOpen, query>>

Next ==
  \/ OpenPalette \/ ClosePalette \/ RunCommand
  \/ \E q \in Queries : TypeQuery(q)
  \/ \E d \in {1, -1} : MoveActiveIndex(d)
  \/ \E i \in 1 .. Len(CommandPaletteCommands(world)) : Hover(i)
  \/ \E w \in World : WorldBecomes(w)

Spec == Init /\ [][Next]_paletteVars

----------------------------------------------------------------------------
(* What the handlers themselves insist on *)

(***************************************************************************)
(* The refusals of startInvestorDemo, connect, reconnect, sendMessage,     *)
(* handleSaveCurrentSession and handleRequestClearCapturedFrames that      *)
(* depend on this state; not the cooldown of reconnect, a blank payload or *)
(* an endpoint that is no URL, which the palette does not look at.         *)
(***************************************************************************)
Accepts(id, w) ==
  CASE id = "start-demo"      -> ~w.demo /\ Idle(w)
    [] id = "connect"         -> ~w.demo /\ Idle(w)
    [] id = "reconnect"       -> ~w.demo /\ w.status # "connecting" /\ w.saved
    [] id = "disconnect"      -> ~Idle(w)
    [] id = "replay-selected" -> w.packet /\ w.open
    [] id = "toggle-bookmark" -> w.packet
    [] id = "export-session"  -> w.session # 0
    [] id = "clear-timeline"  -> w.packets
    [] OTHER                  -> TRUE

SocketIsClosing(id, w) == id = "replay-selected" /\ Connected(w) /\ ~w.open

----------------------------------------------------------------------------
(* Properties *)

TypeOK ==
  /\ world \in World
  /\ isOpen \in BOOLEAN /\ query \in Queries /\ activeIndex \in Nat \ {0}

(***************************************************************************)
(* However the list changes under the palette, a listed row is highlighted *)
(* whenever there is one, so Enter is never lost; what is enabled there is *)
(* not refused by its handler, but for a replay while the socket is        *)
(* closing, of which no store tells the palette; and a closed palette      *)
(* forgets its query.                                                      *)
(***************************************************************************)
PaletteIsUsable ==
  LET list == FilteredCommands(world, query)
  IN /\ list # <<>> => activeIndex \in DOMAIN list
     /\ \A i \in DOMAIN list : list[i].enabled =>
          Accepts(list[i].id, world) \/ SocketIsClosing(list[i].id, world)
     /\ ~isOpen => query = ""

=============================================================================

--------------------------- MODULE ConnectionList ---------------------------
(***************************************************************************)
(* The list of connections in store/connection-store.ts: how entries are   *)
(* saved, found again, renewed by a connect, patched while the connection  *)
(* goes on, pushed off the end, cleared, and kept in local storage.  The   *)
(* dialog, the shell and the demos that call these operations are part of  *)
(* it; of the socket only what connect() asks of it is here, the rest and  *)
(* the sessions are in DirectConnection.                                   *)
(*                                                                         *)
(* An endpoint is a plain URL or the one template, which an environment    *)
(* resolves to a URL or, lacking a variable, to nothing.  All plain URLs   *)
(* but the demos' are valid.                                               *)
(***************************************************************************)
EXTENDS Arrangements, FiniteSetsExt

CONSTANTS
  Urls,       \* plain endpoints
  Typed,      \* those of them the user types in; the template stands for the others
  Template,   \* an endpoint with variables
  Envs,       \* environment ids
  DemoUrl,    \* the endpoint demos go by, which is no WebSocket URL
  Limit,      \* how many entries upsertConnection keeps (20)
  MaxIds,     \* bound: entries created
  None

VARIABLES
  connections,  \* entries [id, url, template, env, status, demo], latest first
  selected,     \* selectedConnectionId
  activeConn,   \* activeConnectionId
  status,       \* status of the store
  socket,       \* the held socket: "none", "live" (CONNECTING, OPEN) or "closing"
  stranded,     \* connections whose closing socket a connect() let go of (history)
  endpoint,     \* endpointUrl
  redial,       \* connection a reconnect() is about to connect to, or None
  demoConn,     \* connection id of the demo that runs, or None
  envUrl,       \* envUrl[e]: what Template stands for in e, or None
  activeEnv,    \* active environment
  persists,     \* settings.privacy.persistRecentConnections
  stored,       \* local storage: [list, endpoint, selected]
  ids           \* ids given out so far

listVars == <<connections, selected, activeConn, status, socket, stranded, endpoint,
              redial, demoConn, envUrl, activeEnv, persists, stored, ids>>

Ids      == 1 .. MaxIds
Statuses == {"idle", "connecting", "connected", "disconnected", "error"}
Live     == {"connecting", "connected"}

Entry == [id : Ids, url : Urls \cup {DemoUrl}, template : BOOLEAN, env : Envs \cup {None},
          status : Statuses, demo : BOOLEAN]

TypeOK ==
  /\ connections \in Seq(Entry) /\ Len(connections) <= Limit
  /\ {selected, activeConn, redial, demoConn} \subseteq Ids \cup {None}
  /\ status \in Statuses
  /\ socket \in {"none", "live", "closing"} /\ stranded \subseteq Ids
  /\ endpoint \in Urls
  /\ envUrl \in [Envs -> Urls \cup {None}] /\ activeEnv \in Envs
  /\ persists \in BOOLEAN
  /\ stored.list \in Seq(Entry) /\ stored.endpoint \in Urls
  /\ stored.selected \in Ids \cup {None}
  /\ ids \in 0 .. MaxIds

ListedIds(list) == {e.id : e \in Range(list)}

First(list, Test(_)) ==
  LET found == {i \in DOMAIN list : Test(list[i])}
  IN  IF found = {} THEN None ELSE list[Min(found)]

Without(list, id) == Kept(list, {i \in DOMAIN list : list[i].id # id})

(***************************************************************************)
(* A bound, to keep the combinations few: an environment is edited, a      *)
(* reconnect() begins and persistence is switched on again only while two  *)
(* more entries may be created.                                            *)
(***************************************************************************)
HasRoom == ids + 1 < MaxIds

Init ==
  /\ connections = <<>>
  /\ selected = None
  /\ activeConn = None
  /\ status = "idle"
  /\ socket = "none"
  /\ stranded = {}
  /\ endpoint = CHOOSE u \in Typed : TRUE       \* localEchoServerUrl
  /\ redial = None
  /\ demoConn = None
  /\ envUrl = [e \in Envs |-> None]
  /\ activeEnv = CHOOSE e \in Envs : TRUE
  /\ persists = TRUE
  /\ stored = [list |-> <<>>, endpoint |-> endpoint, selected |-> None]
  /\ ids = 0

----------------------------------------------------------------------------
(* Helpers of the store *)

(***************************************************************************)
(* upsertConnection, patchConnection, sanitizeConnection.                  *)
(***************************************************************************)
Upsert(list, entry) ==
  LET all == <<entry>> \o Without(list, entry.id)
  IN  SubSeq(all, 1, IF Len(all) < Limit THEN Len(all) ELSE Limit)

Patch(list, id, st) ==
  [i \in DOMAIN list |-> IF list[i].id = id THEN [list[i] EXCEPT !.status = st] ELSE list[i]]

Sanitize(list) ==
  [i \in DOMAIN list |->
     IF list[i].status \in Live THEN [list[i] EXCEPT !.status = "disconnected"] ELSE list[i]]

(***************************************************************************)
(* partialize: every set() of the store writes its local storage, under    *)
(* the privacy setting of that moment.                                     *)
(***************************************************************************)
Store(list, url, sel) ==
  stored' = [list     |-> IF persists'
                          THEN Sanitize(Kept(list, {i \in DOMAIN list : ~list[i].demo})) ELSE <<>>,
             endpoint |-> url,
             selected |-> IF persists' THEN sel ELSE None]

(***************************************************************************)
(* resolveConnectionEndpoint with getConnectionEnvironment: the entry's    *)
(* environment, or the active one when that is gone or was never chosen.   *)
(***************************************************************************)
Resolve(text, env) ==
  IF text # Template THEN text ELSE envUrl[IF env = None THEN activeEnv ELSE env]

----------------------------------------------------------------------------
(* Saving *)

(***************************************************************************)
(* An entry of the same template and environment, else one of the URL.     *)
(***************************************************************************)
ExistingFor(list, template, env, url) ==
  LET same == First(list, LAMBDA e : template /\ e.template /\ e.env = env)
  IN  IF same # None THEN same ELSE First(list, LAMBDA e : e.url = url)

(***************************************************************************)
(* handleSubmit of the dialog and saveConnection.  The dialog shows an     *)
(* unresolved template as an error and saves nothing.                      *)
(***************************************************************************)
SaveConnection(text) ==
  LET template == text = Template
      env      == IF template THEN activeEnv ELSE None
      url      == Resolve(text, env)
      old      == ExistingFor(connections, template, env, url)
      entry    == [id |-> IF old = None THEN ids + 1 ELSE old.id, url |-> url,
                   template |-> template, env |-> env,
                   status |-> IF old = None THEN "idle" ELSE old.status,
                   demo |-> IF old = None THEN FALSE ELSE old.demo]
  IN
  /\ url # None
  /\ old = None => ids < MaxIds
  /\ ids' = IF old = None THEN ids + 1 ELSE ids
  /\ connections' = Upsert(connections, entry)
  /\ selected' = entry.id
  /\ endpoint' = url
  /\ status' = IF activeConn # None THEN status ELSE "idle"
  /\ UNCHANGED <<redial, activeConn, socket, stranded, demoConn, envUrl, activeEnv, persists>>
  /\ Store(connections', endpoint', selected')

----------------------------------------------------------------------------
(* Connecting *)

(***************************************************************************)
(* connect({connectionId}), from the list and as the second half of        *)
(* reconnect(); `id` need not be listed any more, and then the endpoint of *)
(* the store stands in.  connect() without a connection is None.           *)
(***************************************************************************)
Target(id) == First(connections, LAMBDA e : e.id = id)

ConnectText(id) ==
  LET t == Target(id) IN
  IF t = None THEN endpoint ELSE IF t.template THEN Template ELSE t.url

(***************************************************************************)
(* The server, or the browser after a failure, starts the closing of an    *)
(* open socket: readyState is CLOSING and no handler has run yet.          *)
(***************************************************************************)
StartsClosing ==
  /\ socket = "live" /\ status = "connected"
  /\ socket' = "closing"
  /\ UNCHANGED <<connections, selected, activeConn, status, stranded, endpoint, redial,
                 demoConn, envUrl, activeEnv, persists, stored, ids>>

(***************************************************************************)
(* Only a demo or a live socket refuses a connect().  It lets a closing    *)
(* socket go, before it knows whether it can connect: that socket's        *)
(* handlers are gone and nothing patches the entry of its connection.      *)
(***************************************************************************)
CanConnect == demoConn = None /\ socket # "live"

Stranded == stranded \cup IF socket = "closing" THEN {activeConn} ELSE {}

ConnectRefused(id) ==
  /\ CanConnect
  /\ Resolve(ConnectText(id), IF Target(id) = None THEN None ELSE Target(id).env) \notin Urls
  /\ connections' = Patch(connections, id, "error")
  /\ selected' = IF Target(id) = None THEN selected ELSE id
  /\ status' = "error"
  /\ socket' = "none"
  /\ stranded' = Stranded
  /\ UNCHANGED <<activeConn, endpoint, demoConn, envUrl, activeEnv, persists, ids>>
  /\ Store(connections', endpoint', selected')

(***************************************************************************)
(* getOrCreateConnection: by id, by template and environment, by URL; a    *)
(* new entry takes over an id that is not listed.                          *)
(***************************************************************************)
ConnectEntry(id, template, env, url) ==
  LET old == IF Target(id) # None THEN Target(id) ELSE ExistingFor(connections, template, env, url)
  IN  [id |-> IF old # None THEN old.id ELSE IF id # None THEN id ELSE ids + 1,
       url |-> url, template |-> template, env |-> env, status |-> "connecting",
       demo |-> IF old = None THEN FALSE ELSE old.demo]

Connect(id) ==
  LET t        == Target(id)
      template == t # None /\ t.template
      env      == IF t = None THEN None ELSE t.env
      url      == Resolve(ConnectText(id), env)
      entry    == ConnectEntry(id, template, env, url)
  IN
  /\ CanConnect
  /\ url \in Urls
  /\ entry.id <= MaxIds
  /\ ids' = IF entry.id > ids THEN entry.id ELSE ids
  /\ activeConn' = entry.id
  /\ connections' = Upsert(connections, entry)
  /\ endpoint' = url
  /\ selected' = entry.id
  /\ status' = "connecting"
  /\ socket' = "live"
  /\ stranded' = Stranded \ {entry.id}
  /\ UNCHANGED <<demoConn, envUrl, activeEnv, persists>>
  /\ Store(connections', endpoint', selected')

ConnectTo(id) == UNCHANGED redial /\ (Connect(id) \/ ConnectRefused(id))

(***************************************************************************)
(* The outcomes of an attempt patch the entry, if it is still listed:      *)
(* onopen, onclose, onerror, disconnect(), a failed send.                  *)
(***************************************************************************)
Opened ==
  /\ status = "connecting"
  /\ status' = "connected"
  /\ connections' = Patch(connections, activeConn, "connected")
  /\ UNCHANGED <<redial, selected, activeConn, socket, stranded, endpoint, demoConn, envUrl,
                 activeEnv, persists, ids>>
  /\ Store(connections', endpoint', selected')

EndsUnpatched(st) ==          \* faulty: leaves the entry as it was
  /\ activeConn # None
  /\ status' = st
  /\ activeConn' = None
  /\ socket' = "none"
  /\ stranded' = stranded \ {activeConn}
  /\ UNCHANGED <<connections, selected, endpoint, demoConn, envUrl, activeEnv, persists, ids>>
  /\ Store(connections', endpoint', selected')

Ends(st) ==
  /\ activeConn # None
  /\ status' = st
  /\ connections' = Patch(connections, activeConn, st)
  /\ activeConn' = None
  /\ socket' = "none"
  /\ stranded' = stranded \ {activeConn}
  /\ UNCHANGED <<selected, endpoint, demoConn, envUrl, activeEnv, persists, ids>>
  /\ Store(connections', endpoint', selected')

End ==
  /\ UNCHANGED redial
  /\ \/ Ends("disconnected")
     \/ socket # "none" /\ Ends("error")

(***************************************************************************)
(* reconnect() of the active connection: disconnect(), and connect() after *)
(* a delay in which the list may change.  Without a socket, or for another *)
(* connection, it is connect() at once.                                    *)
(***************************************************************************)
Reconnect ==
  /\ HasRoom
  /\ status # "connecting" /\ socket # "none"
  /\ redial = None
  /\ redial' = activeConn
  /\ Ends("disconnected")

Redial ==
  /\ redial # None
  /\ redial' = None
  /\ IF CanConnect THEN Connect(redial) \/ ConnectRefused(redial)
     ELSE UNCHANGED <<connections, selected, activeConn, status, socket, stranded, endpoint, demoConn,
                      envUrl, activeEnv, persists, stored, ids>>

----------------------------------------------------------------------------
(* The other operations of the list *)

(***************************************************************************)
(* selectConnection; the entry of a demo does not change the endpoint.     *)
(***************************************************************************)
SelectConnection ==
  \E i \in DOMAIN connections :
    /\ selected' = connections[i].id
    /\ endpoint' = IF connections[i].demo THEN endpoint ELSE connections[i].url
    /\ UNCHANGED <<redial, connections, activeConn, status, socket, stranded, demoConn, envUrl,
                   activeEnv, persists, ids>>
    /\ Store(connections', endpoint', selected')

(***************************************************************************)
(* registerConnection, setConnectionStatus and removeConnection: the       *)
(* demos' entry, which a stopped demo leaves behind and a reset removes.   *)
(* The buttons that start a demo are disabled by a live status.            *)
(***************************************************************************)
StartDemo ==
  LET entry == [id |-> ids + 1, url |-> DemoUrl, template |-> FALSE, env |-> None,
                status |-> "connected", demo |-> TRUE]
  IN
  /\ demoConn = None /\ status \notin Live
  /\ ids < MaxIds
  /\ ids' = ids + 1
  /\ demoConn' = ids + 1
  /\ connections' = Upsert(connections, entry)
  /\ selected' = ids + 1
  /\ UNCHANGED <<redial, activeConn, status, socket, stranded, endpoint, envUrl, activeEnv, persists>>
  /\ Store(connections', endpoint', selected')

StopDemo ==
  /\ demoConn # None
  /\ demoConn' = None
  /\ connections' = Patch(connections, demoConn, "disconnected")
  /\ UNCHANGED <<redial, selected, activeConn, status, socket, stranded, endpoint, envUrl, activeEnv,
                 persists, ids>>
  /\ Store(connections', endpoint', selected')

ResetDemo ==
  /\ demoConn # None
  /\ demoConn' = None
  /\ connections' = Without(connections, demoConn)
  /\ selected' = IF selected = demoConn THEN None ELSE selected
  /\ UNCHANGED <<redial, activeConn, status, socket, stranded, endpoint, envUrl, activeEnv, persists, ids>>
  /\ Store(connections', endpoint', selected')

ClearConnectionHistory ==
  /\ connections' = Kept(connections, {i \in DOMAIN connections : connections[i].id = activeConn})
  /\ selected' = activeConn
  /\ UNCHANGED <<redial, activeConn, status, socket, stranded, endpoint, demoConn, envUrl, activeEnv, ids>>
  /\ Store(connections', endpoint', selected')

Clear == UNCHANGED persists /\ ClearConnectionHistory

----------------------------------------------------------------------------
(* Settings, environments, restarts *)

(***************************************************************************)
(* updatePrivacy: the setting first, then the list is cleared.             *)
(***************************************************************************)
StopPersisting ==
  /\ persists
  /\ persists' = FALSE
  /\ ClearConnectionHistory

Persist ==
  /\ HasRoom
  /\ ~persists
  /\ persists' = TRUE
  /\ UNCHANGED <<redial, connections, selected, activeConn, status, socket, stranded, endpoint,
                 demoConn, envUrl, activeEnv, stored, ids>>

EditEnvironment ==
  /\ HasRoom
  /\ \/ \E e \in Envs, u \in (Urls \ Typed) \cup {None} : envUrl' = [envUrl EXCEPT ![e] = u] /\ UNCHANGED activeEnv
     \/ activeEnv' \in Envs /\ UNCHANGED envUrl
  /\ UNCHANGED <<redial, connections, selected, activeConn, status, socket, stranded, endpoint,
                 demoConn, persists, stored, ids>>

(***************************************************************************)
(* merge: a reload starts with what was stored.                            *)
(***************************************************************************)
Restart ==
  /\ connections' = Sanitize(stored.list)
  /\ endpoint' = stored.endpoint
  /\ selected' = stored.selected
  /\ activeConn' = None
  /\ status' = "idle"
  /\ socket' = "none"
  /\ stranded' = {}
  /\ redial' = None
  /\ demoConn' = None
  /\ UNCHANGED <<envUrl, activeEnv, persists, stored, ids>>

Next ==
  \/ \E text \in Typed \cup {Template} : SaveConnection(text)
  \/ \E id \in ListedIds(connections) \cup {selected} : ConnectTo(id)
  \/ StartsClosing
  \/ Opened
  \/ End
  \/ Reconnect
  \/ Redial
  \/ SelectConnection
  \/ StartDemo
  \/ StopDemo
  \/ ResetDemo
  \/ Clear
  \/ StopPersisting
  \/ Persist
  \/ EditEnvironment
  \/ Restart

Spec == Init /\ [][Next]_listVars

----------------------------------------------------------------------------
(* Properties *)

(***************************************************************************)
(* No operation, in whatever order, lists a connection twice, or shows one *)
(* as going on that is not: a live entry is the active connection's or the *)
(* running demo's, and the active connection's, as long as the limit has   *)
(* not pushed it off, shows the status of the store.  The one exception is *)
(* the entry of a connection whose closing socket a connect() let go of:   *)
(* it stays as it was until it is connected to or, while it is still the   *)
(* active one, disconnected.                                               *)
(***************************************************************************)
ListTellsWhatIsLive ==
  /\ \A i, j \in DOMAIN connections : connections[i].id = connections[j].id => i = j
  /\ \A e \in Range(connections) : e.status \in Live => e.id \in {activeConn, demoConn} \cup stranded
  /\ \A e \in Range(connections) : e.id = activeConn => e.status = status \/ e.id \in stranded

(***************************************************************************)
(* With persistence off, local storage holds no list and no selection,     *)
(* whatever happened before and since; and it never holds an entry as      *)
(* live, or a demo.                                                        *)
(***************************************************************************)
StorageHonoursPrivacy ==
  /\ ~persists => stored.list = <<>> /\ stored.selected = None
  /\ \A e \in Range(stored.list) : ~e.demo /\ e.status \notin Live

ListConsistent == ListTellsWhatIsLive /\ StorageHonoursPrivacy

=============================================================================

--------------------------- MODULE PacketDecoding ---------------------------
(***************************************************************************)
(* How a packet gets its event name, its status and its classes:           *)
(* extensions/packet-decoder.ts, extensions/packet-analyzer.ts and the     *)
(* predicates of lib/packet-inspection.ts.                                 *)
(*                                                                         *)
(* A payload is a record of what the decoders look at.  A text frame is    *)
(* split the way the Socket.IO decoder reads it: two type codes, the       *)
(* digits-and-dash of attachments, a namespace with or without its comma,  *)
(* an acknowledgement number and the data.  A JSON payload is its type,    *)
(* and what its id, payload and severity are.                              *)
(***************************************************************************)
EXTENDS Integers, Sequences, SequencesExt

None == "none"

TextFrames ==
  [kind : {"text"}, engine : {"0", "1", "2", "3", "4", "5", "6", "x"},
   socket : {None, "0", "1", "2", "3", "4", "5", "6", "7", "{"},
   attachments : BOOLEAN, namespace : {None, "closed", "open"}, ack : BOOLEAN,
   data : {None, "event", "list", "object", "broken"}]

JsonTypes ==
  {None, "connection_init", "connection_ack", "connection_error", "connection_terminate", "ka",
   "subscribe", "ping", "pong", "next", "error", "complete", "start", "data", "stop",
   "graphql.query", "chat.message", "auth.login", "auth.ping", "token.refresh", "session.reconnect",
   "session.resume", "presence.update", "ai.explain", "notification", "replay.done", "app.error",
   "heartbeat", "heart.beat", "keepalive", "quote"}

JsonFrames ==
  [kind : {"json"}, object : BOOLEAN, type : JsonTypes, id : BOOLEAN,
   payload : {"absent", "plain", "query", "data", "errors", "list"},
   operation : {None, "query", "subscription"}, severe : BOOLEAN]

BinaryFrames == [kind : {"binary"}]

----------------------------------------------------------------------------
(* Socket.IO *)

Alone(f) == f.socket = None /\ ~f.attachments /\ f.namespace = None /\ ~f.ack /\ f.data = None

(***************************************************************************)
(* What follows the two codes begins with a digit, a slash, a bracket or a *)
(* brace, or is empty.                                                     *)
(***************************************************************************)
Plausible(f) == f.attachments \/ f.namespace # None \/ f.ack \/ f.data # "broken"

LooksLikeSocketIo(f) ==
  \/ f.engine \in {"2", "3"} /\ Alone(f)
  \/ f.engine = "0" /\ f.socket = "{"
  \/ f.engine = "4" /\ f.socket \in {"0", "1", "2", "3", "4", "5", "6"} /\ Plausible(f)

EngineType(code) ==
  LET types == [c \in {"0", "1", "2", "3", "5", "6"} |->
                  CASE c = "0" -> "open" [] c = "1" -> "close" [] c = "2" -> "ping"
                    [] c = "3" -> "pong" [] c = "5" -> "upgrade" [] c = "6" -> "noop"]
  IN  IF code \in DOMAIN types THEN types[code] ELSE None

SocketType(code) ==
  CASE code = "0" -> "connect" [] code = "1" -> "disconnect" [] code = "2" -> "event"
    [] code = "3" -> "ack" [] code = "4" -> "connect_error" [] code = "5" -> "binary_event"
    [] code = "6" -> "binary_ack" [] OTHER -> None

(***************************************************************************)
(* The data that is left when the cursor has passed the parts before it.   *)
(* Only a binary packet has attachments: elsewhere their digits are taken  *)
(* for an acknowledgement and the rest is no JSON.  A namespace without    *)
(* its comma runs to the end.                                              *)
(***************************************************************************)
DataLeft(f) ==
  IF f.attachments /\ SocketType(f.socket) \notin {"binary_event", "binary_ack"} THEN "broken"
  ELSE IF f.namespace = "open" THEN None
  ELSE f.data

SocketIoEvent(f) ==
  LET type == SocketType(f.socket)
  IN  CASE type \in {"event", "binary_event"} /\ DataLeft(f) = "event" -> "chat.message"
        [] type \in {"ack", "binary_ack"} -> "socketio.ack"
        [] OTHER -> "socketio." \o type

DecodeSocketIo(f) ==
  CASE EngineType(f.engine) # None -> "socketio.engine." \o EngineType(f.engine)
    [] f.engine = "4" /\ SocketType(f.socket) # None -> SocketIoEvent(f)
    [] f.engine = "4" -> "socketio.message"
    [] OTHER -> "socketio.unknown"

----------------------------------------------------------------------------
(* GraphQL over WebSocket *)

Signals(f) == f.payload \in {"query", "data", "errors", "list"}

Modern(f) ==                  \* graphql-transport-ws
  \/ f.type = "subscribe"
  \/ f.type \in {"ping", "pong"} /\ f.payload # "absent"
  \/ f.type \in {"next", "error", "complete"} /\ f.id

Legacy(f) ==                  \* subscriptions-transport-ws
  \/ f.type = "ka"
  \/ f.type \in {"start", "data", "stop"} /\ f.id /\ (Signals(f) \/ f.type = "stop")

Unnamed(f) ==                 \* graphql-ws
  \/ f.type \in {"connection_init", "connection_ack", "connection_error", "connection_terminate"}
  \/ f.type = "graphql.query" /\ Signals(f)

LooksLikeGraphQl(f) == f.object /\ (Modern(f) \/ Legacy(f) \/ Unnamed(f))

Phase(type) ==
  CASE type \in {"subscribe", "start"} -> "start"
    [] type \in {"next", "data"} -> "next"
    [] type \in {"complete", "stop"} -> "complete"
    [] type = "error" -> "connection_error"
    [] type = "ka" -> "keepalive"
    [] type = "graphql.query" -> "unknown"
    [] OTHER -> type

(***************************************************************************)
(* The kind of operation is the query's, and else guessed from the type.   *)
(***************************************************************************)
OperationKind(f) ==
  IF f.payload = "query" /\ f.operation # None THEN f.operation
  ELSE IF Phase(f.type) \in {"start", "next", "complete"} THEN "subscription" ELSE None

GraphQlEvent(f) ==
  LET phase == Phase(f.type)
      what  == IF OperationKind(f) = "subscription" THEN "subscription" ELSE "operation"
  IN  CASE phase \in {"start", "next", "complete"} -> "graphql." \o what \o "." \o phase
        [] phase = "connection_error" -> "graphql.subscription.error"
        [] phase = "connection_init" -> "graphql.connection.init"
        [] phase = "connection_ack" -> "graphql.connection.ack"
        [] phase = "connection_terminate" -> "graphql.connection.terminate"
        [] OTHER -> "graphql." \o phase

HasErrors(f) == f.payload \in {"errors", "list"}

----------------------------------------------------------------------------
(* The registry: the decoder of the highest priority that accepts *)

Decoder(f) ==
  CASE f.kind = "text" /\ LooksLikeSocketIo(f) -> "socketio"
    [] f.kind = "json" /\ LooksLikeGraphQl(f) -> "graphqlws"
    [] f.kind = "json" -> "json"
    [] f.kind = "binary" -> "binary"
    [] OTHER -> "fallback"

EventName(f) ==
  CASE Decoder(f) = "socketio" -> DecodeSocketIo(f)
    [] Decoder(f) = "graphqlws" -> GraphQlEvent(f)
    [] Decoder(f) = "json" /\ f.object /\ f.type # None -> f.type
    [] Decoder(f) = "json" -> "json.frame"
    [] Decoder(f) = "binary" -> "binary.frame"
    [] OTHER -> "text.frame"

----------------------------------------------------------------------------
(* Words in an event name *)

Mentions ==
  [error        |-> {"error", "app.error", "connection_error", "graphql.subscription.error", "socketio.connect_error"},
   replay       |-> {"replay.done"},
   ai           |-> {"ai.explain"},
   reconnect    |-> {"session.reconnect"},
   resume       |-> {"session.resume"},
   presence     |-> {"presence.update"},
   auth         |-> {"auth.login", "auth.ping"},
   token        |-> {"token.refresh"},
   session      |-> {"session.reconnect", "session.resume"},
   chat         |-> {"chat.message", "socketio.message"},
   notification |-> {"notification"},
   ping         |-> {"ping", "pong", "auth.ping", "graphql.ping", "graphql.pong", "socketio.engine.ping",
                     "socketio.engine.pong"},
   heartbeat    |-> {"heartbeat"},
   keepalive    |-> {"keepalive", "graphql.keepalive"}]

Says(f, word) == EventName(f) \in Mentions[word]

(***************************************************************************)
(* getPacketStatus.  Only the plain JSON decoder hands the payload's own   *)
(* severity to the analyzer; the GraphQL decoder reports errors itself.    *)
(***************************************************************************)
Deserves(f, status) ==
  CASE status = "error" -> \/ Says(f, "error")
                           \/ Decoder(f) = "json" /\ f.object /\ f.severe
                           \/ Decoder(f) = "graphqlws" /\ HasErrors(f)
    [] status = "heartbeat" -> Says(f, "ping") \/ Says(f, "heartbeat") \/ Says(f, "keepalive")
    [] OTHER -> Says(f, status)

Status(f) ==
  LET deserved == SelectSeq(<<"error", "replay", "ai", "reconnect", "presence", "auth", "chat",
                              "notification", "heartbeat">>, LAMBDA s : Deserves(f, s))
  IN  IF deserved = <<>> THEN "ok" ELSE Head(deserved)

----------------------------------------------------------------------------
(* The predicates of filters, relations and groups *)

IsPingPongControl(f) == Says(f, "ping")
IsHeartbeat(f)       == Says(f, "heartbeat") \/ EventName(f) = "heart.beat"
IsPingPong(f)        == Says(f, "ping") \/ Says(f, "heartbeat")

IsError(f) ==
  \/ Status(f) = "error"
  \/ f.kind = "json" /\ f.object /\ (f.severe \/ f.type \in Mentions.error)

IsAuthFlow(f)      == Status(f) = "auth" \/ EventName(f) \in {"auth.login", "auth.ping"}
IsReconnectFlow(f) == Status(f) = "reconnect" \/ Says(f, "reconnect") \/ Says(f, "resume")

GroupKind(f) ==
  CASE Status(f) = "heartbeat" \/ IsPingPong(f) -> "heartbeat-storm"
    [] Status(f) = "reconnect" \/ Says(f, "reconnect") -> "reconnect-flow"
    [] Status(f) = "auth" \/ Says(f, "auth") \/ Says(f, "token") \/ Says(f, "session") -> "auth-flow"
    [] OTHER -> "repeated-event"

(***************************************************************************)
(* The summary of a packet, computed once and cached, as far as relations, *)
(* flows and groups look at it.                                            *)
(***************************************************************************)
Summary(type) ==
  LET f == [kind |-> "json", object |-> TRUE, type |-> type, id |-> FALSE, payload |-> "absent",
            operation |-> None, severe |-> FALSE]
  IN  [auth      |-> IsAuthFlow(f),
       reconnect |-> IsReconnectFlow(f),
       beat      |-> Status(f) = "heartbeat" \/ IsPingPong(f),
       group     |-> GroupKind(f)]

----------------------------------------------------------------------------
(* Properties of a frame *)

(***************************************************************************)
(* The acceptance test and the parser of each protocol are written twice   *)
(* and agree: a frame that is accepted is never "could not be decoded".    *)
(***************************************************************************)
AcceptedIsUnderstood(f) ==
  /\ Decoder(f) = "socketio" => EventName(f) \notin {"socketio.unknown", "socketio.message"}
  /\ Decoder(f) = "graphqlws" /\ Phase(f.type) = "unknown" => f.type = "graphql.query"

(***************************************************************************)
(* A payload that calls itself an error is one for the errors-only filter  *)
(* and the counters, whichever decoder takes it.                           *)
(***************************************************************************)
ErrorsAreSeen(f) ==
  f.kind = "json" /\ f.object /\ (f.severe \/ f.type = "error" \/ (LooksLikeGraphQl(f) /\ HasErrors(f)))
    => IsError(f)

(***************************************************************************)
(* Filters, relations and groups, each with its own reading of the event   *)
(* name, agree on what a packet is; "heart.beat" alone is hidden as a      *)
(* heartbeat and not grouped as one.                                       *)
(***************************************************************************)
ClassesAgree(f) ==
  /\ IsPingPongControl(f) \/ IsHeartbeat(f) =>
       GroupKind(f) = "heartbeat-storm" \/ EventName(f) = "heart.beat"
  /\ IsAuthFlow(f) => GroupKind(f) \in {"auth-flow", "heartbeat-storm", "reconnect-flow"}
  /\ IsReconnectFlow(f) => GroupKind(f) \in {"reconnect-flow", "auth-flow"}

FrameLaws(f) == AcceptedIsUnderstood(f) /\ ErrorsAreSeen(f) /\ ClassesAgree(f)

=============================================================================

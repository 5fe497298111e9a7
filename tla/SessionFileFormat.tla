------------------------- MODULE SessionFileFormat -------------------------
(***************************************************************************)
(* What models/session-file.ts writes into a file, accepts from one, and   *)
(* makes of it on import.  A file may have been written by the program,    *)
(* edited, or be some other JSON.                                          *)
(*                                                                         *)
(* A JSON value is what the readers of this module can tell of it: its     *)
(* type, a text ("" and " " are the empty and the blank one), and the time *)
(* or number it stands for.  Connection ids and byte counts are read like  *)
(* the ids and numbers that are here.                                      *)
(***************************************************************************)
EXTENDS Integers, Sequences, SequencesExt, FiniteSetsExt

CONSTANT Now     \* the time of the import

Value(type, text, n) == [type |-> type, text |-> text, n |-> n]
Str(text)  == Value("string", text, 0 - 1)
Iso(time)  == Value("string", "iso", time)
Num(n)     == Value("number", "", n)
Null       == Value("null", "", 0 - 1)
Absent     == Value("absent", "", 0 - 1)
Other      == Value("other", "", 0 - 1)       \* a boolean, array or object

----------------------------------------------------------------------------
(* Readers *)

ReadString(v) == IF v.type = "string" THEN v ELSE Null
ReadNumber(v) == IF v.type = "number" THEN v ELSE Null
OrElse(v, default) == IF v = Null THEN default ELSE v         \* ??

Trim(v) == IF v = Str(" ") THEN Str("") ELSE v
Given(v) == v.type = "string" /\ v # Str("")                  \* a truthy string

Among(v, known) == v.type = "string" /\ v.text \in known

Rejected(why) == [ok |-> FALSE, why |-> why]
Accepted(it)  == [ok |-> TRUE, it |-> it]

----------------------------------------------------------------------------
(* Parsing.  `lacks` names the part that is no record (or no list) at all. *)

(***************************************************************************)
(* Redaction metadata is complete, or it is dropped.                       *)
(***************************************************************************)
ParseRedactionMetadata(v) == IF v = Str("complete") THEN v ELSE Absent

ParseMetadata(file) ==
  LET m == file.meta IN
  IF file.lacks = "metadata" THEN Rejected("missing")
  ELSE IF ~Among(m.format, {"session", "packets"}) THEN Rejected("format")
  ELSE IF m.version # Num(1) THEN Rejected("version")
  ELSE IF ~Given(Trim(m.sessionName)) \/ ~Given(m.createdAt) \/ ~Given(m.exportedAt)
          \/ ReadNumber(m.packetCount) = Null
       THEN Rejected("incomplete")
  ELSE Accepted([m EXCEPT !.sessionName = Trim(@), !.endpointUrl = ReadString(@),
                          !.redaction = ParseRedactionMetadata(@)])

ParseSession(file, fallbackName) ==
  LET s == file.session IN
  IF file.lacks = "session" THEN Rejected("missing")
  ELSE IF ~Among(s.status, {"closed", "connected", "connecting", "error"}) THEN Rejected("status")
  ELSE IF ~Given(s.endpointUrl) \/ ~Given(s.id) \/ ReadNumber(s.startedAt) = Null
       THEN Rejected("fields")
  ELSE Accepted([s EXCEPT !.closeReason = ReadString(@), !.endedAt = ReadNumber(@),
                          !.createdAt = OrElse(ReadNumber(@), s.startedAt),
                          !.name = IF Given(Trim(ReadString(@))) THEN Trim(@) ELSE fallbackName])

IsPacket(p) ==
  /\ Given(p.id) /\ Given(p.sessionId)
  /\ Among(p.direction, {"inbound", "outbound"})
  /\ Among(p.payloadKind, {"binary", "json", "text"})
  /\ p.payload.type = "string"
  /\ p.timestamp.type = "number"

(***************************************************************************)
(* A packet that was not sent by the user has no source.                   *)
(***************************************************************************)
ParsePacket(p) ==
  IF Among(p.sendSource, {"manual", "replay"}) THEN [p EXCEPT !.sourcePacketId = ReadString(@)]
  ELSE [p EXCEPT !.sendSource = Absent, !.sourcePacketId = Absent]

SortPacketsNewestFirst(list) ==      \* stable
  LET Newer(i, j) == \/ list[i].timestamp.n > list[j].timestamp.n
                     \/ list[i].timestamp.n = list[j].timestamp.n /\ i < j
      order == SetToSortSeq(DOMAIN list, Newer)
  IN  [k \in DOMAIN list |-> list[order[k]]]

ParsePackets(file) ==
  IF file.lacks = "packets" THEN Rejected("list")
  ELSE IF \E i \in DOMAIN file.packets : ~IsPacket(file.packets[i]) THEN Rejected("packet")
  ELSE Accepted(SortPacketsNewestFirst([i \in DOMAIN file.packets |-> ParsePacket(file.packets[i])]))

(***************************************************************************)
(* A packet export has no session, whatever the file holds under that key. *)
(***************************************************************************)
Parsed(meta, session, packets) ==
  Accepted([lacks   |-> IF meta.format = Str("packets") THEN "session" ELSE "nothing",
            meta    |-> [meta EXCEPT !.packetCount = Num(Len(packets))],
            session |-> session,
            packets |-> packets])

ParseSocketLensFile(file) ==
  LET meta == ParseMetadata(file)
      packets == ParsePackets(file)
  IN  IF file.lacks = "everything" THEN Rejected("no JSON object")
      ELSE IF ~meta.ok THEN meta
      ELSE IF ~packets.ok THEN packets
      ELSE IF meta.it.format = Str("packets") THEN Parsed(meta.it, file.session, packets.it)
      ELSE LET session == ParseSession(file, meta.it.sessionName)
           IN  IF session.ok THEN Parsed(meta.it, session.it, packets.it) ELSE session

----------------------------------------------------------------------------
(* Writing *)

(***************************************************************************)
(* createSessionFile and createPacketExportFile.  An export of packets     *)
(* dates from the earliest of them.                                        *)
(***************************************************************************)
Times(packets) == {packets[i].timestamp.n : i \in DOMAIN packets}

CreatedAt(format, session, packets) ==
  IF format = "packets" /\ packets # <<>> THEN Iso(Min(Times(packets))) ELSE Iso(session.createdAt.n)

CreateFile(format, session, packets) ==
  [lacks   |-> IF format = "packets" THEN "session" ELSE "nothing",
   meta    |-> [format |-> Str(format), version |-> Num(1), sessionName |-> session.name,
                createdAt |-> CreatedAt(format, session, packets), exportedAt |-> Iso(Now),
                packetCount |-> Num(Len(packets)), endpointUrl |-> session.endpointUrl,
                redaction |-> Absent],
   session |-> session,
   packets |-> SortPacketsNewestFirst(packets)]

----------------------------------------------------------------------------
(* Importing *)

NormalizeImportedSessionStatus(status) ==
  IF status \in {Str("connected"), Str("connecting")} THEN Str("closed") ELSE status

TimestampFromIso(v, fallback) == IF v.n >= 0 THEN Num(v.n) ELSE fallback

Earliest(packets, default) == IF packets = <<>> THEN default ELSE Num(Min(Times(packets)))
Latest(packets, default)   == IF packets = <<>> THEN default ELSE Num(Max(Times(packets)))

CountOf(packets, direction) == Len(SelectSeq(packets, LAMBDA p : p.direction = Str(direction)))

Imported(session, meta, packets, startedAt) ==
  [name      |-> meta.sessionName,
   status    |-> NormalizeImportedSessionStatus(session.status),
   startedAt |-> startedAt,
   endedAt   |-> OrElse(session.endedAt, Latest(packets, Num(Now))),
   createdAt |-> TimestampFromIso(meta.createdAt, OrElse(session.createdAt, startedAt)),
   endpoint  |-> OrElse(OrElse(session.endpointUrl, meta.endpointUrl), Str("import")),
   reason    |-> IF session.closeReason = Null /\ session.status \in {Str("connected"), Str("connecting")}
                 THEN Str("Imported session snapshot") ELSE session.closeReason,
   received  |-> CountOf(packets, "inbound"),
   sent      |-> CountOf(packets, "outbound")]

NoSession == [status |-> Str("closed"), endedAt |-> Null, startedAt |-> Null, createdAt |-> Null,
              endpointUrl |-> Null, closeReason |-> Null]

CreateImportedSessionSnapshot(file) ==
  LET session == IF file.lacks = "session" THEN NoSession ELSE file.session
  IN  Imported(session, file.meta, file.packets,
               OrElse(session.startedAt,
                      Earliest(file.packets, TimestampFromIso(file.meta.createdAt, Num(Now)))))

----------------------------------------------------------------------------
(* The samples of the instance: what the program writes, as it is or with  *)
(* one value changed.                                                      *)

Session(status, endedAt) ==
  [id |-> Str("s"), status |-> Str(status), name |-> Str("name"), endpointUrl |-> Str("url"),
   startedAt |-> Num(1), createdAt |-> Num(1), endedAt |-> endedAt, closeReason |-> Null]

Packet(time, direction, source) ==
  [id |-> Str("p"), sessionId |-> Str("s"), direction |-> Str(direction), payload |-> Str(""),
   payloadKind |-> Str("text"), timestamp |-> Num(time), sendSource |-> source,
   sourcePacketId |-> IF source = Absent THEN Absent ELSE Null]

Lists == {<<>>, <<Packet(3, "inbound", Absent), Packet(2, "outbound", Str("manual"))>>,
          <<Packet(2, "inbound", Absent), Packet(3, "outbound", Str("replay"))>>}

Written ==
  {CreateFile(format, session, list) :
     format \in {"session", "packets"}, list \in Lists,
     session \in {Session("connected", Null), Session("error", Num(3)), Session("closed", Num(4))}}

FieldValues == {Absent, Null, Other, Str(""), Str(" "), Str("known"), Num(0)}

Changed(record) == {[record EXCEPT ![field] = v] : field \in DOMAIN record, v \in FieldValues}

ChangedFiles(file) ==
  {[file EXCEPT !.lacks = part] : part \in {"everything", "metadata", "session", "packets"}}
  \cup {[file EXCEPT !.meta = m] : m \in Changed(file.meta)}
  \cup {[file EXCEPT !.session = s] : s \in Changed(file.session)}
  \cup (IF file.packets = <<>> THEN {}
        ELSE {[file EXCEPT !.packets[1] = p] : p \in Changed(file.packets[1])})

Samples == Written \cup UNION {ChangedFiles(file) : file \in Written}

----------------------------------------------------------------------------
(* Laws *)

(***************************************************************************)
(* What the program writes it reads again, unchanged.                      *)
(***************************************************************************)
WrittenFilesLoad(file, result) == file \in Written => result.ok /\ result.it = file

(***************************************************************************)
(* Whatever else is accepted is read the same once it has been written     *)
(* again: nothing half valid survives the first reading.                   *)
(***************************************************************************)
ReadingSettles(result) == result.ok => ParseSocketLensFile(result.it) = result

(***************************************************************************)
(* An import, also of an edited file, makes a session that has ended, with *)
(* a name, an endpoint, a start, an end and the packets it counts; from a  *)
(* file of the program, it ends no earlier than it starts.                 *)
(***************************************************************************)
ImportIsComplete(file, session, packets) ==
  /\ session.status \in {Str("closed"), Str("error")}
  /\ Given(session.name) /\ session.endpoint.type = "string"
  /\ {session.startedAt.type, session.endedAt.type, session.createdAt.type} = {"number"}
  /\ session.received + session.sent = Len(packets)
  /\ file \in Written => session.startedAt.n <= session.endedAt.n

LawsOf(file, result) ==
  /\ WrittenFilesLoad(file, result)
  /\ ReadingSettles(result)
  /\ result.ok => ImportIsComplete(file, CreateImportedSessionSnapshot(result.it), result.it.packets)

FileFormatLaws(file) == LawsOf(file, ParseSocketLensFile(file))

=============================================================================

---------------------------- MODULE SessionFiles ----------------------------
(***************************************************************************)
(* Saving, exporting and loading sessions: models/session-file.ts, the     *)
(* redaction of models/session-redaction.ts as far as packets and session  *)
(* go (its walk through a payload is Redaction), the panel of              *)
(* components/session-persistence-panel.tsx, the handlers of App.tsx and   *)
(* lib/session-file-storage.ts.                                            *)
(*                                                                         *)
(* A file is made when the button is clicked and written when the dialog   *)
(* is answered; the panel's one flag says that something is pending.       *)
(* A packet has a payload that holds a secret or not, a note that a custom *)
(* rule matches or not, and for a replay the packet it was made from.  A   *)
(* session has an endpoint and, once it has ended, a close reason that may *)
(* hold a secret, and a name that a custom rule matches or not.            *)
(***************************************************************************)
EXTENDS Integers, Sequences, FiniteSets, SequencesExt, Arrangements

CONSTANTS
  Rules,          \* what the custom rules may be: subset of {"none", "valid", "invalid"}
  Times,          \* timestamps of captured packets
  Limits,         \* the retention limits that can be set
  MaxCaptured,    \* bound: packets captured
  MaxPackets,     \* bound: packet ids, the imported ones included
  MaxSessions,    \* bound: session ids
  MaxFiles,       \* bound: files written
  MaxRunning      \* bound: operations in flight

VARIABLES
  packets,        \* newest first
  sessions,       \* sequence, by id: [status, endpoint, reason, name, count]
  limit,          \* settings.packetRetentionLimit
  current,        \* currentSession
  redacting,      \* redactionEnabled
  rule,           \* the custom rule: "none", "valid" or "invalid"
  unsafe,         \* unsafeOperation
  pending,        \* pendingOperation
  running,        \* operations in flight
  disk,           \* the files written, in order
  used            \* packet ids given out

storeVars == <<packets, sessions, limit, used>>
panelVars == <<current, redacting, rule, unsafe>>
fileVars == <<storeVars, panelVars, pending, running, disk>>

None == "none"
NoPacket == 0

FileOperations == {"save", "export"}

Names == {"plain", "matching"}     \* whether a custom rule matches the name
Reasons == {"none", "secret"}

TypeOK ==
  /\ \A p \in ToSet(packets) : p.id \in 1 .. used /\ p.s \in DOMAIN sessions
  /\ used \in 0 .. MaxPackets /\ Len(sessions) <= MaxSessions
  /\ limit \in Limits /\ Len(packets) <= limit
  /\ current \in DOMAIN sessions
  /\ rule \in Rules
  /\ {unsafe} \subseteq FileOperations \cup {None}
  /\ pending \in FileOperations \cup {"load", None}
  /\ Cardinality(running) <= MaxRunning

Init ==
  /\ packets = <<>>
  /\ sessions = <<[status |-> "connected", endpoint |-> "secret", reason |-> "none",
                   name |-> "matching", count |-> 0]>>
  /\ limit \in Limits
  /\ current = 1
  /\ redacting = TRUE
  /\ rule = CHOOSE r \in Rules : r # "invalid"
  /\ unsafe = None
  /\ pending = None
  /\ running = {}
  /\ disk = <<>>
  /\ used = 0

----------------------------------------------------------------------------
(* Redaction of a copy *)

OfSession(s) == Kept(packets, {i \in DOMAIN packets : packets[i].s = s})

RedactedPacket(p) == [p EXCEPT !.secret = FALSE, !.note = p.note /\ rule # "valid"]

RedactedSession(session) ==
  [session EXCEPT !.endpoint = "plain", !.reason = "none",
                  !.name = IF rule = "valid" THEN "plain" ELSE @]

(***************************************************************************)
(* createSessionRedactionPreview: something would be replaced, or a rule   *)
(* does not compile.  It looks at the session's own name, not at the one   *)
(* typed for the file.                                                     *)
(***************************************************************************)
SensitiveDataDetected ==
  \/ sessions[current].endpoint = "secret" \/ sessions[current].reason = "secret"
  \/ sessions[current].name = "matching" /\ rule = "valid"
  \/ \E p \in ToSet(OfSession(current)) : p.secret \/ (p.note /\ rule = "valid")
  \/ rule = "invalid"

FileActionsDisabled == pending # None \/ (redacting /\ rule = "invalid")

----------------------------------------------------------------------------
(* Files *)

SortNewestFirst(list) == NewestFirst(list)

(***************************************************************************)
(* createSessionFile and createPacketExportFile as App.tsx calls them.  A  *)
(* packet export has no session, only its endpoint in the metadata.  The   *)
(* name in the metadata, and of a saved session, is what the panel's input *)
(* holds, put in after redaction: the session's own until another one is   *)
(* typed.                                                                  *)
(***************************************************************************)
FileOf(op, redact, typed) ==
  LET session == IF redact THEN RedactedSession(sessions[current]) ELSE sessions[current]
      list == SortNewestFirst(OfSession(current))
  IN  [format   |-> op,
       status   |-> IF op = "save" THEN session.status ELSE "closed",
       endpoint |-> session.endpoint,
       reason   |-> IF op = "save" THEN session.reason ELSE "none",
       name     |-> typed,
       packets  |-> [n \in DOMAIN list |-> IF redact THEN RedactedPacket(list[n]) ELSE list[n]],
       redacted |-> redact,
       rule     |-> rule]

----------------------------------------------------------------------------
(* Import *)

ImportedStatus(status) == IF status \in {"connected", "connecting"} THEN "closed" ELSE status

(***************************************************************************)
(* Every packet gets a fresh id; the link of a replay follows its packet   *)
(* when the file holds it, and is kept as it is otherwise.                 *)
(***************************************************************************)
NewId(list, id) == used + (CHOOSE n \in DOMAIN list : list[n].id = id)

LinkKept(list, source) == source         \* faulty: links still name the exported packets

Link(list, source) ==
  IF \E n \in DOMAIN list : list[n].id = source THEN NewId(list, source) ELSE source

ImportedPackets(file) ==
  LET list == SortNewestFirst(file.packets)
  IN  [n \in DOMAIN list |->
         [list[n] EXCEPT !.id = NewId(list, @), !.s = Len(sessions) + 1, !.source = Link(list, @)]]

(***************************************************************************)
(* addPackets and the flush of a batch merge by timestamp, the added       *)
(* packets above equal ones, and keep the newest within the limit.         *)
(***************************************************************************)
Retained(list, n) == IF Len(list) <= n THEN list ELSE SubSeq(list, 1, n)

Merged(added, list) == Retained(SortNewestFirst(added \o list), limit)

ImportSocketLensFile(file) ==
  /\ used + Len(file.packets) <= MaxPackets /\ Len(sessions) < MaxSessions
  /\ packets' = Merged(ImportedPackets(file), packets)
  /\ sessions' = Append(sessions, [status |-> ImportedStatus(file.status), endpoint |-> file.endpoint,
                                   reason |-> file.reason, name |-> file.name,
                                   count |-> Len(file.packets)])
  /\ used' = used + Len(file.packets)
  /\ current' = Len(sessions) + 1
  /\ UNCHANGED limit

----------------------------------------------------------------------------
(* The program around the panel *)

(***************************************************************************)
(* A packet of the live session, perhaps the replay of any packet shown.   *)
(***************************************************************************)
Capture ==
  /\ used < MaxCaptured
  /\ sessions[1].status = "connected"
  /\ \E secret \in BOOLEAN, time \in Times, source \in {NoPacket} \cup {p.id : p \in ToSet(packets)} :
       packets' = Merged(<<[id |-> used + 1, s |-> 1, t |-> time, secret |-> secret, note |-> ~secret,
                            source |-> source]>>, packets)
  /\ sessions' = [sessions EXCEPT ![1].count = @ + 1]
  /\ used' = used + 1
  /\ UNCHANGED <<limit, panelVars, pending, running, disk>>

(***************************************************************************)
(* The peer closes the live session with a reason of its own.              *)
(***************************************************************************)
SessionEnds ==
  /\ sessions[1].status = "connected"
  /\ sessions' = [sessions EXCEPT ![1].status = "closed", ![1].reason = "secret"]
  /\ UNCHANGED <<packets, limit, used, panelVars, pending, running, disk>>

SetLimit ==                   \* trimToRetentionLimit
  /\ limit' \in Limits
  /\ packets' = Retained(packets, limit')
  /\ UNCHANGED <<sessions, used, panelVars, pending, running, disk>>

SelectSession ==
  /\ current' \in DOMAIN sessions \ {current}
  /\ UNCHANGED <<storeVars, redacting, rule, unsafe, pending, running, disk>>

----------------------------------------------------------------------------
(* The panel *)

ToggleRedaction ==
  /\ redacting' = ~redacting
  /\ unsafe' = None
  /\ UNCHANGED <<storeVars, current, rule, pending, running, disk>>

EditRules ==
  /\ pending = None
  /\ rule' \in Rules
  /\ UNCHANGED <<storeVars, current, redacting, unsafe, pending, running, disk>>

Run(op, job) ==
  /\ Cardinality(running) < MaxRunning
  /\ op # "load" => Len(disk) < MaxFiles
  /\ job \notin running
  /\ running' = running \cup {job}
  /\ pending' = op

SaveJob(op, redact, typed, asked) ==
  [op |-> op, file |-> FileOf(op, redact, typed), asked |-> asked]

(***************************************************************************)
(* Save needs a session, the exports packets; without redaction the panel  *)
(* asks first when there is something to hide.                             *)
(***************************************************************************)
ClickWithoutAsking(op) ==     \* faulty: does not ask
  /\ ~FileActionsDisabled
  /\ op = "export" => OfSession(current) # <<>>
  /\ \E typed \in Names : Run(op, SaveJob(op, redacting, typed, FALSE))
  /\ UNCHANGED unsafe
  /\ UNCHANGED <<storeVars, current, redacting, rule, disk>>

HandleFileOperation(op) ==
  /\ ~FileActionsDisabled
  /\ op = "export" => OfSession(current) # <<>>
  /\ IF ~redacting /\ SensitiveDataDetected
       THEN unsafe' = op /\ UNCHANGED <<pending, running>>
       ELSE /\ \E typed \in Names : Run(op, SaveJob(op, redacting, typed, FALSE))
            /\ UNCHANGED unsafe
  /\ UNCHANGED <<storeVars, current, redacting, rule, disk>>

(***************************************************************************)
(* The confirmation exports the session shown now, and is not disabled     *)
(* while another operation is pending.                                     *)
(***************************************************************************)
HandleConfirmUnsafeExport ==
  /\ unsafe # None
  /\ unsafe = "export" => OfSession(current) # <<>>
  /\ unsafe' = None
  /\ \E typed \in Names : Run(unsafe, SaveJob(unsafe, FALSE, typed, TRUE))
  /\ UNCHANGED <<storeVars, current, redacting, rule, disk>>

CancelUnsafe ==
  /\ unsafe # None
  /\ unsafe' = None
  /\ UNCHANGED <<storeVars, current, redacting, rule, pending, running, disk>>

HandleLoadClick ==
  /\ pending = None /\ disk # <<>>
  /\ Run("load", [op |-> "load"])
  /\ UNCHANGED <<storeVars, panelVars, disk>>

Ends(job) == running' = running \ {job} /\ pending' = None

SaveEnds ==                   \* written, or cancelled, or failed
  /\ \E job \in running :
       /\ job.op # "load"
       /\ disk' \in {disk, Append(disk, [job.file EXCEPT !.rule = IF job.asked THEN "asked" ELSE @])}
       /\ Ends(job)
  /\ UNCHANGED <<storeVars, panelVars>>

LoadEnds ==                   \* a file is chosen and read when the dialog is answered
  /\ \E job \in running :
       /\ job.op = "load"
       /\ Ends(job)
       /\ \/ \E file \in ToSet(disk) : ImportSocketLensFile(file)
          \/ UNCHANGED <<storeVars, current>>         \* cancelled, or no valid file
  /\ UNCHANGED <<redacting, rule, unsafe, disk>>

Next ==
  \/ Capture
  \/ SessionEnds
  \/ SetLimit
  \/ SelectSession
  \/ ToggleRedaction
  \/ EditRules
  \/ \E op \in FileOperations : HandleFileOperation(op)
  \/ HandleConfirmUnsafeExport
  \/ CancelUnsafe
  \/ HandleLoadClick
  \/ SaveEnds
  \/ LoadEnds

Spec == Init /\ [][Next]_fileVars

----------------------------------------------------------------------------
(* Properties *)

(***************************************************************************)
(* The endpoint, the close reason and the packets of a redacted file hold  *)
(* no secret, and its notes nothing that its rules match; a file that does *)
(* hold a secret was written after a confirmation.  The name is not among  *)
(* what is safe: see NameIsRedacted.                                       *)
(***************************************************************************)
FilesAreSafe ==
  \A file \in ToSet(disk) :
    LET secrets == \/ file.endpoint = "secret" \/ file.reason = "secret"
                   \/ \E p \in ToSet(file.packets) : p.secret
    IN  /\ secrets => ~file.redacted /\ file.rule = "asked"
        /\ file.redacted /\ file.rule = "valid" => \A p \in ToSet(file.packets) : ~p.note

(***************************************************************************)
(* docs/privacy.md: redaction of the exported copy targets what "custom    *)
(* rules that you enter manually" match, and session names are among what  *)
(* an export contains.  A redacted file would have no name that its rules  *)
(* match.                                                                  *)
(***************************************************************************)
NameIsRedacted ==
  \A file \in ToSet(disk) : file.redacted /\ file.rule = "valid" => file.name = "plain"

(***************************************************************************)
(* An imported session is closed, no packet of an import is taken for the  *)
(* replay of one that came later, and no two packets have the same id.  A  *)
(* link to a packet that was not in the file is kept, so it may name one   *)
(* of an earlier import.                                                   *)
(***************************************************************************)
ImportsAreClosedWorlds ==
  /\ \A s \in DOMAIN sessions : s # 1 => sessions[s].status = "closed"
  /\ \A p, q \in ToSet(packets) : p.source = q.id => q.s <= p.s \/ p.s = 1
  /\ \A p, q \in ToSet(packets) : p.id = q.id => p = q

(***************************************************************************)
(* What loading a file puts on the timeline is its newest packets, in      *)
(* their order and with what they hold, and links between two of them stay *)
(* links between two of them.  Packets of the file are missing only if the *)
(* timeline is at its limit, and all that is on it is at least as new.     *)
(***************************************************************************)
RestoredFrom(file) ==
  LET brought == Kept(packets', {i \in DOMAIN packets' : packets'[i].s = Len(sessions')})
      list == SortNewestFirst(file.packets)
      missing == (DOMAIN list) \ (DOMAIN brought)
  IN  /\ DOMAIN brought \subseteq DOMAIN list
      /\ \A n \in DOMAIN brought :
           /\ brought[n].t = list[n].t /\ brought[n].secret = list[n].secret /\ brought[n].note = list[n].note
           /\ \A m \in DOMAIN brought : list[n].source = list[m].id <=> brought[n].source = brought[m].id
      /\ missing # {} => Len(packets') = limit
      /\ \A n \in missing, p \in ToSet(packets') : p.t >= list[n].t

TranscriptRestored ==
  Len(sessions') > Len(sessions) => \E file \in ToSet(disk) : RestoredFrom(file)

LoadRestoresTranscript == [][TranscriptRestored]_fileVars

=============================================================================

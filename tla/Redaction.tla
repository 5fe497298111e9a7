----------------------------- MODULE Redaction -----------------------------
(***************************************************************************)
(* What redaction does to a packet, its notes and its session:             *)
(* models/session-redaction.ts.                                            *)
(*                                                                         *)
(* A text is the set of things in it that a rule of some kind matches: a   *)
(* URL with a query or user ("url"), a credential of the built-in text     *)
(* rules ("credential"), a match of a custom rule ("custom").              *)
(***************************************************************************)
EXTENDS PayloadTrees, Integers, FiniteSetsExt

CONSTANT Payloads    \* the payloads of the instance, with all parts of each

Replacement == Text({})

Result(value, replacements) == [value |-> value, replacements |-> replacements]

----------------------------------------------------------------------------
(* Texts *)

(***************************************************************************)
(* Names, notes and tags are the user's own words: only custom rules apply *)
(* there.                                                                  *)
(***************************************************************************)
Matched(parts, rule, customOnly) ==
  parts \cap ((IF customOnly THEN {} ELSE {"url", "credential"}) \cup (IF rule = "valid" THEN {"custom"} ELSE {}))

RedactString(parts, rule, customOnly) ==
  Result(parts \ Matched(parts, rule, customOnly), Cardinality(Matched(parts, rule, customOnly)))

----------------------------------------------------------------------------
(* JSON *)

(***************************************************************************)
(* What a sensitive key holds is replaced, an array or object item by item.*)
(***************************************************************************)
RedactWholeTop(value) == Result(IF value.kind \in {"text", "number"} THEN Replacement ELSE value, 1)
                              \* faulty: leaves what an array or object holds

RedactWholeValue(value) ==
  IF IsInner(value) THEN Result([value EXCEPT !.nodes = [k \in DOMAIN @ |-> Replacement]],
                                Cardinality(DOMAIN value.nodes))
  ELSE IF value.kind = "null" THEN Result(value, 0)
  ELSE Result(Replacement, 1)

(***************************************************************************)
(* Numbers, booleans and keys are never matched against the custom rules.  *)
(***************************************************************************)
Rebuilt(value, results) ==
  Result([value EXCEPT !.nodes = [k \in DOMAIN results |-> results[k].value]],
         MapThenSumSet(LAMBDA k : results[k].replacements, DOMAIN results))

RedactJsonValue[value \in Payloads, rule \in {"none", "valid", "invalid"}] ==
  IF IsInner(value)
  THEN Rebuilt(value, [k \in DOMAIN value.nodes |->
                         IF value.kind = "object" /\ k \in SensitiveKeys
                         THEN RedactWholeValue(value.nodes[k])
                         ELSE RedactJsonValue[value.nodes[k], rule]])
  ELSE IF value.kind = "text"
  THEN Result(Text(value.parts \ Matched(value.parts, rule, FALSE)),
              Cardinality(Matched(value.parts, rule, FALSE)))
  ELSE Result(value, 0)

----------------------------------------------------------------------------
(* Packets, notes and sessions *)

(***************************************************************************)
(* Annotations: the note and the tags; those of which nothing is left are  *)
(* removed, unless the packet is a favourite or has a colour.              *)
(***************************************************************************)
PacketOf(payload, note) ==
  [packet |-> [payload |-> payload.value, note |-> note.value],
   replacements |-> payload.replacements + note.replacements,
   preview |-> IF payload.replacements > 0 THEN "payload" ELSE "annotations"]

RedactPacket(packet, rule) ==
  PacketOf(RedactJsonValue[packet.payload, rule], RedactString(packet.note, rule, TRUE))

SessionOf(endpoint, reason, name) ==
  [session |-> [endpoint |-> endpoint.value, reason |-> reason.value, name |-> name.value],
   replacements |-> endpoint.replacements + reason.replacements + name.replacements]

RedactSession(session, rule) ==
  SessionOf(RedactString(session.endpoint, rule, FALSE), RedactString(session.reason, rule, FALSE),
            RedactString(session.name, rule, TRUE))

(***************************************************************************)
(* The preview shows the first packet that changes; an invalid rule counts *)
(* as sensitive data, since it protects nothing.                           *)
(***************************************************************************)
Export(results, changed, ofSession, rule) ==
  [packets  |-> [i \in DOMAIN results |-> results[i].packet],
   session  |-> ofSession.session,
   preview  |-> IF changed = {} THEN 0 ELSE Min(changed),
   redacted |-> Cardinality(changed),
   detected |-> changed # {} \/ ofSession.replacements > 0 \/ rule = "invalid"]

RedactSessionForExport(packets, session, rule) ==
  LET results == [i \in DOMAIN packets |-> RedactPacket(packets[i], rule)]
  IN  Export(results, {i \in DOMAIN results : results[i].replacements > 0},
             RedactSession(session, rule), rule)

----------------------------------------------------------------------------
(* Laws *)

Samples == [payload : Payloads, note : Texts]

SecretLeft[value \in Payloads] ==
  IF IsInner(value)
  THEN \E k \in DOMAIN value.nodes :
         LET held == value.nodes[k]
             parts == IF IsInner(held) THEN {held.nodes[j] : j \in DOMAIN held.nodes} ELSE {held}
         IN  IF value.kind = "object" /\ k \in SensitiveKeys
             THEN ~parts \subseteq {Replacement} /\ parts # {Null}
             ELSE SecretLeft[held]
  ELSE value.kind = "text" /\ value.parts # {}

(***************************************************************************)
(* Whatever the depth, nothing under a sensitive key and no matched text   *)
(* survives; a payload counted as untouched is the same; redacting the     *)
(* result again changes nothing.                                           *)
(***************************************************************************)
RedactedWell(packet, once, without) ==
  /\ ~SecretLeft[once.packet.payload] /\ once.packet.note \subseteq {"url", "credential"}
  /\ without.replacements = 0 => without.packet = packet
  /\ RedactPacket(once.packet, "valid").packet = once.packet
  /\ without.packet.note = packet.note

RedactionLaws(packet) ==
  RedactedWell(packet, RedactPacket(packet, "valid"), RedactPacket(packet, "none"))

(***************************************************************************)
(* Of a session of two packets, the preview shows a packet that changes    *)
(* whenever one does, and the user is asked whenever there is something to *)
(* hide.                                                                   *)
(***************************************************************************)
PreviewTells(list, name, rule, result) ==
  /\ (result.packets # list \/ result.session.name # name) => result.detected
  /\ result.preview = 2 \/ (result.preview = 0 /\ result.packets = list)
  /\ rule = "invalid" => result.detected

PreviewLaws(packet) ==
  \A name \in Texts, rule \in {"none", "valid", "invalid"} :
    LET list == <<[payload |-> Text({}), note |-> {}], packet>>
    IN  PreviewTells(list, name, rule,
          RedactSessionForExport(list, [endpoint |-> {}, reason |-> {}, name |-> name], rule))

=============================================================================

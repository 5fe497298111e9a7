---------------------------- MODULE PayloadTrees ----------------------------
(***************************************************************************)
(* Payloads as redaction sees them (models/session-redaction.ts): a text,  *)
(* or a JSON tree of nodes [kind, ...], down to a depth of two.            *)
(***************************************************************************)
EXTENDS Sequences, FiniteSets, SequencesExt

CONSTANTS
  PlainKeys, SensitiveKeys,   \* the keys of a JSON object; isSensitiveKey is membership
  Texts                       \* the texts of the instance: a set of sets

Text(parts) == [kind |-> "text", parts |-> parts]
Number == [kind |-> "number"]
Null == [kind |-> "null"]
Array(items) == [kind |-> "array", nodes |-> items]        \* a sequence
Object(entries) == [kind |-> "object", nodes |-> entries]  \* a function of its keys

IsInner(value) == value.kind \in {"array", "object"}

Leaves == {Text(parts) : parts \in Texts} \cup {Number, Null}

Above(nodes) ==
  LET both == PlainKeys \cup SensitiveKeys
  IN  {Array(items) : items \in TupleOf(nodes, 1) \cup {<<>>}}
      \cup {Object(entries) : entries \in UNION {[keys -> nodes] : keys \in SUBSET both}}

Shallow == Leaves \cup Above(Leaves) \cup {Array(<<a, b>>) : a, b \in Leaves}

Trees == Shallow \cup {Array(<<node>>) : node \in Shallow}
                 \cup {Object(k :> node) : k \in PlainKeys \cup SensitiveKeys, node \in Shallow}

=============================================================================

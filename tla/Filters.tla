------------------------------ MODULE Filters ------------------------------
(***************************************************************************)
(* Which packets the timeline shows: models/filter-state.ts and            *)
(* extensions/filter-engine.ts.                                            *)
(*                                                                         *)
(* A query is "" (nothing but blanks), a word, or "bad" when it does not   *)
(* compile.  A packet's words are what getSearchText holds; its payload is *)
(* a function of the paths a smart condition may name, or NoObject.        *)
(***************************************************************************)
EXTENDS Integers, Sequences, FiniteSets, SequencesExt, FiniteSetsExt

CONSTANTS
  Sessions,       \* session ids
  Words,          \* search and event queries
  Values          \* values at the one path of a smart condition

All == "all"
Missing == "undefined"        \* what normalizeComparableValue makes of an absent value
NoObject == "none"
NoSession == "none"
NoLimit == 0 - 1

Directions == {"inbound", "outbound"}
PayloadKinds == {"json", "text", "binary"}

DefaultFilterState ==
  [direction |-> All, errorsOnly |-> FALSE, eventQuery |-> "", hideHeartbeat |-> FALSE, hidePingPong |-> FALSE,
   maxSizeBytes |-> NoLimit, minSizeBytes |-> NoLimit, payloadKind |-> All, searchQuery |-> "",
   searchMode |-> "text", sessionId |-> NoSession, smartQuery |-> <<>>]

----------------------------------------------------------------------------
(* Normalisation of a stored filter *)

(***************************************************************************)
(* A stored field is the set of the valid value it holds: empty when it is *)
(* missing, of another type, an unknown direction, a size below zero.      *)
(***************************************************************************)
NormalizeFilterState(stored) ==
  [field \in DOMAIN DefaultFilterState |->
     IF stored[field] = {} THEN DefaultFilterState[field] ELSE CHOOSE v \in stored[field] : TRUE]

Stored(filter) == [field \in DOMAIN filter |-> {filter[field]}]

----------------------------------------------------------------------------
(* Compilation *)

CompileSearchRegex(filter) == filter.searchMode = "regex" /\ filter.searchQuery = "bad"

(***************************************************************************)
(* A smart query is the sequence of its conditions, [operator, value], or  *)
(* "bad" for one that cannot be read.                                      *)
(***************************************************************************)
CompileFilterState(filter) ==
  [issues     |-> CompileSearchRegex(filter) \/ \E i \in DOMAIN filter.smartQuery : filter.smartQuery[i].operator = "bad",
   conditions |-> SelectSeq(filter.smartQuery, LAMBDA c : c.operator # "bad")]

----------------------------------------------------------------------------
(* Matching *)

MatchesSearchQuery(packet, filter) == filter.searchQuery = "" \/ filter.searchQuery \in packet.words

(***************************************************************************)
(* Only an object can match a condition, be it == or !=; a path that is    *)
(* not there reads as "undefined", so != holds of it.                      *)
(***************************************************************************)
MatchesSmartConditions(packet, conditions) ==
  \/ conditions = <<>>
  \/ /\ packet.kind = "json" /\ packet.value # NoObject
     /\ \A i \in DOMAIN conditions :
          (packet.value = conditions[i].value) <=> (conditions[i].operator = "==")

MatchesDefaultFilter(packet, filter, compiled) ==
  /\ filter.sessionId \in {NoSession, packet.session}
  /\ filter.direction \in {All, packet.direction}
  /\ filter.payloadKind \in {All, packet.kind}
  /\ filter.errorsOnly => packet.isError
  /\ filter.hideHeartbeat => ~packet.heartbeat
  /\ filter.hidePingPong => ~packet.pingPong
  /\ filter.minSizeBytes # NoLimit => packet.size >= filter.minSizeBytes
  /\ filter.maxSizeBytes # NoLimit => packet.size <= filter.maxSizeBytes
  /\ filter.eventQuery \in {"", packet.event}
  /\ MatchesSearchQuery(packet, filter)
  /\ MatchesSmartConditions(packet, compiled.conditions)

IsSemanticFilterActive(filter) ==
  \/ filter.direction # All \/ filter.payloadKind # All
  \/ filter.errorsOnly \/ filter.hideHeartbeat \/ filter.hidePingPong
  \/ filter.eventQuery # "" \/ filter.searchQuery # "" \/ filter.smartQuery # <<>>
  \/ filter.minSizeBytes # NoLimit \/ filter.maxSizeBytes # NoLimit

(***************************************************************************)
(* The list is returned as it is when nothing is asked of it, and is empty *)
(* when a query does not compile.                                          *)
(***************************************************************************)
Apply(packets, filter) ==
  LET compiled == CompileFilterState(filter)
  IN  CASE filter.sessionId = NoSession /\ ~IsSemanticFilterActive(filter) -> packets
        [] compiled.issues -> <<>>
        [] OTHER -> SelectSeq(packets, LAMBDA p : MatchesDefaultFilter(p, filter, compiled))

Matches(packet, filter) ==
  LET compiled == CompileFilterState(filter)
  IN  ~compiled.issues /\ MatchesDefaultFilter(packet, filter, compiled)

----------------------------------------------------------------------------
(* The samples of the instance: filters that ask at most two things, and a *)
(* few packets that differ in everything a filter can ask                  *)

Conditions == [operator : {"==", "!="}, value : Values \cup {Missing}] \cup {[operator |-> "bad", value |-> Missing]}

FieldValues ==
  [direction |-> Directions, errorsOnly |-> {TRUE}, eventQuery |-> Words, hideHeartbeat |-> {TRUE},
   hidePingPong |-> {TRUE}, maxSizeBytes |-> {0, 1}, minSizeBytes |-> {0, 1}, payloadKind |-> PayloadKinds,
   searchQuery |-> Words \cup {"bad"}, searchMode |-> {"regex"}, sessionId |-> Sessions,
   smartQuery |-> {<<c>> : c \in Conditions} \cup {<<c, d>> : c, d \in Conditions}]

With(filters) ==
  UNION {{[filter EXCEPT ![field] = v] : v \in FieldValues[field]} : filter \in filters, field \in DOMAIN FieldValues}

Samples == {DefaultFilterState} \cup With({DefaultFilterState}) \cup With(With({DefaultFilterState}))

SamplePackets ==
  LET of(d, k, size, word, value, control) ==
        {[session |-> s, direction |-> d, kind |-> k, size |-> size, isError |-> control = "error",
          heartbeat |-> control = "heartbeat", pingPong |-> control = "ping", event |-> word, words |-> {word},
          value |-> value] : s \in Sessions}
  IN  UNION {of("inbound", "json", 1, w, v, c) : w \in Words, v \in Values \cup {Missing, NoObject},
                                                 c \in {"no", "error"}}
      \cup UNION {of(d, k, 0, "other", NoObject, c) : d \in Directions, k \in PayloadKinds,
                                                      c \in {"heartbeat", "ping", "no"}}

----------------------------------------------------------------------------
(* Laws *)

Order == FoldSet(LAMBDA p, list : Append(list, p), <<>>, SamplePackets)

(***************************************************************************)
(* The short way out for an idle filter and the filtered list agree with   *)
(* what is asked of one packet; a query that does not compile shows        *)
(* nothing; == and != of one value split the object payloads, and no       *)
(* other packet is in either half; asking one thing more never shows more. *)
(***************************************************************************)
FilterLaws(filter, order) ==
  LET shown == Apply(order, filter)
      withSmart(op, v) == [filter EXCEPT !.smartQuery = <<[operator |-> op, value |-> v]>>]
  IN  /\ shown = SelectSeq(order, LAMBDA p : Matches(p, filter))
      /\ CompileFilterState(filter).issues => shown = <<>>
      /\ filter.smartQuery = <<>> =>
           \A v \in Values \cup {Missing} :
             LET equal == ToSet(Apply(order, withSmart("==", v)))
                 unequal == ToSet(Apply(order, withSmart("!=", v)))
             IN  /\ equal \cap unequal = {}
                 /\ equal \cup unequal = {p \in ToSet(shown) : p.kind = "json" /\ p.value # NoObject}
      /\ \A s \in Sessions : ToSet(Apply(order, [filter EXCEPT !.sessionId = s])) \subseteq {p \in SamplePackets : p.session = s}

(***************************************************************************)
(* A stored filter reads back as it was, a damaged field as its default.   *)
(***************************************************************************)
NormalizationLaws(filter) ==
  /\ NormalizeFilterState(Stored(filter)) = filter
  /\ \A field \in DOMAIN filter :
       NormalizeFilterState([Stored(filter) EXCEPT ![field] = {}])
         = [filter EXCEPT ![field] = DefaultFilterState[field]]

=============================================================================

-------------------------- MODULE TimelineFilters --------------------------
(***************************************************************************)
(* The filter bar of components/packet-timeline.tsx over the filter of     *)
(* store/ui-store.ts and the presets of the settings.                      *)
(*                                                                         *)
(* Three queries are typed into drafts and reach the filter 180 ms after   *)
(* the last keystroke; a query that changes behind the bar replaces its    *)
(* draft.  The event and the smart query share a timer.                    *)
(***************************************************************************)
EXTENDS Integers, Sequences, FiniteSets, SequencesExt

CONSTANTS
  Event, Search, Smart,   \* the queries that may be typed, "" included
  ShownPresets,           \* presets shown (6)
  PresetLimit,            \* presets kept (24)
  MaxSaves                \* bound: presets saved

ASSUME PresetAssumption == PresetLimit \in Nat

ASSUME QueryAssumption == "" \in Event \cap Search \cap Smart

VARIABLES
  drafts,         \* searchDraft, eventDraft, smartDraft
  filter,         \* the queries of filterState
  armed,          \* timers that will fire
  typed,          \* queries typed since the filter's own last changed
  presets,        \* newest first: [id, queries, favorite, updated]
  saves           \* presets saved

barVars == <<drafts, filter, armed, typed, presets, saves>>

Queries == [event |-> Event, search |-> Search, smart |-> Smart]
Fields == DOMAIN Queries

NoQueries == [field \in Fields |-> ""]

TimerOf(field) == IF field = "search" THEN "search" ELSE "others"

TypeOK ==
  /\ \A field \in Fields : {drafts[field], filter[field]} \subseteq Queries[field]
  /\ armed \subseteq {"search", "others"} /\ typed \subseteq Fields
  /\ Len(presets) <= PresetLimit

Init ==
  /\ drafts = NoQueries
  /\ filter = NoQueries
  /\ armed = {}
  /\ typed = {}
  /\ presets = <<>>
  /\ saves = 0

----------------------------------------------------------------------------
(* The bar follows the filter *)

Changed(new) == {field \in Fields : new[field] # filter[field]}

FilterBecomesKeepingDrafts(new) ==    \* faulty: the bar keeps what it shows
  /\ filter' = new
  /\ UNCHANGED drafts
  /\ armed' = armed \cup {TimerOf(field) : field \in Changed(new)}
  /\ typed' = typed \ Changed(new)

FilterBecomes(new) ==
  /\ filter' = new
  /\ drafts' = [field \in Fields |-> IF field \in Changed(new) THEN new[field] ELSE drafts[field]]
  /\ armed' = armed \cup {TimerOf(field) : field \in Changed(new)}
  /\ typed' = typed \ Changed(new)

----------------------------------------------------------------------------
(* The bar *)

Type(field) ==
  /\ \E text \in Queries[field] \ {drafts[field]} : drafts' = [drafts EXCEPT ![field] = text]
  /\ armed' = armed \cup {TimerOf(field)}
  /\ typed' = typed \cup {field}
  /\ UNCHANGED <<filter, presets, saves>>

Debounced(timer) ==
  /\ timer \in armed
  /\ LET new == [field \in Fields |-> IF TimerOf(field) = timer THEN drafts[field] ELSE filter[field]]
     IN  /\ filter' = new
         /\ armed' = armed \ {timer}
         /\ typed' = typed \ Changed(new)
  /\ UNCHANGED <<drafts, presets, saves>>

HasActiveFilters == drafts # NoQueries
ValidationIssues == {field \in Fields : drafts[field] = "bad"}

(***************************************************************************)
(* A draft that has not reached the filter survives a reset, since the     *)
(* filter's own query does not change.                                     *)
(***************************************************************************)
ResetFilters ==
  /\ HasActiveFilters
  /\ FilterBecomes(NoQueries)
  /\ UNCHANGED <<presets, saves>>

----------------------------------------------------------------------------
(* Presets *)

SaveFilterPreset ==
  /\ HasActiveFilters /\ ValidationIssues = {}
  /\ saves < MaxSaves
  /\ LET preset == [id |-> saves + 1, queries |-> drafts, favorite |-> FALSE, updated |-> saves + 1]
         all == <<preset>> \o presets
     IN  presets' = SubSeq(all, 1, IF Len(all) > PresetLimit THEN PresetLimit ELSE Len(all))
  /\ saves' = saves + 1
  /\ UNCHANGED <<drafts, filter, armed, typed>>

(***************************************************************************)
(* sortedFilterPresets orders favourites first, then by last change, and   *)
(* by place among equals; the first few are shown.                         *)
(***************************************************************************)
Precedes(i, j) ==
  \/ presets[i].favorite /\ ~presets[j].favorite
  \/ /\ presets[i].favorite = presets[j].favorite
     /\ \/ presets[i].updated > presets[j].updated
        \/ presets[i].updated = presets[j].updated /\ i < j

Shown == {i \in DOMAIN presets : Cardinality({j \in DOMAIN presets : Precedes(j, i)}) < ShownPresets}

ApplyFilterPreset ==
  /\ \E i \in Shown :
       LET queries == presets[i].queries IN
       /\ drafts' = queries
       /\ filter' = queries
       /\ armed' = armed \cup {TimerOf(field) : field \in {f \in Fields : drafts[f] # queries[f]}}
  /\ typed' = {}
  /\ UNCHANGED <<presets, saves>>

ToggleFilterPresetFavorite ==
  /\ \E i \in Shown : presets' = [presets EXCEPT ![i].favorite = ~@, ![i].updated = saves]
  /\ UNCHANGED <<drafts, filter, armed, typed, saves>>

DeleteFilterPreset ==
  /\ \E i \in Shown : presets' = RemoveAt(presets, i)
  /\ UNCHANGED <<drafts, filter, armed, typed, saves>>

Next ==
  \/ \E field \in Fields : Type(field)
  \/ \E timer \in armed : Debounced(timer)
  \/ ResetFilters
  \/ SaveFilterPreset
  \/ ApplyFilterPreset
  \/ ToggleFilterPresetFavorite
  \/ DeleteFilterPreset

BarSpec == Init /\ [][Next]_barVars

----------------------------------------------------------------------------
(* Properties *)

(***************************************************************************)
(* A draft that differs from the filter was typed after the filter's query *)
(* last changed, and its timer is pending: no old draft is written back.   *)
(***************************************************************************)
DraftsAreFresh ==
  \A field \in Fields : drafts[field] # filter[field] => field \in typed /\ TimerOf(field) \in armed

(***************************************************************************)
(* Presets are distinct, and no preset keeps a query that does not compile *)
(* or asks nothing.                                                        *)
(***************************************************************************)
PresetsAreUsable ==
  /\ \A i, j \in DOMAIN presets : presets[i].id = presets[j].id => i = j
  /\ \A i \in DOMAIN presets : presets[i].queries # NoQueries /\ \A f \in Fields : presets[i].queries[f] # "bad"

=============================================================================

----------------------------- MODULE DataProofs -----------------------------
(***************************************************************************)
(* Theorems about the frontend's synchronous components: the filter bar,   *)
(* the selection, the environments, the settings, the connections, the     *)
(* scrolled list, the palette, the plugins and what is derived from the    *)
(* timeline, for any sessions, URLs, texts, contents, sizes and limits.    *)
(* Each component is proved about by itself; a step of MCStores is a step  *)
(* of each of them or leaves it alone.                                     *)
(***************************************************************************)
EXTENDS MCStores, ArrangementProofs

----------------------------------------------------------------------------
(* Lists *)

Members(list) == {list[i] : i \in DOMAIN list}

LEMMA MembersFacts ==
  ASSUME NEW S, NEW list \in Seq(S)
  PROVE  Members(list) \subseteq S
BY ElementOfSeq, LenProperties DEF Members

LEMMA KeptMembers ==
  ASSUME NEW S, NEW list \in Seq(S), NEW kept, kept \subseteq DOMAIN list
  PROVE  Members(Kept(list, kept)) = {list[i] : i \in kept}
<1> DEFINE left == Kept(list, kept)
<1>1. left \in Seq(S) /\ IsFiltering(left, list, kept)
  BY KeptFacts
<1> HIDE DEF left
<1>2. DOMAIN left = 1 .. Len(left)
  BY <1>1, LenProperties
<1>3. PICK o \in [1 .. Len(left) -> kept] :
        /\ \A k \in 1 .. Len(left) : left[k] = list[o[k]]
        /\ \A i \in kept : \E k \in 1 .. Len(left) : o[k] = i
  BY <1>1 DEF IsFiltering
<1>4. \A i \in kept : \E k \in 1 .. Len(left) : list[i] = left[k]
  BY <1>3
<1> DEFINE places == 1 .. Len(left)
<1>5. Members(left) = {list[i] : i \in kept}
  <2>1. DOMAIN left = places /\ Members(left) = {left[k] : k \in places}
    BY <1>2 DEF Members
  <2>2. /\ \A k \in places : o[k] \in kept /\ left[k] = list[o[k]]
        /\ \A i \in kept : \E k \in places : list[i] = left[k]
    BY <1>3, <1>4
  <2> HIDE DEF places
  <2> QED
    BY <2>1, <2>2
<1> QED
  BY <1>5 DEF left

(***************************************************************************)
(* The newest n of a batch, oldest first, and a list, newest first.        *)
(***************************************************************************)
LEMMA MergedFacts ==
  ASSUME NEW S, NEW new \in Seq(S), NEW list \in Seq(S), NEW n \in Nat
  PROVE  LET all == Reverse(new) \o list
             merged == SubSeq(all, 1, IF Len(all) < n THEN Len(all) ELSE n)
         IN  /\ merged \in Seq(S) /\ Len(merged) <= n
             /\ Members(merged) \subseteq Members(new) \cup Members(list)
<1> DEFINE back == Reverse(new)
           all == back \o list
           m == IF Len(all) < n THEN Len(all) ELSE n
           merged == SubSeq(all, 1, m)
<1>1. /\ Len(new) \in Nat /\ DOMAIN new = 1 .. Len(new)
      /\ \A i \in 1 .. Len(new) : new[i] \in S
  BY LenProperties, ElementOfSeq
<1>2. /\ Len(list) \in Nat /\ DOMAIN list = 1 .. Len(list)
      /\ \A i \in 1 .. Len(list) : list[i] \in S
  BY LenProperties, ElementOfSeq
<1>3. /\ back \in Seq(S) /\ Len(back) = Len(new)
      /\ \A i \in 1 .. Len(new) : back[i] \in Members(new)
  <2>1. back = [i \in 1 .. Len(new) |-> new[(Len(new) - i) + 1]]
    BY DEF Reverse
  <2> HIDE DEF back
  <2>2. \A i \in 1 .. Len(new) : (Len(new) - i) + 1 \in 1 .. Len(new)
    BY <1>1
  <2>3. \A i \in 1 .. Len(new) : back[i] \in S /\ back[i] \in Members(new)
    BY <1>1, <2>1, <2>2 DEF Members
  <2>4. back \in [1 .. Len(new) -> S]
    BY <2>1, <2>3
  <2> QED
    BY <1>1, <2>3, <2>4, SeqDef, LenProperties
<1> HIDE DEF back
<1>4. /\ all \in Seq(S) /\ Len(all) = Len(new) + Len(list)
      /\ \A i \in 1 .. Len(all) : all[i] \in Members(new) \cup Members(list)
  <2>1. /\ all \in Seq(S) /\ Len(all) = Len(back) + Len(list)
        /\ \A i \in 1 .. Len(back) + Len(list) :
             all[i] = IF i <= Len(back) THEN back[i] ELSE list[i - Len(back)]
    <3>1. back \in Seq(S)
      BY <1>3
    <3> QED
      BY <3>1, ConcatProperties
  <2> HIDE DEF all
  <2>2. \A i \in 1 .. Len(list) : list[i] \in Members(list)
    BY <1>2 DEF Members
  <2> DEFINE a == Len(new)
             b == Len(list)
  <2>3. a \in Nat /\ b \in Nat /\ Len(back) = a /\ Len(all) = a + b
    BY <1>1, <1>2, <1>3, <2>1
  <2>4. \A i \in 1 .. a + b : all[i] = IF i <= a THEN back[i] ELSE list[i - a]
    BY <1>3, <2>1
  <2>5. /\ \A i \in 1 .. a : back[i] \in Members(new)
        /\ \A i \in 1 .. b : list[i] \in Members(list)
    BY <1>3, <2>2
  <2> HIDE DEF a, b
  <2>6. \A i \in 1 .. a + b : all[i] \in Members(new) \cup Members(list)
    <3> SUFFICES ASSUME NEW i \in 1 .. a + b PROVE all[i] \in Members(new) \cup Members(list)
      OBVIOUS
    <3>1. CASE i <= a
      BY <2>3, <2>4, <2>5, <3>1
    <3>2. CASE ~(i <= a)
      <4>1. i - a \in 1 .. b
        BY <2>3, <3>2
      <4> QED
        BY <2>3, <2>4, <2>5, <3>2, <4>1
    <3> QED
      BY <3>1, <3>2
  <2> QED
    BY <2>1, <2>3, <2>6 DEF a, b
<1> HIDE DEF all
<1>5. m \in Nat /\ m <= n /\ m <= Len(all) /\ Len(all) \in Nat
  BY <1>1, <1>2, <1>4
<1> HIDE DEF m
<1>6. \A i \in 1 .. m : all[i] \in S
  BY <1>4, <1>5, ElementOfSeq
<1>7. merged \in Seq(S) /\ Len(merged) = m /\ \A i \in 1 .. m : merged[i] = all[i]
  BY <1>4, <1>5, <1>6, SubSeqProperties
<1> HIDE DEF merged
<1>8. DOMAIN merged = 1 .. m
  BY <1>7, LenProperties
<1>9. Members(merged) \subseteq Members(new) \cup Members(list)
  <2>1. \A i \in 1 .. m : i \in 1 .. Len(all) /\ merged[i] = all[i]
    BY <1>5, <1>7
  <2>2. \A i \in 1 .. Len(all) : all[i] \in Members(new) \cup Members(list)
    BY <1>4
  <2>3. Members(merged) = {merged[i] : i \in 1 .. m}
    BY <1>8 DEF Members
  <2> QED
    BY <2>1, <2>2, <2>3
<1> QED
  BY <1>5, <1>7, <1>9 DEF merged, m, all, back

----------------------------------------------------------------------------
(* The filter bar *)

QueryTexts == {""} \cup UNION {Queries[field] : field \in Fields}

FilterPreset == [id : Nat, queries : [Fields -> QueryTexts], favorite : BOOLEAN, updated : Nat]

(***************************************************************************)
(* Drafts, filter and the queries of every preset answer for every field.  *)
(* Without the presets' part, applying one could leave a draft undefined.  *)
(***************************************************************************)
BarTypeOK ==
  /\ drafts \in [Fields -> QueryTexts]
  /\ filter \in [Fields -> QueryTexts]
  /\ saves \in Nat
  /\ presets \in Seq(FilterPreset)

BarInv == BarTypeOK /\ DraftsAreFresh

----------------------------------------------------------------------------

LEMMA FieldsAreThree == Fields = {"event", "search", "smart"}
BY DEF Fields, Queries

LEMMA NoQueriesAreQueries == NoQueries \in [Fields -> QueryTexts]
<1>1. "" \in QueryTexts
  BY DEF QueryTexts
<1> QED
  BY <1>1 DEF NoQueries

LEMMA BarInitHolds == Init => BarInv
<1> SUFFICES ASSUME Init PROVE BarInv
  OBVIOUS
<1>1. BarTypeOK
  BY NoQueriesAreQueries, EmptySeq DEF Init, BarTypeOK
<1>2. DraftsAreFresh
  BY DEF Init, DraftsAreFresh
<1> QED
  BY <1>1, <1>2 DEF BarInv

LEMMA BarTypeKeeps ==
  ASSUME BarInv, NEW field \in Fields, Type(field)
  PROVE  BarInv'
<1>1. PICK text \in Queries[field] : drafts' = [drafts EXCEPT ![field] = text]
  BY DEF Type
<1>2. text \in QueryTexts
  BY DEF QueryTexts
<1>3. BarTypeOK'
  BY <1>1, <1>2 DEF BarInv, BarTypeOK, Type
<1>4. DraftsAreFresh'
  BY <1>1 DEF BarInv, BarTypeOK, DraftsAreFresh, Type
<1> QED
  BY <1>3, <1>4 DEF BarInv

(***************************************************************************)
(* A timer settles its own fields, and touches nothing the other one waits *)
(* for.                                                                    *)
(***************************************************************************)
LEMMA DebouncedKeeps ==
  ASSUME BarInv, NEW timer \in armed, Debounced(timer)
  PROVE  BarInv'
<1> DEFINE new == [field \in Fields |-> IF TimerOf(field) = timer THEN drafts[field] ELSE filter[field]]
<1>1. /\ filter' = new /\ armed' = armed \ {timer} /\ typed' = typed \ Changed(new)
      /\ UNCHANGED <<drafts, presets, saves>>
  BY DEF Debounced
<1>2. BarTypeOK'
  BY <1>1 DEF BarInv, BarTypeOK
<1>3. ASSUME NEW field \in Fields, drafts'[field] # filter'[field]
      PROVE  field \in typed' /\ TimerOf(field) \in armed'
  <2>1. TimerOf(field) # timer /\ filter'[field] = filter[field] /\ drafts[field] # filter[field]
    BY <1>1, <1>3 DEF BarInv, BarTypeOK
  <2>2. field \notin Changed(new)
    BY <2>1 DEF Changed
  <2> HIDE DEF new
  <2> QED
    BY <1>1, <2>1, <2>2 DEF BarInv, DraftsAreFresh
<1>4. DraftsAreFresh'
  BY <1>3 DEF DraftsAreFresh
<1> QED
  BY <1>2, <1>4 DEF BarInv

LEMMA ResetKeeps == BarInv /\ ResetFilters => BarInv'
<1> SUFFICES ASSUME BarInv, ResetFilters PROVE BarInv'
  OBVIOUS
<1>1. /\ filter' = NoQueries
      /\ drafts' = [field \in Fields |-> IF field \in Changed(NoQueries) THEN NoQueries[field] ELSE drafts[field]]
      /\ armed \subseteq armed'
      /\ typed' = typed \ Changed(NoQueries)
      /\ UNCHANGED <<presets, saves>>
  BY DEF ResetFilters, FilterBecomes
<1>2. BarTypeOK'
  BY <1>1, NoQueriesAreQueries DEF BarInv, BarTypeOK
<1>3. ASSUME NEW field \in Fields, drafts'[field] # filter'[field]
      PROVE  field \in typed' /\ TimerOf(field) \in armed'
  <2>1. field \notin Changed(NoQueries) /\ drafts[field] # NoQueries[field]
    BY <1>1, <1>3
  <2>2. filter[field] = NoQueries[field]
    BY <2>1 DEF Changed
  <2> QED
    BY <1>1, <2>1, <2>2 DEF BarInv, DraftsAreFresh
<1>4. DraftsAreFresh'
  BY <1>3 DEF DraftsAreFresh
<1> QED
  BY <1>2, <1>4 DEF BarInv

(***************************************************************************)
(* Presets come and go, but each holds queries.                            *)
(***************************************************************************)
LEMMA SaveKeeps == BarInv /\ SaveFilterPreset => BarInv'
<1> SUFFICES ASSUME BarInv, SaveFilterPreset PROVE BarInv'
  OBVIOUS
<1> DEFINE preset == [id |-> saves + 1, queries |-> drafts, favorite |-> FALSE, updated |-> saves + 1]
           all == <<preset>> \o presets
           kept == IF Len(all) > PresetLimit THEN PresetLimit ELSE Len(all)
<1>1. preset \in FilterPreset
  BY DEF BarInv, BarTypeOK, FilterPreset
<1>2. all \in Seq(FilterPreset)
  <2> HIDE DEF preset
  <2> QED
    BY <1>1, ConcatProperties DEF BarInv, BarTypeOK
<1>3. presets' = SubSeq(all, 1, kept) /\ saves' = saves + 1 /\ UNCHANGED <<drafts, filter, armed, typed>>
  BY DEF SaveFilterPreset
<1>4. presets' \in Seq(FilterPreset)
  <2> HIDE DEF all
  <2>1. Len(all) \in Nat /\ kept \in Nat /\ kept <= Len(all)
    BY <1>2, LenProperties, PresetAssumption
  <2> HIDE DEF kept
  <2>2. \A i \in 1 .. kept : all[i] \in FilterPreset
    BY <1>2, <2>1, ElementOfSeq
  <2> QED
    BY <1>2, <1>3, <2>1, <2>2, SubSeqProperties
<1> HIDE DEF all, kept, preset
<1>5. BarTypeOK'
  BY <1>3, <1>4 DEF BarInv, BarTypeOK
<1>6. DraftsAreFresh'
  BY <1>3 DEF BarInv, DraftsAreFresh
<1> QED
  BY <1>5, <1>6 DEF BarInv

LEMMA ApplyKeeps == BarInv /\ ApplyFilterPreset => BarInv'
<1> SUFFICES ASSUME BarInv, ApplyFilterPreset PROVE BarInv'
  OBVIOUS
<1>1. PICK i \in DOMAIN presets : drafts' = presets[i].queries /\ filter' = presets[i].queries
  BY DEF ApplyFilterPreset, Shown
<1>2. presets[i] \in FilterPreset
  BY <1>1, ElementOfSeq DEF BarInv, BarTypeOK
<1>3. BarTypeOK'
  BY <1>1, <1>2 DEF ApplyFilterPreset, BarInv, BarTypeOK, FilterPreset
<1>4. DraftsAreFresh'
  BY <1>1 DEF DraftsAreFresh
<1> QED
  BY <1>3, <1>4 DEF BarInv

LEMMA FavoriteKeeps == BarInv /\ ToggleFilterPresetFavorite => BarInv'
<1> SUFFICES ASSUME BarInv, ToggleFilterPresetFavorite PROVE BarInv'
  OBVIOUS
<1>1. PICK i \in DOMAIN presets : presets' = [presets EXCEPT ![i].favorite = ~@, ![i].updated = saves]
  BY DEF ToggleFilterPresetFavorite, Shown
<1>2. \A j \in DOMAIN presets : presets[j] \in FilterPreset
  BY ElementOfSeq DEF BarInv, BarTypeOK
<1>3. presets'[i] \in FilterPreset
  BY <1>1, <1>2 DEF BarInv, BarTypeOK, FilterPreset
<1>4. presets' \in Seq(FilterPreset)
  <2>1. presets' = [presets EXCEPT ![i] = presets'[i]] /\ i \in 1 .. Len(presets)
    BY <1>1, LenProperties DEF BarInv, BarTypeOK
  <2> QED
    BY <1>3, <2>1, ExceptSeq DEF BarInv, BarTypeOK
<1>5. UNCHANGED <<drafts, filter, armed, typed, saves>>
  BY DEF ToggleFilterPresetFavorite
<1> QED
  BY <1>4, <1>5 DEF BarInv, BarTypeOK, DraftsAreFresh

LEMMA DeleteKeeps == BarInv /\ DeleteFilterPreset => BarInv'
<1> SUFFICES ASSUME BarInv, DeleteFilterPreset PROVE BarInv'
  OBVIOUS
<1>1. PICK i \in DOMAIN presets : presets' = SubSeq(presets, 1, i - 1) \o SubSeq(presets, i + 1, Len(presets))
  BY DEF DeleteFilterPreset, Shown, RemoveAt
<1>2. Len(presets) \in Nat /\ i \in 1 .. Len(presets) /\ \A j \in 1 .. Len(presets) : presets[j] \in FilterPreset
  BY <1>1, LenProperties, ElementOfSeq DEF BarInv, BarTypeOK
<1>3. SubSeq(presets, 1, i - 1) \in Seq(FilterPreset)
  BY <1>2, SubSeqProperties DEF BarInv, BarTypeOK
<1>4. SubSeq(presets, i + 1, Len(presets)) \in Seq(FilterPreset)
  BY <1>2, SubSeqProperties DEF BarInv, BarTypeOK
<1>5. presets' \in Seq(FilterPreset)
  BY <1>1, <1>3, <1>4, ConcatProperties
<1>6. UNCHANGED <<drafts, filter, armed, typed, saves>>
  BY DEF DeleteFilterPreset
<1> QED
  BY <1>5, <1>6 DEF BarInv, BarTypeOK, DraftsAreFresh

LEMMA BarNextKeeps == BarInv /\ [Next]_barVars => BarInv'
<1> SUFFICES ASSUME BarInv, [Next]_barVars PROVE BarInv'
  OBVIOUS
<1>1. ASSUME NEW field \in Fields, Type(field) PROVE BarInv'
  BY <1>1, BarTypeKeeps
<1>2. ASSUME NEW timer \in armed, Debounced(timer) PROVE BarInv'
  BY <1>2, DebouncedKeeps
<1>3. CASE UNCHANGED barVars
  BY <1>3 DEF barVars, BarInv, BarTypeOK, DraftsAreFresh
<1> QED
  BY <1>1, <1>2, <1>3, ResetKeeps, SaveKeeps, ApplyKeeps, FavoriteKeeps, DeleteKeeps DEF Next

----------------------------------------------------------------------------

(***************************************************************************)
(* A draft that differs from the filter is fresh and its timer is pending, *)
(* whatever presets, resets and timers came in between: an old draft is    *)
(* never written over a newer filter (packet-timeline.tsx).                *)
(***************************************************************************)
THEOREM DraftsCorrect == BarSpec => []DraftsAreFresh
<1>1. BarInv => DraftsAreFresh
  BY DEF BarInv
<1> QED
  BY <1>1, BarInitHolds, BarNextKeeps, PTL DEF BarSpec

----------------------------------------------------------------------------
(* The presets *)

(***************************************************************************)
(* Ids are given out in order, so the next is none of those listed; and a  *)
(* preset holds what may be typed, for it becomes the drafts when applied. *)
(***************************************************************************)
UsablePreset(preset, last) ==
  /\ preset.id <= last
  /\ \A field \in Fields : preset.queries[field] \in Queries[field] /\ preset.queries[field] # "bad"
  /\ preset.queries # NoQueries

UsablePresets ==
  /\ Len(presets) <= PresetLimit
  /\ \A i \in DOMAIN presets : UsablePreset(presets[i], saves)
  /\ \A i, j \in DOMAIN presets : presets[i].id = presets[j].id => i = j

PresetInv == BarInv /\ TypeOK /\ UsablePresets

LEMMA QueriesMayBeEmpty == \A field \in Fields : "" \in Queries[field] /\ NoQueries[field] = ""
<1>1. "" \in Event /\ "" \in Search /\ "" \in Smart
  BY QueryAssumption
<1>2. "" \in Queries["event"] /\ "" \in Queries["search"] /\ "" \in Queries["smart"]
  BY <1>1 DEF Queries
<1> QED
  BY <1>2, FieldsAreThree DEF NoQueries

LEMMA TimersAreTwo == \A field \in Fields : TimerOf(field) \in {"search", "others"}
BY DEF TimerOf

LEMMA PresetFields ==
  ASSUME PresetInv
  PROVE  /\ Len(presets) \in Nat /\ DOMAIN presets = 1 .. Len(presets)
         /\ \A i \in DOMAIN presets : presets[i] \in FilterPreset
BY ElementOfSeq, LenProperties DEF PresetInv, BarInv, BarTypeOK

LEMMA PresetInitHolds == Init => PresetInv
<1> SUFFICES ASSUME Init PROVE PresetInv
  OBVIOUS
<1>1. /\ drafts = NoQueries /\ filter = NoQueries /\ armed = {} /\ typed = {} /\ presets = <<>>
  BY DEF Init
<1>2. TypeOK
  <2>1. \A field \in Fields : drafts[field] = "" /\ filter[field] = "" /\ "" \in Queries[field]
    BY <1>1, QueriesMayBeEmpty
  <2>2. Len(presets) <= PresetLimit
    BY <1>1, PresetAssumption
  <2> QED
    BY <1>1, <2>1, <2>2 DEF TypeOK
<1>3. UsablePresets
  BY <1>1, PresetAssumption DEF UsablePresets
<1> QED
  BY <1>2, <1>3, BarInitHolds DEF PresetInv

(***************************************************************************)
(* What the drafts and the filter become are queries that could be typed.  *)
(***************************************************************************)
LEMMA QueriesKeepTypes ==
  ASSUME PresetInv, [Next]_barVars, UNCHANGED <<presets, saves>>,
         \A field \in Fields : {drafts'[field], filter'[field]} \subseteq Queries[field],
         armed' \subseteq {"search", "others"}, typed' \subseteq Fields
  PROVE  PresetInv'
<1>1. BarInv'
  BY BarNextKeeps DEF PresetInv
<1>2. TypeOK'
  BY DEF PresetInv, TypeOK
<1>3. UsablePresets'
  BY DEF PresetInv, UsablePresets, UsablePreset
<1> QED
  BY <1>1, <1>2, <1>3 DEF PresetInv

LEMMA TypingKeepsTypes ==
  ASSUME PresetInv, NEW field \in Fields, Type(field)
  PROVE  PresetInv'
<1>1. PICK text \in Queries[field] :
        /\ drafts' = [drafts EXCEPT ![field] = text] /\ armed' = armed \cup {TimerOf(field)}
        /\ typed' = typed \cup {field} /\ UNCHANGED <<filter, presets, saves>>
  BY DEF Type
<1>2. drafts \in [Fields -> QueryTexts] /\ armed \subseteq {"search", "others"} /\ typed \subseteq Fields
      /\ \A f \in Fields : drafts[f] \in Queries[f] /\ filter[f] \in Queries[f]
  BY DEF PresetInv, BarInv, BarTypeOK, TypeOK
<1>3. \A f \in Fields : drafts'[f] \in Queries[f] /\ filter'[f] \in Queries[f]
  BY <1>1, <1>2
<1>4. armed' \subseteq {"search", "others"} /\ typed' \subseteq Fields
  BY <1>1, <1>2, TimersAreTwo
<1>5. Next
  BY DEF Next
<1> QED
  BY <1>1, <1>3, <1>4, <1>5, QueriesKeepTypes

LEMMA DebouncedKeepsTypes ==
  ASSUME PresetInv, NEW timer \in armed, Debounced(timer)
  PROVE  PresetInv'
<1>1. /\ filter' = [field \in Fields |-> IF TimerOf(field) = timer THEN drafts[field] ELSE filter[field]]
      /\ armed' \subseteq armed /\ typed' \subseteq typed /\ UNCHANGED <<drafts, presets, saves>>
  BY DEF Debounced
<1>2. /\ armed \subseteq {"search", "others"} /\ typed \subseteq Fields
      /\ \A f \in Fields : drafts[f] \in Queries[f] /\ filter[f] \in Queries[f]
  BY DEF PresetInv, TypeOK
<1>3. \A f \in Fields : drafts'[f] \in Queries[f] /\ filter'[f] \in Queries[f]
  BY <1>1, <1>2
<1>5. Next
  BY DEF Next
<1> QED
  BY <1>1, <1>2, <1>3, <1>5, QueriesKeepTypes

LEMMA ResetKeepsTypes == PresetInv /\ ResetFilters => PresetInv'
<1> SUFFICES ASSUME PresetInv, ResetFilters PROVE PresetInv'
  OBVIOUS
<1>1. /\ filter' = NoQueries
      /\ drafts' = [field \in Fields |-> IF field \in Changed(NoQueries) THEN NoQueries[field] ELSE drafts[field]]
      /\ armed' = armed \cup {TimerOf(field) : field \in Changed(NoQueries)}
      /\ typed' \subseteq typed /\ UNCHANGED <<presets, saves>>
  BY DEF ResetFilters, FilterBecomes
<1>2. /\ armed \subseteq {"search", "others"} /\ typed \subseteq Fields
      /\ \A f \in Fields : drafts[f] \in Queries[f] /\ filter[f] \in Queries[f]
  BY DEF PresetInv, TypeOK
<1>3. \A f \in Fields : drafts'[f] \in Queries[f] /\ filter'[f] \in Queries[f]
  BY <1>1, <1>2, QueriesMayBeEmpty
<1>4. armed' \subseteq {"search", "others"}
  BY <1>1, <1>2, TimersAreTwo DEF Changed
<1>5. Next
  BY DEF Next
<1> QED
  BY <1>1, <1>2, <1>3, <1>4, <1>5, QueriesKeepTypes

LEMMA ApplyKeepsTypes == PresetInv /\ ApplyFilterPreset => PresetInv'
<1> SUFFICES ASSUME PresetInv, ApplyFilterPreset PROVE PresetInv'
  OBVIOUS
<1>1. PICK i \in DOMAIN presets :
        /\ drafts' = presets[i].queries /\ filter' = presets[i].queries
        /\ armed' = armed \cup {TimerOf(field) : field \in {f \in Fields : drafts[f] # presets[i].queries[f]}}
  BY DEF ApplyFilterPreset, Shown
<1>2. typed' = {} /\ UNCHANGED <<presets, saves>>
  BY DEF ApplyFilterPreset
<1>3. \A f \in Fields : drafts'[f] \in Queries[f] /\ filter'[f] \in Queries[f]
  BY <1>1 DEF PresetInv, UsablePresets, UsablePreset
<1>4. armed' \subseteq {"search", "others"}
  BY <1>1, TimersAreTwo DEF PresetInv, TypeOK
<1>5. Next
  BY DEF Next
<1> QED
  BY <1>2, <1>3, <1>4, <1>5, QueriesKeepTypes

(***************************************************************************)
(* The places of what is left when a preset is dropped or put in front.    *)
(***************************************************************************)
LEMMA PlacesKeepPresets ==
  ASSUME PresetInv, [Next]_barVars, UNCHANGED <<drafts, filter, armed, typed>>, saves <= saves', saves' \in Nat,
         NEW places \in [1 .. Len(presets') -> DOMAIN presets],
         Len(presets') \in Nat, Len(presets') <= PresetLimit, DOMAIN presets' = 1 .. Len(presets'),
         \A i \in 1 .. Len(presets') :
           presets'[i].id = presets[places[i]].id /\ presets'[i].queries = presets[places[i]].queries,
         \A i, j \in 1 .. Len(presets') : places[i] = places[j] => i = j
  PROVE  PresetInv'
<1>1. BarInv'
  BY BarNextKeeps DEF PresetInv
<1>2. TypeOK'
  BY DEF PresetInv, TypeOK
<1>3. \A i \in DOMAIN presets : presets[i].id \in Nat /\ UsablePreset(presets[i], saves)
  BY PresetFields DEF PresetInv, UsablePresets, FilterPreset
<1>4. saves \in Nat
  BY DEF PresetInv, BarInv, BarTypeOK
<1>5. \A i \in DOMAIN presets' : UsablePreset(presets'[i], saves')
  BY <1>3, <1>4 DEF UsablePreset
<1>6. \A i, j \in DOMAIN presets' : presets'[i].id = presets'[j].id => i = j
  BY DEF PresetInv, UsablePresets
<1>7. UsablePresets'
  BY <1>5, <1>6 DEF UsablePresets
<1> QED
  BY <1>1, <1>2, <1>7 DEF PresetInv

LEMMA FavoriteKeepsPresets == PresetInv /\ ToggleFilterPresetFavorite => PresetInv'
<1> SUFFICES ASSUME PresetInv, ToggleFilterPresetFavorite PROVE PresetInv'
  OBVIOUS
<1>1. PICK i \in DOMAIN presets : presets' = [presets EXCEPT ![i].favorite = ~@, ![i].updated = saves]
  BY DEF ToggleFilterPresetFavorite, Shown
<1> DEFINE places == [k \in 1 .. Len(presets) |-> k]
<1>2. DOMAIN presets' = 1 .. Len(presets) /\ Len(presets') = Len(presets)
  BY <1>1, PresetFields
<1>3. \A k \in 1 .. Len(presets) : presets'[k].id = presets[k].id /\ presets'[k].queries = presets[k].queries
  BY <1>1, PresetFields DEF FilterPreset
<1>4. UNCHANGED <<drafts, filter, armed, typed, saves>> /\ Next
  BY DEF ToggleFilterPresetFavorite, Next
<1>5. saves \in Nat /\ Len(presets) <= PresetLimit
  BY DEF PresetInv, BarInv, BarTypeOK, UsablePresets
<1>6. places \in [1 .. Len(presets) -> DOMAIN presets]
  BY PresetFields
<1>7. \A k \in 1 .. Len(presets) : places[k] = k
  OBVIOUS
<1> HIDE DEF places
<1> QED
  BY <1>2, <1>3, <1>4, <1>5, <1>6, <1>7, PresetFields, PlacesKeepPresets

LEMMA DeleteKeepsPresets == PresetInv /\ DeleteFilterPreset => PresetInv'
<1> SUFFICES ASSUME PresetInv, DeleteFilterPreset PROVE PresetInv'
  OBVIOUS
<1>1. PICK i \in DOMAIN presets : presets' = SubSeq(presets, 1, i - 1) \o SubSeq(presets, i + 1, Len(presets))
  BY DEF DeleteFilterPreset, Shown, RemoveAt
<1> DEFINE n == Len(presets)
           before == SubSeq(presets, 1, i - 1)
           after == SubSeq(presets, i + 1, n)
           places == [k \in 1 .. n - 1 |-> IF k < i THEN k ELSE k + 1]
<1>2. n \in Nat /\ i \in 1 .. n /\ DOMAIN presets = 1 .. n /\ \A j \in 1 .. n : presets[j] \in FilterPreset
  BY PresetFields
<1>3. presets \in Seq(FilterPreset)
  BY DEF PresetInv, BarInv, BarTypeOK
<1>4. before \in Seq(FilterPreset) /\ Len(before) = i - 1 /\ \A k \in 1 .. i - 1 : before[k] = presets[k]
  BY <1>2, <1>3, SubSeqProperties
<1>5. after \in Seq(FilterPreset) /\ Len(after) = n - i /\ \A k \in 1 .. n - i : after[k] = presets[i + k]
  BY <1>2, <1>3, SubSeqProperties
<1> HIDE DEF before, after, n
<1>6. /\ Len(presets') = n - 1 /\ DOMAIN presets' = 1 .. n - 1
      /\ \A k \in 1 .. n - 1 : presets'[k] = IF k < i THEN before[k] ELSE after[k - (i - 1)]
  <2>1. presets' = before \o after
    BY <1>1 DEF before, after, n
  <2>2. presets' \in Seq(FilterPreset) /\ Len(presets') = n - 1
    <3>1. presets' \in Seq(FilterPreset) /\ Len(presets') = Len(before) + Len(after)
      BY <1>4, <1>5, <2>1, ConcatProperties
    <3> QED
      BY <1>2, <1>4, <1>5, <3>1
  <2>3. \A k \in 1 .. n - 1 : presets'[k] = IF k <= i - 1 THEN before[k] ELSE after[k - (i - 1)]
    BY <1>2, <1>4, <1>5, <2>1, ConcatProperties
  <2> QED
    BY <1>2, <2>2, <2>3, LenProperties
<1>7. ASSUME NEW k \in 1 .. n - 1
      PROVE  presets'[k] = presets[IF k < i THEN k ELSE k + 1]
  <2>1. CASE k < i
    <3>1. presets'[k] = before[k] /\ k \in 1 .. i - 1
      BY <1>2, <1>6, <2>1
    <3> QED
      BY <1>4, <2>1, <3>1
  <2>2. CASE ~(k < i)
    <3>1. presets'[k] = after[k - (i - 1)]
      BY <1>6, <2>2
    <3>2. k - (i - 1) \in 1 .. n - i /\ i + (k - (i - 1)) = k + 1
      BY <1>2, <2>2
    <3>3. after[k - (i - 1)] = presets[i + (k - (i - 1))]
      BY <1>5, <3>2
    <3> QED
      BY <2>2, <3>1, <3>2, <3>3
  <2> QED
    BY <2>1, <2>2
<1>8. UNCHANGED <<drafts, filter, armed, typed, saves>> /\ Next
  BY DEF DeleteFilterPreset, Next
<1>9. saves \in Nat /\ n <= PresetLimit
  BY DEF PresetInv, BarInv, BarTypeOK, UsablePresets, n
<1>10. /\ places \in [1 .. n - 1 -> DOMAIN presets] /\ \A k \in 1 .. n - 1 : presets'[k] = presets[places[k]]
       /\ \A k, l \in 1 .. n - 1 : places[k] = places[l] => k = l
  BY <1>2, <1>7
<1>11. n - 1 \in Nat /\ n - 1 <= PresetLimit
  BY <1>2, <1>9, PresetAssumption
<1> HIDE DEF places
<1> QED
  BY <1>6, <1>8, <1>9, <1>10, <1>11, PlacesKeepPresets

(***************************************************************************)
(* What is saved differs from nothing and compiles, and its id is new.     *)
(***************************************************************************)
LEMMA SaveKeepsPresets == PresetInv /\ SaveFilterPreset => PresetInv'
<1> SUFFICES ASSUME PresetInv, SaveFilterPreset PROVE PresetInv'
  OBVIOUS
<1> DEFINE preset == [id |-> saves + 1, queries |-> drafts, favorite |-> FALSE, updated |-> saves + 1]
           all == <<preset>> \o presets
           n == Len(presets)
           kept == IF Len(all) > PresetLimit THEN PresetLimit ELSE Len(all)
<1>1. /\ presets' = SubSeq(all, 1, kept) /\ saves' = saves + 1 /\ UNCHANGED <<drafts, filter, armed, typed>>
      /\ HasActiveFilters /\ ValidationIssues = {} /\ Next
  BY DEF SaveFilterPreset, Next
<1>2. /\ n \in Nat /\ DOMAIN presets = 1 .. n /\ \A j \in 1 .. n : presets[j] \in FilterPreset
      /\ presets \in Seq(FilterPreset) /\ saves \in Nat
  BY PresetFields DEF PresetInv, BarInv, BarTypeOK
<1>3. preset \in FilterPreset
  BY DEF PresetInv, BarInv, BarTypeOK, FilterPreset
<1>4. preset.id = saves + 1 /\ preset.queries = drafts
  OBVIOUS
<1> HIDE DEF preset, n
<1>5. /\ all \in Seq(FilterPreset) /\ Len(all) = n + 1 /\ all[1] = preset
      /\ \A k \in 2 .. n + 1 : all[k] = presets[k - 1]
  <2>1. <<preset>> \in Seq(FilterPreset) /\ Len(<<preset>>) = 1 /\ <<preset>>[1] = preset
    BY <1>3
  <2> QED
    BY <1>2, <2>1, ConcatProperties DEF n
<1> HIDE DEF all
<1>6. kept \in Nat /\ kept <= PresetLimit /\ kept <= n + 1
  BY <1>2, <1>5, PresetAssumption
<1> HIDE DEF kept
<1>7. Len(presets') = kept /\ DOMAIN presets' = 1 .. kept /\ \A k \in 1 .. kept : presets'[k] = all[k]
  <2>1. \A k \in 1 .. kept : all[k] \in FilterPreset
    BY <1>2, <1>5, <1>6, ElementOfSeq
  <2> QED
    BY <1>1, <1>5, <1>6, <2>1, SubSeqProperties, LenProperties
<1>8. \A k \in 1 .. kept : presets'[k] = IF k = 1 THEN preset ELSE presets[k - 1]
  BY <1>2, <1>5, <1>6, <1>7
<1>9. \A k \in 1 .. n : presets[k].id \in Nat /\ presets[k].id <= saves /\ UsablePreset(presets[k], saves)
  BY <1>2 DEF PresetInv, UsablePresets, UsablePreset, FilterPreset
<1>10. UsablePreset(preset, saves')
  <2>1. drafts # NoQueries /\ \A field \in Fields : drafts[field] \in Queries[field] /\ drafts[field] # "bad"
    BY <1>1 DEF HasActiveFilters, ValidationIssues, PresetInv, TypeOK
  <2> QED
    BY <1>1, <1>2, <1>4, <2>1 DEF UsablePreset
<1>11. \A k \in 1 .. n : UsablePreset(presets[k], saves')
  BY <1>1, <1>2, <1>9 DEF UsablePreset
<1>12. \A k \in 1 .. kept : UsablePreset(presets'[k], saves')
  BY <1>2, <1>6, <1>8, <1>10, <1>11
<1>13. \A k, l \in 1 .. n : presets[k].id = presets[l].id => k = l
  BY <1>2 DEF PresetInv, UsablePresets
<1>14. ASSUME NEW k \in 1 .. kept, NEW l \in 1 .. kept, presets'[k].id = presets'[l].id
       PROVE  k = l
  <2>1. \A m \in 1 .. kept : m # 1 => m - 1 \in 1 .. n /\ presets'[m] = presets[m - 1] /\ presets'[m].id < saves + 1
    BY <1>2, <1>6, <1>8, <1>9
  <2>2. k = 1 \/ l = 1 => k = l
    BY <1>2, <1>4, <1>8, <1>14, <2>1
  <2>3. k # 1 /\ l # 1 => k - 1 = l - 1
    BY <1>13, <1>14, <2>1
  <2> QED
    BY <1>6, <2>2, <2>3
<1>15. UsablePresets'
  BY <1>6, <1>7, <1>12, <1>14 DEF UsablePresets
<1>16. BarInv' /\ TypeOK'
  <2>1. BarInv'
    BY <1>1, BarNextKeeps DEF PresetInv
  <2>2. Len(presets') <= PresetLimit
    BY <1>6, <1>7
  <2> QED
    BY <1>1, <2>1, <2>2 DEF PresetInv, TypeOK
<1> QED
  BY <1>15, <1>16 DEF PresetInv

LEMMA PresetNextKeeps == PresetInv /\ [Next]_barVars => PresetInv'
<1> SUFFICES ASSUME PresetInv, [Next]_barVars PROVE PresetInv'
  OBVIOUS
<1>1. ASSUME NEW field \in Fields, Type(field) PROVE PresetInv'
  BY <1>1, TypingKeepsTypes
<1>2. ASSUME NEW timer \in armed, Debounced(timer) PROVE PresetInv'
  BY <1>2, DebouncedKeepsTypes
<1>3. CASE UNCHANGED barVars
  <2>1. BarInv'
    BY BarNextKeeps DEF PresetInv
  <2> QED
    BY <1>3, <2>1 DEF barVars, PresetInv, TypeOK, UsablePresets, UsablePreset
<1> QED
  BY <1>1, <1>2, <1>3, ResetKeepsTypes, ApplyKeepsTypes, SaveKeepsPresets, FavoriteKeepsPresets, DeleteKeepsPresets
     DEF Next

LEMMA PresetInvFacts == PresetInv => TypeOK /\ PresetsAreUsable
BY DEF PresetInv, UsablePresets, UsablePreset, PresetsAreUsable

LEMMA BarSteps == [StoresNext]_storesVars => [Next]_barVars
BY DEF StoresNext, StoresBut, storesVars, barVars

----------------------------------------------------------------------------
(* The selection *)

LEMMA SelectionKept == \A list, kept : Selection!Kept(list, kept) = Kept(list, kept)
<1>1. \A S : Selection!Cardinality(S) = Cardinality(S)
  BY DEF Selection!Cardinality, Cardinality
<1>2. \A S, R : Selection!Places(S, R) = Places(S, R)
  BY <1>1 DEF Selection!Places, Places
<1>3. \A S, R : Selection!Arranged(S, R) = Arranged(S, R)
  BY <1>1, <1>2 DEF Selection!Arranged, Arranged
<1> QED
  BY <1>1, <1>3 DEF Selection!Kept, Kept

Visible(p, s, hide) == (s = Nothing \/ p.s = s) /\ ~(hide /\ p.noise)

VisibleIds(ps, s, hide) == {p.id : p \in {q \in Members(ps) : Visible(q, s, hide)}}

LEMMA ShownFacts ==
  ASSUME NEW P, NEW ps \in Seq(P), NEW s, NEW hide
  PROVE  LET shown == Selection!Shown(ps, s, hide)
         IN  /\ shown \in Seq(P)
             /\ Selection!IdsOf(shown) = VisibleIds(ps, s, hide)
             /\ \A p \in Selection!ToSet(shown) : p \in Members(ps)
             /\ IF shown = <<>> THEN Selection!FirstId(shown) = Nothing
                ELSE Selection!FirstId(shown) \in Selection!IdsOf(shown)
<1> DEFINE shown == Selection!Shown(ps, s, hide)
           kept == {i \in DOMAIN ps : Visible(ps[i], s, hide)}
<1>1. shown = Kept(ps, kept)
  BY SelectionKept DEF Selection!Shown, Visible
<1>2. kept \subseteq DOMAIN ps
  OBVIOUS
<1>3. shown \in Seq(P) /\ Members(shown) = {ps[i] : i \in kept}
  <2> HIDE DEF kept, shown
  <2> QED
    BY <1>1, <1>2, KeptFacts, KeptMembers
<1>4. {ps[i] : i \in kept} = {q \in Members(ps) : Visible(q, s, hide)}
  BY DEF Members
<1> HIDE DEF kept, shown
<1>5. Selection!ToSet(shown) = Members(shown)
  BY DEF Selection!ToSet, Members
<1>6. Selection!IdsOf(shown) = VisibleIds(ps, s, hide)
  BY <1>3, <1>4, <1>5 DEF Selection!IdsOf, VisibleIds
<1>7. ASSUME shown # <<>>
      PROVE  Selection!FirstId(shown) \in Selection!IdsOf(shown)
  <2>1. 1 \in DOMAIN shown
    BY <1>3, <1>7, EmptySeq, LenProperties
  <2> QED
    BY <1>5, <1>7, <2>1 DEF Selection!FirstId, Selection!IdsOf, Members
<1>8. shown = <<>> => Selection!FirstId(shown) = Nothing
  BY DEF Selection!FirstId
<1>9. \A p \in Selection!ToSet(shown) : p \in Members(ps)
  BY <1>3, <1>4, <1>5
<1> QED
  BY <1>3, <1>6, <1>7, <1>8, <1>9 DEF shown

(***************************************************************************)
(* A packet has a number of its own, up to n.                              *)
(***************************************************************************)
Numbered(ps, n) ==
  /\ \A p \in ps : p.id <= n
  /\ \A p, q \in ps : p.id = q.id => p = q

DueOnce(timers) ==
  /\ timers \in Seq({"flush", "select"}) /\ Len(timers) <= 2
  /\ Len(timers) = 2 => timers[1] # timers[2]

Held == Members(timeline) \cup Members(batch)

(***************************************************************************)
(* A selected packet that goes out of sight must be another one than any   *)
(* packet that is to be seen: numbers are not given twice.                 *)
(***************************************************************************)
SelectionInv ==
  /\ Selection!TypeOK
  /\ Selection!SelectedIsShown
  /\ DueOnce(due)
  /\ Numbered(Held, arrived)

LEMMA SetFacts ==
  ASSUME NEW timers, DueOnce(timers), NEW timer \in {"flush", "select"}
  PROVE  DueOnce(Selection!Set(timer, timers))
<1>1. CASE Selection!Contains(timers, timer)
  BY <1>1 DEF Selection!Set
<1>2. CASE ~ Selection!Contains(timers, timer)
  <2> DEFINE new == Append(timers, timer)
  <2>1. \A i \in 1 .. Len(timers) : timers[i] # timer
    BY <1>2 DEF Selection!Contains
  <2>2. Len(timers) \in Nat /\ \A i \in 1 .. Len(timers) : timers[i] \in {"flush", "select"}
    BY LenProperties, ElementOfSeq DEF DueOnce
  <2>3. Len(timers) < 2
    <3>1. ASSUME Len(timers) = 2 PROVE FALSE
      <4>1. timers[1] # timers[2] /\ timers[1] # timer /\ timers[2] # timer
        BY <2>1, <3>1 DEF DueOnce
      <4> QED
        BY <2>2, <3>1, <4>1
    <3> DEFINE n == Len(timers)
    <3>2. n \in Nat /\ n <= 2 /\ n # 2
      BY <2>2, <3>1 DEF DueOnce
    <3> HIDE DEF n
    <3>3. n < 2
      BY <3>2
    <3> QED
      BY <3>3 DEF n
  <2>4. /\ new \in Seq({"flush", "select"}) /\ Len(new) = Len(timers) + 1
        /\ \A i \in 1 .. Len(timers) : new[i] = timers[i]
        /\ new[Len(timers) + 1] = timer
    BY AppendProperties DEF DueOnce
  <2> HIDE DEF new
  <2>5. DueOnce(new)
    BY <2>1, <2>2, <2>3, <2>4 DEF DueOnce
  <2> QED
    BY <1>2, <2>5 DEF Selection!Set, new
<1> QED
  BY <1>1, <1>2

LEMMA TailDue ==
  ASSUME NEW timers, DueOnce(timers), timers # <<>>
  PROVE  DueOnce(Tail(timers))
<1>1. Len(timers) \in Nat /\ Len(timers) <= 2 /\ timers \in Seq({"flush", "select"})
  BY LenProperties DEF DueOnce
<1>2. Tail(timers) \in Seq({"flush", "select"}) /\ Len(Tail(timers)) = Len(timers) - 1
  BY <1>1, HeadTailProperties
<1> QED
  BY <1>1, <1>2 DEF DueOnce

LEMMA KeptDue ==
  ASSUME NEW timers, DueOnce(timers), NEW kept, kept \subseteq DOMAIN timers
  PROVE  DueOnce(Kept(timers, kept))
<1> DEFINE left == Kept(timers, kept)
<1>1. /\ left \in Seq({"flush", "select"}) /\ Len(left) <= Len(timers)
      /\ IsFiltering(left, timers, kept)
  BY KeptFacts DEF DueOnce
<1> HIDE DEF left
<1>2. Len(timers) \in Nat /\ Len(timers) <= 2 /\ DOMAIN timers = 1 .. Len(timers) /\ Len(left) \in Nat
  BY <1>1, LenProperties DEF DueOnce
<1>3. ASSUME Len(left) = 2
      PROVE  left[1] # left[2]
  <2>1. PICK o \in [1 .. 2 -> kept] :
          /\ \A k \in 1 .. 2 : left[k] = timers[o[k]]
          /\ \A k, l \in 1 .. 2 : k < l => o[k] < o[l]
    BY <1>1, <1>3 DEF IsFiltering
  <2>2. Len(timers) = 2
    BY <1>1, <1>2, <1>3
  <2>3. o[1] \in 1 .. 2 /\ o[2] \in 1 .. 2 /\ o[1] < o[2]
    BY <1>2, <2>1, <2>2
  <2>4. o[1] = 1 /\ o[2] = 2
    BY <2>3
  <2> QED
    BY <2>1, <2>2, <2>4 DEF DueOnce
<1>4. DueOnce(left)
  BY <1>1, <1>2, <1>3 DEF DueOnce
<1> QED
  BY <1>4 DEF left

LEMMA SettleFacts ==
  ASSUME NEW id, NEW m, Selection!Settle(id, m), NEW P, timeline' \in Seq(P)
  PROVE  /\ Selection!SelectedIsShown'
         /\ selected' \in {id, Nothing} \cup {p.id : p \in Members(timeline')}
         /\ mode' \in {m, "follow", "manual"}
         /\ selected' = id \/ (id # Nothing /\ id \notin VisibleIds(timeline', session', hiding'))
<1> DEFINE shown == Selection!Shown(timeline', session', hiding')
           kept == id = Nothing \/ id \in Selection!IdsOf(shown)
<1>1. /\ Selection!IdsOf(shown) = VisibleIds(timeline', session', hiding')
      /\ IF shown = <<>> THEN Selection!FirstId(shown) = Nothing
         ELSE Selection!FirstId(shown) \in Selection!IdsOf(shown)
  BY ShownFacts
<1>2. /\ selected' = IF kept THEN id ELSE Selection!FirstId(shown)
      /\ mode' = IF kept THEN m ELSE Selection!ModeFor(Selection!FirstId(shown))
  BY DEF Selection!Settle
<1>3. Selection!ModeFor(Selection!FirstId(shown)) \in {"follow", "manual"}
  BY DEF Selection!ModeFor
<1>4. Selection!SelectedIsShown' <=> (selected' # Nothing => selected' \in Selection!IdsOf(shown))
  BY DEF Selection!SelectedIsShown
<1>5. VisibleIds(timeline', session', hiding') \subseteq {p.id : p \in Members(timeline')}
  BY DEF VisibleIds
<1> HIDE DEF shown
<1> QED
  BY <1>1, <1>2, <1>3, <1>4, <1>5

SelectionIds == 1 .. MaxArrivals

LEMMA SelectionStepKeeps ==
  ASSUME NEW id \in SelectionIds \cup {Nothing}, NEW m \in {"follow", "manual"},
         Selection!Settle(id, m),
         timeline' \in Seq(Selection!Packet), Len(timeline') <= Retained,
         batch' \in Seq(Selection!Packet), DueOnce(due'),
         latest' \in SelectionIds \cup {Nothing}, session' \in Sessions \cup {Nothing},
         hiding' \in BOOLEAN, arrived' \in 0 .. MaxArrivals,
         Numbered(Members(timeline') \cup Members(batch'), arrived')
  PROVE  SelectionInv'
<1>1. /\ Selection!SelectedIsShown'
      /\ selected' \in {id, Nothing} \cup {p.id : p \in Members(timeline')}
      /\ mode' \in {m, "follow", "manual"}
  BY SettleFacts
<1>2. \A p \in Members(timeline') : p.id \in SelectionIds
  <2>1. Members(timeline') \subseteq Selection!Packet
    BY MembersFacts
  <2>2. \A p \in Selection!Packet : p.id \in SelectionIds
    BY DEF Selection!Packet, Selection!PacketIds, SelectionIds
  <2> QED
    BY <2>1, <2>2
<1>3. selected' \in SelectionIds \cup {Nothing}
  BY <1>1, <1>2
<1>4. Selection!TypeOK'
  BY <1>1, <1>3 DEF Selection!TypeOK, Selection!PacketIds, SelectionIds, DueOnce
<1>5. Numbered(Held, arrived)'
  BY DEF Held, Members
<1> QED
  BY <1>1, <1>4, <1>5 DEF SelectionInv, Held, Members

----------------------------------------------------------------------------

LEMMA SelectionTypes ==
  ASSUME SelectionInv
  PROVE  /\ timeline \in Seq(Selection!Packet) /\ Len(timeline) <= Retained
         /\ batch \in Seq(Selection!Packet) /\ DueOnce(due)
         /\ latest \in SelectionIds \cup {Nothing} /\ selected \in SelectionIds \cup {Nothing}
         /\ mode \in {"follow", "manual"}
         /\ session \in Sessions \cup {Nothing} /\ hiding \in BOOLEAN
         /\ arrived \in 0 .. MaxArrivals /\ arrived \in Nat /\ MaxArrivals \in Nat
         /\ Numbered(Members(timeline) \cup Members(batch), arrived)
         /\ Members(timeline) \subseteq Selection!Packet /\ Members(batch) \subseteq Selection!Packet
         /\ \A p \in Selection!Packet : p.id \in SelectionIds
<1>1. Members(timeline) \subseteq Selection!Packet /\ Members(batch) \subseteq Selection!Packet
  BY MembersFacts DEF SelectionInv, Selection!TypeOK
<1>2. \A p \in Selection!Packet : p.id \in SelectionIds
  BY DEF Selection!Packet, Selection!PacketIds, SelectionIds
<1>3. MaxArrivals \in Nat /\ arrived \in 0 .. MaxArrivals
  BY SelectionAssumption DEF SelectionInv, Selection!TypeOK
<1> QED
  BY <1>1, <1>2, <1>3 DEF SelectionInv, Selection!TypeOK, Selection!PacketIds, SelectionIds, Held

LEMMA NumberedSubset ==
  ASSUME NEW S, NEW n, Numbered(S, n), NEW T, T \subseteq S
  PROVE  Numbered(T, n)
BY DEF Numbered

LEMMA NumberedNext ==
  ASSUME NEW S, NEW n \in Nat, Numbered(S, n), \A q \in S : q.id \in Nat,
         NEW p, p.id = n + 1
  PROVE  Numbered(S \cup {p}, n + 1)
<1>1. \A q \in S : q.id <= n /\ q.id <= n + 1 /\ q.id # p.id
  BY DEF Numbered
<1> QED
  BY <1>1 DEF Numbered

LEMMA AppendMembers ==
  ASSUME NEW S, NEW list \in Seq(S), NEW e \in S
  PROVE  Append(list, e) \in Seq(S) /\ Members(Append(list, e)) = Members(list) \cup {e}
<1> DEFINE new == Append(list, e)
<1>1. /\ new \in Seq(S) /\ Len(new) = Len(list) + 1 /\ new[Len(list) + 1] = e
      /\ \A i \in 1 .. Len(list) : new[i] = list[i]
  BY AppendProperties
<1> HIDE DEF new
<1>2. DOMAIN list = 1 .. Len(list) /\ DOMAIN new = 1 .. Len(list) + 1 /\ Len(list) \in Nat
  BY <1>1, LenProperties
<1>3. \A i \in 1 .. Len(list) + 1 : i \in 1 .. Len(list) \/ i = Len(list) + 1
  BY <1>2
<1>4. 1 .. Len(list) \subseteq 1 .. Len(list) + 1 /\ Len(list) + 1 \in 1 .. Len(list) + 1
  BY <1>2
<1>5. Members(new) = Members(list) \cup {e}
  <2>1. Members(new) \subseteq Members(list) \cup {e}
    BY <1>1, <1>2, <1>3 DEF Members
  <2>2. Members(list) \cup {e} \subseteq Members(new)
    BY <1>1, <1>2, <1>4 DEF Members
  <2> QED
    BY <2>1, <2>2
<1> QED
  BY <1>1, <1>5 DEF new

(***************************************************************************)
(* What a flush makes of the timeline.                                     *)
(***************************************************************************)
LEMMA MergedKeeps ==
  ASSUME timeline \in Seq(Selection!Packet), NEW new \in Seq(Selection!Packet)
  PROVE  /\ Selection!Merged(new) \in Seq(Selection!Packet) /\ Len(Selection!Merged(new)) <= Retained
         /\ Members(Selection!Merged(new)) \subseteq Members(new) \cup Members(timeline)
<1>1. Selection!Reverse(new) = Reverse(new)
  BY DEF Selection!Reverse, Reverse
<1>2. Retained \in Nat
  BY SelectionAssumption
<1> DEFINE all == Reverse(new) \o timeline
<1>3. Selection!Merged(new) = SubSeq(all, 1, IF Len(all) < Retained THEN Len(all) ELSE Retained)
  BY <1>1 DEF Selection!Merged
<1> QED
  BY <1>2, <1>3, MergedFacts

(***************************************************************************)
(* A flush leaves no batch.                                                *)
(***************************************************************************)
LEMMA BatchDoneKeeps ==
  ASSUME Selection!BatchDone, DueOnce(due)
  PROVE  batch' \in Seq(Selection!Packet) /\ Members(batch') = {} /\ DueOnce(due')
<1>1. batch' = <<>> /\ due' = Kept(due, {i \in DOMAIN due : due[i] # "flush"})
  BY SelectionKept DEF Selection!BatchDone
<1>2. DueOnce(due')
  BY <1>1, KeptDue
<1>3. batch' \in Seq(Selection!Packet) /\ DOMAIN batch' = {}
  BY <1>1, EmptySeq, LenProperties
<1> QED
  BY <1>2, <1>3 DEF Members

----------------------------------------------------------------------------
(* One lemma per operation of the selection *)

(***************************************************************************)
(* A packet that comes gets the next number.                               *)
(***************************************************************************)
LEMMA NewPacketFacts ==
  ASSUME SelectionInv, arrived < MaxArrivals, NEW s \in Sessions, NEW noise \in BOOLEAN
  PROVE  LET p == Selection!NewPacket(s, noise) IN
         /\ p \in Selection!Packet /\ arrived + 1 \in SelectionIds /\ arrived + 1 \in 0 .. MaxArrivals
         /\ Append(batch, p) \in Seq(Selection!Packet)
         /\ Numbered(Members(timeline) \cup Members(Append(batch, p)), arrived + 1)
<1> DEFINE p == Selection!NewPacket(s, noise)
<1>1. arrived + 1 \in SelectionIds /\ arrived + 1 \in 0 .. MaxArrivals
  BY SelectionTypes DEF SelectionIds
<1>2. p \in Selection!Packet /\ p.id = arrived + 1
  BY <1>1 DEF Selection!NewPacket, Selection!Packet, Selection!PacketIds, SelectionIds
<1> HIDE DEF p
<1>3. Append(batch, p) \in Seq(Selection!Packet) /\ Members(Append(batch, p)) = Members(batch) \cup {p}
  BY <1>2, SelectionTypes, AppendMembers
<1> DEFINE held == Members(timeline) \cup Members(batch)
<1>4. Numbered(held, arrived) /\ arrived \in Nat /\ \A q \in held : q.id \in Nat
  <2>1. \A q \in held : q.id \in SelectionIds
    BY SelectionTypes
  <2> QED
    BY <2>1, SelectionTypes DEF SelectionIds
<1> HIDE DEF held
<1>5. Numbered(held \cup {p}, arrived + 1)
  BY <1>2, <1>4, NumberedNext
<1>6. Members(timeline) \cup Members(Append(batch, p)) = held \cup {p}
  BY <1>3 DEF held
<1> QED
  BY <1>1, <1>2, <1>3, <1>5, <1>6 DEF p

LEMMA ArrivesKeeps ==
  ASSUME SelectionInv, Selection!Arrives
  PROVE  SelectionInv'
<1>1. PICK s \in Sessions, noise \in BOOLEAN : batch' = Append(batch, Selection!NewPacket(s, noise))
  BY DEF Selection!Arrives
<1>2. /\ arrived < MaxArrivals /\ arrived' = arrived + 1 /\ latest' = arrived + 1
      /\ due' = Selection!Set("select", Selection!Set("flush", due))
      /\ timeline' = timeline /\ session' = session /\ hiding' = hiding
      /\ Selection!Settle(selected, mode)
  BY DEF Selection!Arrives, Selection!Keep
<1>3. DueOnce(due')
  BY <1>2, SetFacts, SelectionTypes
<1> QED
  BY <1>1, <1>2, <1>3, NewPacketFacts, SelectionTypes, SelectionStepKeeps

LEMMA SentKeeps ==
  ASSUME SelectionInv, Selection!Sent
  PROVE  SelectionInv'
<1>1. PICK s \in Sessions : batch' = Append(batch, Selection!NewPacket(s, FALSE))
  BY DEF Selection!Sent
<1>2. /\ arrived < MaxArrivals /\ arrived' = arrived + 1 /\ latest' = latest
      /\ due' = Selection!Set("flush", due)
      /\ timeline' = timeline /\ session' = session /\ hiding' = hiding
      /\ Selection!Settle(arrived + 1, Selection!ModeFor(arrived + 1))
  BY DEF Selection!Sent, Selection!Choose
<1>3. DueOnce(due') /\ Selection!ModeFor(arrived + 1) \in {"follow", "manual"}
  BY <1>2, SetFacts, SelectionTypes DEF Selection!ModeFor
<1> QED
  BY <1>1, <1>2, <1>3, NewPacketFacts, SelectionTypes, SelectionStepKeeps

(***************************************************************************)
(* The three operations that flush; packets are those the batch and the    *)
(* timeline hold together with what comes with the operation.              *)
(***************************************************************************)
LEMMA FlushKeeps ==
  ASSUME SelectionInv, NEW new \in Seq(Selection!Packet), NEW kept \in Seq(Selection!Packet),
         Members(kept) \subseteq Members(Selection!Merged(new)), Len(kept) <= Retained,
         timeline' = kept, Selection!BatchDone,
         arrived' \in 0 .. MaxArrivals, Numbered(Members(timeline) \cup Members(new), arrived'),
         latest' = latest, session' = session, hiding' = hiding,
         NEW id \in SelectionIds \cup {Nothing}, NEW m \in {"follow", "manual"}, Selection!Settle(id, m)
  PROVE  SelectionInv'
<1>1. Members(Selection!Merged(new)) \subseteq Members(new) \cup Members(timeline)
  BY MergedKeeps, SelectionTypes
<1>2. batch' \in Seq(Selection!Packet) /\ Members(batch') = {} /\ DueOnce(due')
  BY BatchDoneKeeps, SelectionTypes
<1>3. Members(timeline') \cup Members(batch') \subseteq Members(timeline) \cup Members(new)
  BY <1>1, <1>2
<1>4. Numbered(Members(timeline') \cup Members(batch'), arrived')
  BY <1>3, NumberedSubset
<1> QED
  BY <1>2, <1>4, SelectionTypes, SelectionStepKeeps

LEMMA FlushTimerKeeps ==
  ASSUME SelectionInv, Selection!FlushTimer \/ Selection!Annotate
  PROVE  SelectionInv'
<1>1. /\ timeline' = Selection!Merged(batch) /\ Selection!BatchDone
      /\ latest' = latest /\ session' = session /\ hiding' = hiding /\ arrived' = arrived
      /\ Selection!Settle(selected, mode)
  BY DEF Selection!FlushTimer, Selection!Annotate, Selection!Keep
<1>2. Selection!Merged(batch) \in Seq(Selection!Packet) /\ Len(Selection!Merged(batch)) <= Retained
  BY MergedKeeps, SelectionTypes
<1> QED
  BY <1>1, <1>2, SelectionTypes, FlushKeeps

LEMMA SelectTimerKeeps ==
  ASSUME SelectionInv, Selection!SelectTimer
  PROVE  SelectionInv'
<1>1. /\ due # <<>> /\ due' = Tail(due)
      /\ timeline' = timeline /\ batch' = batch /\ latest' = latest
      /\ session' = session /\ hiding' = hiding /\ arrived' = arrived
      /\ Selection!Settle(latest, "follow") \/ Selection!Settle(selected, mode)
  BY DEF Selection!SelectTimer, Selection!Keep
<1>2. DueOnce(due')
  BY <1>1, TailDue, SelectionTypes
<1> QED
  BY <1>1, <1>2, SelectionTypes, SelectionStepKeeps

LEMMA TourStepKeeps ==
  ASSUME SelectionInv, Selection!TourStep
  PROVE  SelectionInv'
<1>1. PICK s \in Sessions : timeline' = Selection!Merged(Append(batch, Selection!NewPacket(s, FALSE)))
  BY DEF Selection!TourStep
<1>2. /\ arrived < MaxArrivals /\ arrived' = arrived + 1 /\ Selection!BatchDone
      /\ latest' = latest /\ session' = session /\ hiding' = hiding
      /\ Selection!Settle(arrived + 1, Selection!ModeFor(arrived + 1))
  BY DEF Selection!TourStep, Selection!Choose
<1> DEFINE new == Append(batch, Selection!NewPacket(s, FALSE))
<1>3. /\ new \in Seq(Selection!Packet) /\ Numbered(Members(timeline) \cup Members(new), arrived + 1)
      /\ arrived + 1 \in SelectionIds /\ arrived + 1 \in 0 .. MaxArrivals
  BY <1>2, NewPacketFacts
<1>4. Selection!ModeFor(arrived + 1) \in {"follow", "manual"}
  BY DEF Selection!ModeFor
<1> HIDE DEF new
<1>5. Selection!Merged(new) \in Seq(Selection!Packet) /\ Len(Selection!Merged(new)) <= Retained
  BY <1>3, MergedKeeps, SelectionTypes
<1>6. timeline' = Selection!Merged(new)
  BY <1>1 DEF new
<1> QED
  BY <1>2, <1>3, <1>4, <1>5, <1>6, FlushKeeps

(***************************************************************************)
(* The user's operations choose a packet the timeline holds, or none.      *)
(***************************************************************************)
LEMMA FirstIdFacts ==
  ASSUME SelectionInv, NEW s, NEW hide
  PROVE  Selection!FirstId(Selection!Shown(timeline, s, hide)) \in SelectionIds \cup {Nothing}
<1> DEFINE shown == Selection!Shown(timeline, s, hide)
<1>1. /\ Selection!IdsOf(shown) = VisibleIds(timeline, s, hide)
      /\ IF shown = <<>> THEN Selection!FirstId(shown) = Nothing
         ELSE Selection!FirstId(shown) \in Selection!IdsOf(shown)
  BY ShownFacts, SelectionTypes
<1> HIDE DEF shown
<1>2. VisibleIds(timeline, s, hide) \subseteq SelectionIds
  BY SelectionTypes DEF VisibleIds
<1>3. Selection!FirstId(shown) \in SelectionIds \cup {Nothing}
  BY <1>1, <1>2
<1> QED
  BY <1>3 DEF shown

LEMMA UserKeeps ==
  ASSUME SelectionInv,
         timeline' = timeline, batch' = batch, due' = due, latest' = latest, arrived' = arrived,
         session' \in Sessions \cup {Nothing}, hiding' \in BOOLEAN,
         NEW id \in SelectionIds \cup {Nothing}, NEW m \in {"follow", "manual"}, Selection!Settle(id, m)
  PROVE  SelectionInv'
BY SelectionTypes, SelectionStepKeeps

LEMMA SelectPacketKeeps ==
  ASSUME SelectionInv, Selection!SelectPacket
  PROVE  SelectionInv'
<1>1. PICK p \in Selection!ToSet(Selection!Shown(timeline, session, hiding)) :
        Selection!Settle(p.id, Selection!ModeFor(p.id))
  BY DEF Selection!SelectPacket, Selection!Choose
<1>2. p.id \in SelectionIds /\ Selection!ModeFor(p.id) \in {"follow", "manual"}
  <2>1. p \in Members(timeline)
    BY <1>1, ShownFacts, SelectionTypes
  <2> QED
    BY <2>1, SelectionTypes DEF Selection!ModeFor
<1>3. /\ timeline' = timeline /\ batch' = batch /\ due' = due /\ latest' = latest
      /\ session' = session /\ hiding' = hiding /\ arrived' = arrived
  BY DEF Selection!SelectPacket
<1> QED
  BY <1>1, <1>2, <1>3, SelectionTypes, UserKeeps

LEMMA JumpKeeps ==
  ASSUME SelectionInv, Selection!HandleJumpToLatestPacket
  PROVE  SelectionInv'
<1>1. /\ timeline' = timeline /\ batch' = batch /\ due' = due /\ latest' = latest
      /\ session' = session /\ hiding' = hiding /\ arrived' = arrived
      /\ Selection!Settle(Selection!FirstId(Selection!Shown(timeline, session, hiding)), "follow")
  BY DEF Selection!HandleJumpToLatestPacket
<1> QED
  BY <1>1, FirstIdFacts, SelectionTypes, UserKeeps

LEMMA SelectSessionKeeps ==
  ASSUME SelectionInv, Selection!SelectSession
  PROVE  SelectionInv'
<1>1. /\ timeline' = timeline /\ batch' = batch /\ due' = due /\ latest' = latest
      /\ session' \in Sessions \cup {Nothing} /\ hiding' = hiding /\ arrived' = arrived
      /\ Selection!Settle(Nothing, "follow")
  BY DEF Selection!SelectSession
<1> QED
  BY <1>1, SelectionTypes, UserKeeps

LEMMA HandleSelectSessionKeeps ==
  ASSUME SelectionInv, Selection!HandleSelectSession
  PROVE  SelectionInv'
<1> DEFINE id == Selection!FirstId(Selection!Shown(timeline, session', FALSE))
<1>1. /\ timeline' = timeline /\ batch' = batch /\ due' = due /\ latest' = latest
      /\ session' \in Sessions \cup {Nothing} /\ hiding' = hiding /\ arrived' = arrived
      /\ Selection!Settle(id, Selection!ModeFor(id))
  BY DEF Selection!HandleSelectSession, Selection!Choose
<1>2. id \in SelectionIds \cup {Nothing} /\ Selection!ModeFor(id) \in {"follow", "manual"}
  BY FirstIdFacts DEF Selection!ModeFor
<1> HIDE DEF id
<1> QED
  BY <1>1, <1>2, SelectionTypes, UserKeeps

LEMMA FilterKeeps ==
  ASSUME SelectionInv, Selection!UpdateFilterState
  PROVE  SelectionInv'
<1>1. /\ timeline' = timeline /\ batch' = batch /\ due' = due /\ latest' = latest
      /\ session' = session /\ hiding' \in BOOLEAN /\ arrived' = arrived
      /\ Selection!Settle(selected, mode)
  BY DEF Selection!UpdateFilterState, Selection!Keep
<1> QED
  BY <1>1, SelectionTypes, UserKeeps

LEMMA ClearKeeps ==
  ASSUME SelectionInv, Selection!HandleClearCapturedFrames
  PROVE  SelectionInv'
<1> DEFINE all == Selection!Merged(batch)
           kept == {i \in DOMAIN all : session # Nothing /\ all[i].s # session}
<1>1. /\ timeline' = Kept(all, kept) /\ Selection!BatchDone
      /\ latest' = latest /\ session' = session /\ hiding' = hiding /\ arrived' = arrived
      /\ Selection!Settle(Nothing, "follow")
  BY SelectionKept DEF Selection!HandleClearCapturedFrames
<1>2. all \in Seq(Selection!Packet) /\ Len(all) <= Retained
  BY MergedKeeps, SelectionTypes
<1>3. kept \subseteq DOMAIN all
  OBVIOUS
<1> HIDE DEF all, kept
<1>4. /\ Kept(all, kept) \in Seq(Selection!Packet) /\ Len(Kept(all, kept)) <= Len(all)
      /\ Members(Kept(all, kept)) = {all[i] : i \in kept}
  BY <1>2, <1>3, KeptFacts, KeptMembers
<1>5. Members(Kept(all, kept)) \subseteq Members(all)
  BY <1>3, <1>4 DEF Members
<1>6. Len(Kept(all, kept)) <= Retained
  <2>1. Len(Kept(all, kept)) \in Nat /\ Len(all) \in Nat /\ Retained \in Nat
    BY <1>2, <1>4, LenProperties, SelectionAssumption
  <2> QED
    BY <1>2, <1>4, <2>1
<1>7. Members(Kept(all, kept)) \subseteq Members(Selection!Merged(batch))
  BY <1>5 DEF all
<1> QED
  BY <1>1, <1>4, <1>6, <1>7, SelectionTypes, FlushKeeps

LEMMA SelectionNextKeeps == SelectionInv /\ [Selection!Next]_selectionVars => SelectionInv'
<1> SUFFICES ASSUME SelectionInv, [Selection!Next]_selectionVars PROVE SelectionInv'
  OBVIOUS
<1>1. CASE UNCHANGED selectionVars
  BY <1>1 DEF selectionVars, SelectionInv, Selection!TypeOK, Selection!SelectedIsShown, Held, Members
<1>2. CASE Selection!Next
  BY <1>2, ArrivesKeeps, SentKeeps, FlushTimerKeeps, SelectTimerKeeps, TourStepKeeps, SelectPacketKeeps,
     JumpKeeps, SelectSessionKeeps, HandleSelectSessionKeeps, FilterKeeps, ClearKeeps DEF Selection!Next
<1> QED
  BY <1>1, <1>2

LEMMA SelectionInitHolds == Selection!Init => SelectionInv
<1> SUFFICES ASSUME Selection!Init PROVE SelectionInv
  OBVIOUS
<1>1. \A S : <<>> \in Seq(S) /\ Len(<<>>) = 0
  BY EmptySeq
<1>4. 0 <= Retained /\ 0 \in 0 .. MaxArrivals
  BY SelectionAssumption
<1>5. Selection!TypeOK
  <2>1. timeline = <<>> /\ batch = <<>> /\ due = <<>>
    BY DEF Selection!Init
  <2>2. /\ timeline \in Seq(Selection!Packet) /\ batch \in Seq(Selection!Packet)
        /\ due \in Seq({"flush", "select"}) /\ Len(timeline) = 0 /\ Len(due) = 0
    BY <1>1, <2>1
  <2>3. Len(timeline) <= Retained /\ Len(due) <= 2 /\ arrived \in 0 .. MaxArrivals
    BY <1>4, <2>2 DEF Selection!Init
  <2>4. /\ {latest, selected} \subseteq Selection!PacketIds \cup {Nothing} /\ mode \in {"follow", "manual"}
        /\ session \in Sessions \cup {Nothing} /\ hiding \in BOOLEAN
    BY DEF Selection!Init
  <2> QED
    BY <2>2, <2>3, <2>4 DEF Selection!TypeOK
<1>6. DueOnce(due)
  BY <1>1 DEF Selection!Init, DueOnce
<1>2. Selection!SelectedIsShown
  BY DEF Selection!Init, Selection!SelectedIsShown
<1>3. Numbered(Held, arrived)
  <2>1. DOMAIN timeline = {} /\ DOMAIN batch = {}
    BY EmptySeq, LenProperties DEF Selection!Init
  <2> QED
    BY <2>1 DEF Held, Members, Numbered
<1> QED
  BY <1>2, <1>3, <1>5, <1>6 DEF SelectionInv

(***************************************************************************)
(* A packet out of sight that a new packet or a timer takes the selection  *)
(* from has left the timeline: what is on it was seen before, or is new    *)
(* and has another number.                                                 *)
(***************************************************************************)
LEMMA SelectionStaysPut == SelectionInv /\ [Selection!Next]_selectionVars => Selection!SelectionStays
<1> SUFFICES ASSUME SelectionInv, mode = "manual",
                    Selection!Arrives \/ Selection!FlushTimer \/ Selection!SelectTimer
             PROVE  selected' = selected \/ selected \notin Selection!IdsOf(timeline')
  BY DEF Selection!SelectionStays
<1>1. /\ session' = session /\ hiding' = hiding
      /\ Selection!Settle(selected, mode)
  BY DEF Selection!Arrives, Selection!FlushTimer, Selection!SelectTimer, Selection!Keep
<1>2. timeline' \in Seq(Selection!Packet) /\ Members(timeline') \subseteq Held
  <2>1. CASE timeline' = timeline
    BY <2>1, SelectionTypes DEF Held
  <2>2. CASE timeline' = Selection!Merged(batch)
    BY <2>2, MergedKeeps, SelectionTypes DEF Held
  <2> QED
    BY <2>1, <2>2 DEF Selection!Arrives, Selection!FlushTimer, Selection!SelectTimer
<1>3. selected' = selected \/ (selected # Nothing /\ selected \notin VisibleIds(timeline', session, hiding))
  BY <1>1, <1>2, SettleFacts
<1>4. ASSUME selected # Nothing, NEW q \in Members(timeline'), q.id = selected
      PROVE  selected \in VisibleIds(timeline', session, hiding)
  <2>1. selected \in VisibleIds(timeline, session, hiding)
    BY <1>4, ShownFacts, SelectionTypes DEF SelectionInv, Selection!SelectedIsShown
  <2>2. PICK p \in Members(timeline) : Visible(p, session, hiding) /\ p.id = selected
    BY <2>1 DEF VisibleIds
  <2>3. q = p
    BY <1>2, <1>4, <2>2 DEF SelectionInv, Numbered, Held
  <2> QED
    BY <1>4, <2>2, <2>3 DEF VisibleIds
<1>5. Selection!IdsOf(timeline') = {q.id : q \in Members(timeline')}
  BY DEF Selection!IdsOf, Selection!ToSet, Members
<1> QED
  BY <1>3, <1>4, <1>5

LEMMA SelectionSteps == [StoresNext]_storesVars => [Selection!Next]_selectionVars
BY DEF StoresNext, StoresBut, storesVars, selectionVars

(***************************************************************************)
(* The selection is of a packet on the timeline as it is shown, or of      *)
(* none, whatever is trimmed, cleared, filtered or late, for any number    *)
(* of packets and any retention limit (ui-store.ts, App.tsx).              *)
(***************************************************************************)
THEOREM SelectionCorrect == StoresSpec => []SelectedIsShown
<1>1. StoresInit => SelectionInv
  BY SelectionInitHolds DEF StoresInit
<1>2. SelectionInv /\ [StoresNext]_storesVars => SelectionInv'
  BY SelectionSteps, SelectionNextKeeps
<1>3. SelectionInv => SelectedIsShown
  BY DEF SelectionInv, SelectedIsShown
<1> QED
  BY <1>1, <1>2, <1>3, PTL DEF StoresSpec

(***************************************************************************)
(* Neither packets that arrive nor the two timers move the selection away  *)
(* from an older packet, until it is trimmed (ui-store.ts).                *)
(***************************************************************************)
THEOREM ManualSelectionCorrect == StoresSpec => ManualSelectionStays
<1>1. StoresInit => SelectionInv
  BY SelectionInitHolds DEF StoresInit
<1>2. SelectionInv /\ [StoresNext]_storesVars => SelectionInv'
  BY SelectionSteps, SelectionNextKeeps
<1>3. SelectionInv /\ [StoresNext]_storesVars
        => [IF subject = "selection" THEN Selection!SelectionStays ELSE TRUE]_storesVars
  BY SelectionSteps, SelectionStaysPut
<1> QED
  BY <1>1, <1>2, <1>3, PTL DEF StoresSpec, ManualSelectionStays

----------------------------------------------------------------------------
(* The environments *)

LEMMA EnvKept == \A list, kept : Env!Kept(list, kept) = Kept(list, kept)
<1>1. \A S : Env!Cardinality(S) = Cardinality(S)
  BY DEF Env!Cardinality, Cardinality
<1>2. \A S, R : Env!Places(S, R) = Places(S, R)
  BY <1>1 DEF Env!Places, Places
<1>3. \A S, R : Env!Arranged(S, R) = Arranged(S, R)
  BY <1>1, <1>2 DEF Env!Arranged, Arranged
<1> QED
  BY <1>1, <1>3 DEF Env!Kept, Kept

LEMMA EnvMin == \A S : Env!Min(S) = Min(S)
BY DEF Env!Min, Min

(***************************************************************************)
(* The place of the first member that is found.                            *)
(***************************************************************************)
LEMMA MinFacts ==
  ASSUME NEW S, NEW list \in Seq(S), NEW of, of \subseteq DOMAIN list, of # {}
  PROVE  Min(of) \in of /\ \A j \in of : Min(of) <= j
<1> DEFINE left == Kept(list, of)
<1>1. left \in Seq(S) /\ IsFiltering(left, list, of)
  BY KeptFacts
<1> HIDE DEF left
<1>2. PICK o \in [1 .. Len(left) -> of] :
        /\ \A k, l \in 1 .. Len(left) : k < l => o[k] < o[l]
        /\ \A i \in of : \E k \in 1 .. Len(left) : o[k] = i
  BY <1>1 DEF IsFiltering
<1>3. Len(left) \in Nat /\ Len(list) \in Nat /\ of \subseteq 1 .. Len(list)
  BY <1>1, LenProperties
<1>4. 1 \in 1 .. Len(left)
  BY <1>2, <1>3
<1>5. o[1] \in of /\ \A j \in of : o[1] <= j
  <2>4. \A i \in of : i \in Nat
    BY <1>3
  <2>1. o[1] \in of /\ o[1] \in Nat
    BY <1>2, <1>4, <2>4
  <2>2. ASSUME NEW j \in of PROVE o[1] <= j
    <3>1. PICK k \in 1 .. Len(left) : o[k] = j
      BY <1>2
    <3>2. CASE k = 1
      BY <2>1, <3>1, <3>2
    <3>3. CASE k # 1
      <4>1. 1 < k
        BY <1>3, <3>3
      <4>2. o[1] < o[k] /\ j \in Nat
        BY <1>2, <1>3, <1>4, <4>1
      <4> QED
        BY <2>1, <3>1, <4>2
    <3> QED
      BY <3>2, <3>3
  <2> QED
    BY <2>1, <2>2
<1> QED
  BY <1>5 DEF Min

EnvRecord == [id : Nat, named : BOOLEAN, preset : BOOLEAN, vars : Seq(Env!Variable), profiles : Seq(Env!Profile)]

(***************************************************************************)
(* Entries have ids of their own, none of them one that is still to come.  *)
(* Without it a new environment could go by the id of another, and the     *)
(* active one be two.                                                      *)
(***************************************************************************)
EnvList(list, n) ==
  /\ list \in Seq(EnvRecord)
  /\ \A i \in DOMAIN list : list[i].id < n
  /\ \A i, j \in DOMAIN list : list[i].id = list[j].id => i = j

EnvInv ==
  /\ EnvList(environments, 4 + edits)
  /\ active \in Env!Ids(environments)
  /\ edits \in 0 .. MaxEdits

LEMMA EnvIdsFacts ==
  ASSUME NEW list, NEW id
  PROVE  id \in Env!Ids(list) <=> \E i \in DOMAIN list : list[i].id = id
BY DEF Env!Ids, Env!ToSet

LEMMA EnvInvFacts ==
  ASSUME EnvInv
  PROVE  Env!TypeOK /\ Env!ActiveIsListed /\ edits \in Nat
<1>1. edits \in Nat /\ edits \in 0 .. MaxEdits
  BY EditsAssumption DEF EnvInv
<1>2. \A i \in DOMAIN environments : environments[i] \in EnvRecord
  BY ElementOfSeq, LenProperties DEF EnvInv, EnvList
<1>3. \A e \in EnvRecord : Env!IsEnvironment(e)
  <2> DEFINE V == Seq(Env!Variable)
             P == Seq(Env!Profile)
  <2> SUFFICES ASSUME NEW e \in [id : Nat, named : BOOLEAN, preset : BOOLEAN, vars : V, profiles : P]
               PROVE  Env!IsEnvironment(e)
    BY DEF EnvRecord
  <2> HIDE DEF V, P
  <2>1. DOMAIN e = {"id", "named", "preset", "vars", "profiles"}
    OBVIOUS
  <2>2. e.id \in Nat /\ e.named \in BOOLEAN /\ e.preset \in BOOLEAN /\ e.vars \in V /\ e.profiles \in P
    OBVIOUS
  <2> QED
    BY <2>1, <2>2 DEF Env!IsEnvironment, V, P
<1>4. active \in Nat
  <2>1. PICK i \in DOMAIN environments : environments[i].id = active
    BY EnvIdsFacts DEF EnvInv
  <2> QED
    BY <1>2, <2>1 DEF EnvRecord
<1>5. Env!TypeOK
  BY <1>1, <1>2, <1>3, <1>4 DEF Env!TypeOK
<1>6. Env!ActiveIsListed
  BY DEF Env!ActiveIsListed, EnvInv, EnvList
<1> QED
  BY <1>1, <1>5, <1>6

LEMMA ActiveFacts ==
  ASSUME EnvInv
  PROVE  /\ \E i \in DOMAIN environments : environments[i] = Env!Current
         /\ Env!Current \in EnvRecord /\ Env!Current.id = active
         /\ \A i \in DOMAIN environments : environments[i].id = active => environments[i] = Env!Current
<1> DEFINE of == {i \in DOMAIN environments : environments[i].id = active}
<1>1. of # {} /\ of \subseteq DOMAIN environments /\ environments \in Seq(EnvRecord)
  BY EnvIdsFacts DEF EnvInv, EnvList
<1>2. Env!Current = environments[Min(of)]
  BY <1>1, EnvMin DEF Env!Current, Env!Active
<1>3. Min(of) \in of
  <2> HIDE DEF of
  <2> QED
    BY <1>1, MinFacts
<1>4. Min(of) \in DOMAIN environments /\ environments[Min(of)].id = active
  BY <1>3
<1>5. environments[Min(of)] \in EnvRecord
  BY <1>1, <1>4, ElementOfSeq, LenProperties
<1> HIDE DEF of
<1> QED
  BY <1>2, <1>4, <1>5 DEF EnvInv, EnvList

(***************************************************************************)
(* A variable that is dropped did not matter to the keys it does not have. *)
(***************************************************************************)
LEMMA LookupFacts ==
  ASSUME NEW V, NEW vs \in Seq(V), NEW kept, kept \subseteq DOMAIN vs, NEW key,
         \A i \in DOMAIN vs : vs[i].key = key => i \in kept
  PROVE  Env!Lookup(Kept(vs, kept), key) = Env!Lookup(vs, key)
<1> DEFINE left == Kept(vs, kept)
           of == {i \in DOMAIN vs : vs[i].key = key}
           ofLeft == {k \in DOMAIN left : left[k].key = key}
<1>1. left \in Seq(V) /\ IsFiltering(left, vs, kept)
  BY KeptFacts
<1>2. /\ Env!Lookup(vs, key) = IF of = {} THEN "" ELSE vs[Min(of)].value
      /\ Env!Lookup(left, key) = IF ofLeft = {} THEN "" ELSE left[Min(ofLeft)].value
  BY EnvMin DEF Env!Lookup
<1>3. of \subseteq kept /\ \A i : i \in of <=> i \in DOMAIN vs /\ vs[i].key = key
  OBVIOUS
<1>4. \A k : k \in ofLeft <=> k \in DOMAIN left /\ left[k].key = key
  OBVIOUS
<1> HIDE DEF left, of, ofLeft
<1>5. PICK o \in [1 .. Len(left) -> kept] :
        /\ \A k \in 1 .. Len(left) : left[k] = vs[o[k]]
        /\ \A k, l \in 1 .. Len(left) : k < l => o[k] < o[l]
        /\ \A i \in kept : \E k \in 1 .. Len(left) : o[k] = i
  BY <1>1 DEF IsFiltering
<1>6. Len(left) \in Nat /\ DOMAIN left = 1 .. Len(left) /\ Len(vs) \in Nat /\ DOMAIN vs = 1 .. Len(vs)
  BY <1>1, LenProperties
<1>7. \A k \in 1 .. Len(left) : o[k] \in kept /\ (k \in ofLeft <=> o[k] \in of)
  BY <1>3, <1>4, <1>5, <1>6
<1>8. CASE of = {}
  <2>1. ofLeft = {}
    BY <1>4, <1>6, <1>7, <1>8
  <2> QED
    BY <1>2, <1>8, <2>1 DEF left
<1>9. CASE of # {}
  <2>1. of \subseteq DOMAIN vs /\ ofLeft \subseteq DOMAIN left
    BY <1>3, <1>4
  <2>2. Min(of) \in of /\ \A j \in of : Min(of) <= j
    BY <1>9, <2>1, MinFacts
  <2>3. PICK k \in 1 .. Len(left) : o[k] = Min(of)
    BY <1>3, <1>5, <2>2
  <2>4. k \in ofLeft
    BY <1>7, <2>2, <2>3
  <2>5. Min(ofLeft) \in ofLeft /\ \A j \in ofLeft : Min(ofLeft) <= j
    BY <1>1, <2>1, <2>4, MinFacts
  <2> DEFINE m == Min(ofLeft)
             n == Min(of)
  <2>6. m \in 1 .. Len(left) /\ m <= k /\ o[m] \in of
    BY <1>6, <1>7, <2>1, <2>4, <2>5
  <2>7. n <= o[m] /\ n \in Nat /\ o[m] \in Nat
    BY <1>3, <1>6, <2>2, <2>6
  <2> HIDE DEF m, n
  <2>8. m = k
    <3>1. ~ (m < k)
      <4> SUFFICES ASSUME m < k PROVE FALSE
        OBVIOUS
      <4>1. o[m] < o[k]
        BY <1>5, <2>6
      <4> QED
        BY <2>3, <2>7, <4>1 DEF n
    <3> QED
      BY <1>6, <2>6, <3>1
  <2>9. left[m] = vs[n]
    BY <1>5, <2>3, <2>6, <2>8 DEF n
  <2> QED
    BY <1>2, <1>9, <2>4, <2>9 DEF m, n, left
<1> QED
  BY <1>8, <1>9

(***************************************************************************)
(* What a text stands for depends on the variables by their values only.   *)
(***************************************************************************)
LEMMA InterpolateFacts ==
  ASSUME NEW a, NEW b, \A key \in Env!ValidKeys : Env!Lookup(a, key) = Env!Lookup(b, key), NEW text
  PROVE  Env!Interpolate(text, a) = Env!Interpolate(text, b)
<1> DEFINE missing(vs) == {k \in Env!UsedVariables(text) : Env!Lookup(vs, k) = ""}
           value(vs) == [i \in DOMAIN text |->
                            IF text[i] \in Env!ValidKeys \ missing(vs) THEN Env!Lookup(vs, text[i]) ELSE text[i]]
<1>1. Env!UsedVariables(text) \subseteq Env!ValidKeys
  BY DEF Env!UsedVariables
<1>2. missing(a) = missing(b)
  BY <1>1
<1>3. value(a) = value(b)
  <2> HIDE DEF missing
  <2> QED
    BY <1>2
<1>4. \A vs : Env!Interpolate(text, vs) = [ok |-> missing(vs) = {}, missing |-> missing(vs), value |-> value(vs)]
  BY DEF Env!Interpolate
<1> HIDE DEF missing, value
<1> QED
  BY <1>2, <1>3, <1>4

LEMMA SanitizedFacts ==
  ASSUME NEW e \in EnvRecord
  PROVE  LET clean == Env!Sanitized(e)
         IN  clean \in EnvRecord /\ clean.id = e.id /\ Env!Meanings(clean) = Env!Meanings(e)
<1> DEFINE clean == Env!Sanitized(e)
           kept == {i \in DOMAIN e.vars : e.vars[i].key # InvalidKey}
           usable == {i \in DOMAIN e.profiles : e.profiles[i].named /\ e.profiles[i].url # <<>>}
           V == Seq(Env!Variable)
           P == Seq(Env!Profile)
<1>1. e \in [id : Nat, named : BOOLEAN, preset : BOOLEAN, vars : V, profiles : P]
  BY DEF EnvRecord
<1>2. clean = [e EXCEPT !.vars = Kept(e.vars, kept), !.profiles = Kept(e.profiles, usable)]
  BY EnvKept DEF Env!Sanitized, Env!UsableProfiles
<1>3. kept \subseteq DOMAIN e.vars /\ usable \subseteq DOMAIN e.profiles
  OBVIOUS
<1>4. \A i \in DOMAIN e.vars, key \in Env!ValidKeys : e.vars[i].key = key => i \in kept
  BY KeysAssumption
<1> HIDE DEF clean, kept, usable
<1>5. Kept(e.vars, kept) \in Seq(Env!Variable) /\ Kept(e.profiles, usable) \in Seq(Env!Profile)
  BY <1>1, <1>3, KeptFacts DEF V, P
<1>6. \A key \in Env!ValidKeys : Env!Lookup(Kept(e.vars, kept), key) = Env!Lookup(e.vars, key)
  <2> TAKE key \in Env!ValidKeys
  <2>1. e.vars \in Seq(Env!Variable)
    BY <1>1 DEF V
  <2> QED
    BY <1>3, <1>4, <2>1, LookupFacts
<1>7. clean \in EnvRecord /\ clean.id = e.id /\ clean.vars = Kept(e.vars, kept)
  <2> HIDE DEF V, P
  <2>1. Kept(e.vars, kept) \in V /\ Kept(e.profiles, usable) \in P
    BY <1>5 DEF V, P
  <2> QED
    BY <1>1, <1>2, <2>1 DEF EnvRecord, V, P
<1>8. \A t \in Env!Templates : Env!Interpolate(t, clean.vars) = Env!Interpolate(t, e.vars)
  BY <1>6, <1>7, InterpolateFacts
<1>9. Env!Meanings(clean) = Env!Meanings(e)
  BY <1>8 DEF Env!Meanings
<1> QED
  BY <1>7, <1>9 DEF clean

(***************************************************************************)
(* The named entries are those that are left, each cleaned up.             *)
(***************************************************************************)
IsCleanedUp(next, list, o) ==
  /\ \A k \in DOMAIN next : o[k] \in DOMAIN list /\ next[k] = Env!Sanitized(list[o[k]])
  /\ \A k, l \in DOMAIN next : o[k] = o[l] => k = l
  /\ \A i \in DOMAIN list : list[i].named => \E k \in DOMAIN next : o[k] = i

LEMMA SanitizedListFacts ==
  ASSUME NEW list \in Seq(EnvRecord)
  PROVE  LET next == Env!SanitizedList(list)
         IN  next \in Seq(EnvRecord) /\ \E o : IsCleanedUp(next, list, o)
<1> DEFINE next == Env!SanitizedList(list)
           kept == {i \in DOMAIN list : list[i].named}
           named == Kept(list, kept)
<1>1. next = [i \in DOMAIN named |-> Env!Sanitized(named[i])]
  BY EnvKept DEF Env!SanitizedList
<1>2. kept \subseteq DOMAIN list /\ \A i \in DOMAIN list : list[i].named => i \in kept
  OBVIOUS
<1> HIDE DEF next, kept
<1>3. named \in Seq(EnvRecord) /\ IsFiltering(named, list, kept)
  BY <1>2, KeptFacts
<1> HIDE DEF named
<1>4. Len(named) \in Nat /\ DOMAIN named = 1 .. Len(named) /\ \A k \in 1 .. Len(named) : named[k] \in EnvRecord
  BY <1>3, LenProperties, ElementOfSeq
<1>5. \A k \in 1 .. Len(named) : Env!Sanitized(named[k]) \in EnvRecord
  BY <1>4, SanitizedFacts
<1>6. next \in [1 .. Len(named) -> EnvRecord]
  BY <1>1, <1>4, <1>5
<1>7. next \in Seq(EnvRecord) /\ DOMAIN next = 1 .. Len(named)
  BY <1>4, <1>6, SeqDef
<1>8. PICK o \in [1 .. Len(named) -> kept] :
        /\ \A k \in 1 .. Len(named) : named[k] = list[o[k]]
        /\ \A k, l \in 1 .. Len(named) : o[k] = o[l] => k = l
        /\ \A i \in kept : \E k \in 1 .. Len(named) : o[k] = i
  BY <1>3 DEF IsFiltering
<1>9. \A k \in DOMAIN next : o[k] \in DOMAIN list /\ next[k] = Env!Sanitized(list[o[k]])
  BY <1>1, <1>2, <1>4, <1>7, <1>8
<1>10. IsCleanedUp(next, list, o)
  BY <1>2, <1>7, <1>8, <1>9 DEF IsCleanedUp
<1> QED
  BY <1>7, <1>10 DEF next

(***************************************************************************)
(* What comes back from a file or from the storage.                        *)
(***************************************************************************)
LEMMA PresetFacts ==
  ASSUME NEW id \in Nat, NEW token \in Values, NEW some \in Values,
         NEW url \in Seq(Env!ValidKeys \cup {Literal} \cup Values)
  PROVE  Env!Preset(id, token, url, some) \in EnvRecord /\ Env!Preset(id, token, url, some).id = id
<1> DEFINE a == Env!Var("base_url", some, FALSE)
           b == Env!Var("auth_token", token, TRUE)
           p == Env!ProfileOf(url)
           vs == <<a, b>>
           ps == <<p>>
<1>1. a \in Env!Variable /\ b \in Env!Variable
  BY DEF Env!Var, Env!Variable, Env!Keys, Env!ValidKeys
<1>2. p \in Env!Profile
  BY DEF Env!ProfileOf, Env!Profile
<1> HIDE DEF a, b, p
<1>3. vs \in Seq(Env!Variable)
  BY <1>1
<1>4. ps \in Seq(Env!Profile)
  BY <1>2
<1>5. Env!Preset(id, token, url, some) = [id |-> id, named |-> TRUE, preset |-> TRUE, vars |-> vs, profiles |-> ps]
  BY DEF Env!Preset, a, b, p
<1> DEFINE V == Seq(Env!Variable)
           P == Seq(Env!Profile)
<1>6. vs \in V /\ ps \in P
  BY <1>3, <1>4
<1> HIDE DEF vs, ps, V, P
<1> QED
  BY <1>5, <1>6 DEF EnvRecord, V, P

LEMMA DefaultFacts ==
  LET list == Env!DefaultEnvironments
  IN  list \in Seq(EnvRecord) /\ DOMAIN list = 1 .. 3 /\ \A i \in 1 .. 3 : list[i].id = i
<1> DEFINE withToken == <<"base_url", Literal, "auth_token">>
           texts == Env!ValidKeys \cup {Literal} \cup Values
           first == Env!Preset(1, Env!SomeValue, Env!BaseUrl, Env!SomeValue)
           second == Env!Preset(2, "", withToken, Env!SomeValue)
           third == Env!Preset(3, "", withToken, Env!SomeValue)
<1>1. {"base_url", "auth_token", Literal} \subseteq texts
  BY DEF Env!ValidKeys
<1> HIDE DEF texts
<1>2. Env!BaseUrl \in Seq(texts) /\ withToken \in Seq(texts)
  BY <1>1 DEF Env!BaseUrl
<1> HIDE DEF withToken
<1>3. Env!SomeValue \in Values /\ "" \in Values
  BY KeysAssumption DEF Env!SomeValue
<1>4. /\ first \in EnvRecord /\ first.id = 1 /\ second \in EnvRecord /\ second.id = 2
      /\ third \in EnvRecord /\ third.id = 3
  BY <1>2, <1>3, PresetFacts DEF texts
<1>5. Env!DefaultEnvironments = <<first, second, third>>
  BY DEF Env!DefaultEnvironments, withToken
<1> HIDE DEF first, second, third
<1>6. \A i \in 1 .. 3 : i = 1 \/ i = 2 \/ i = 3
  OBVIOUS
<1> QED
  BY <1>4, <1>5, <1>6

LEMMA NormalizedFacts ==
  ASSUME NEW list, NEW n \in Nat, n >= 4, EnvList(list, n), NEW id
  PROVE  LET new == Env!Normalized(list, id)
         IN  /\ EnvList(new.environments, n)
             /\ new.active \in Env!Ids(new.environments)
             /\ id \in Env!Ids(new.environments) => new.active = id
             /\ Env!KeepsMeaning(list, new.environments)
<1> DEFINE clean == Env!SanitizedList(list)
           next == IF clean = <<>> THEN Env!DefaultEnvironments ELSE clean
<1>1. clean \in Seq(EnvRecord)
  BY SanitizedListFacts DEF EnvList
<1>2. PICK o : IsCleanedUp(clean, list, o)
  BY SanitizedListFacts DEF EnvList
<1>3. /\ Env!Normalized(list, id).environments = next
      /\ Env!Normalized(list, id).active = IF id \in Env!Ids(next) THEN id ELSE next[1].id
  BY DEF Env!Normalized
<1> HIDE DEF clean
<1>4. \A i \in DOMAIN list : list[i] \in EnvRecord
  BY ElementOfSeq, LenProperties DEF EnvList
<1>5. \A k \in DOMAIN clean : o[k] \in DOMAIN list /\ clean[k].id = list[o[k]].id
                              /\ Env!Meanings(clean[k]) = Env!Meanings(list[o[k]])
  BY <1>2, <1>4, SanitizedFacts DEF IsCleanedUp
<1>6. EnvList(clean, n)
  <2>1. \A k, l \in DOMAIN clean : o[k] = o[l] => k = l
    BY <1>2 DEF IsCleanedUp
  <2>2. /\ \A i \in DOMAIN list : list[i].id < n
        /\ \A i, j \in DOMAIN list : list[i].id = list[j].id => i = j
    BY DEF EnvList
  <2>3. \A k \in DOMAIN clean : clean[k].id < n
    BY <1>5, <2>2
  <2>4. \A k, l \in DOMAIN clean : clean[k].id = clean[l].id => k = l
    BY <1>5, <2>1, <2>2
  <2> QED
    BY <1>1, <2>3, <2>4 DEF EnvList
<1>7. EnvList(Env!DefaultEnvironments, n)
  BY DefaultFacts DEF EnvList
<1>8. EnvList(next, n) /\ next # <<>>
  <2>1. Env!DefaultEnvironments # <<>>
    <3>1. DOMAIN Env!DefaultEnvironments = 1 .. 3
      BY DefaultFacts
    <3>2. DOMAIN <<>> = {} /\ 1 \in 1 .. 3
      OBVIOUS
    <3> QED
      BY <3>1, <3>2
  <2> QED
    BY <1>6, <1>7, <2>1
<1>9. Env!KeepsMeaning(list, next)
  <2> SUFFICES ASSUME NEW i \in DOMAIN list, list[i].named
               PROVE  \E j \in DOMAIN next : next[j].id = list[i].id /\ Env!Meanings(next[j]) = Env!Meanings(list[i])
    BY DEF Env!KeepsMeaning
  <2>1. PICK k \in DOMAIN clean : o[k] = i
    BY <1>2 DEF IsCleanedUp
  <2>2. clean # <<>>
    BY <2>1
  <2>3. next = clean
    BY <2>2
  <2> HIDE DEF next
  <2> QED
    BY <1>5, <2>1, <2>3
<1> HIDE DEF next
<1>10. 1 \in DOMAIN next
  BY <1>8, EmptySeq, LenProperties DEF EnvList
<1>11. next[1].id \in Env!Ids(next)
  BY <1>10, EnvIdsFacts
<1> QED
  BY <1>3, <1>8, <1>9, <1>11

----------------------------------------------------------------------------

(***************************************************************************)
(* A restart or an import leaves the invariant, and the meanings.          *)
(***************************************************************************)
LEMMA NormalizedKeeps ==
  ASSUME EnvInv, Env!HandleImport \/ Env!Restart
  PROVE  EnvInv'
<1>1. PICK id : /\ environments' = Env!Normalized(environments, id).environments
                /\ active' = Env!Normalized(environments, id).active
                /\ edits' = edits
  BY DEF Env!HandleImport, Env!Restart
<1>2. 4 + edits \in Nat /\ 4 + edits >= 4
  BY EnvInvFacts
<1>3. EnvList(environments, 4 + edits)
  BY DEF EnvInv
<1>4. EnvList(environments', 4 + edits) /\ active' \in Env!Ids(environments')
  BY <1>1, <1>2, <1>3, NormalizedFacts
<1>5. Env!Ids(environments') = Env!Ids(environments)'
  BY DEF Env!Ids, Env!ToSet
<1>6. EnvList(environments', 4 + edits') <=> EnvList(environments, 4 + edits)'
  BY DEF EnvList
<1> QED
  BY <1>1, <1>4, <1>5, <1>6 DEF EnvInv

LEMMA MeaningsKept ==
  ASSUME EnvInv
  PROVE  Env!RestoredAlike /\ Env!ImportedAlike
<1>1. 4 + edits \in Nat /\ 4 + edits >= 4 /\ EnvList(environments, 4 + edits)
  BY EnvInvFacts DEF EnvInv
<1>2. ASSUME Env!HandleImport PROVE Env!KeepsMeaning(environments, environments')
  BY <1>1, <1>2, NormalizedFacts DEF Env!HandleImport
<1>3. ASSUME Env!Restart PROVE Env!KeepsMeaning(environments, environments')
  BY <1>1, <1>3, NormalizedFacts DEF Env!Restart
<1>4. ASSUME Env!Restart, Env!Current.named PROVE active' = active
  <2>1. PICK i \in DOMAIN environments : environments[i] = Env!Current /\ environments[i].id = active
    BY ActiveFacts
  <2>2. PICK j \in DOMAIN environments' : environments'[j].id = active
    BY <1>3, <1>4, <2>1 DEF Env!KeepsMeaning
  <2>3. active \in Env!Ids(environments')
    BY <2>2, EnvIdsFacts
  <2> QED
    BY <1>1, <1>4, <2>3, NormalizedFacts DEF Env!Restart
<1> QED
  BY <1>2, <1>3, <1>4 DEF Env!RestoredAlike, Env!ImportedAlike

----------------------------------------------------------------------------
(* One lemma per operation on the environments *)

(***************************************************************************)
(* An operation of the manager puts e in the place of the active entry.    *)
(***************************************************************************)
Replaced(e) ==
  [i \in DOMAIN environments |-> IF environments[i].id = active THEN e ELSE environments[i]]

LEMMA UpdateKeeps ==
  ASSUME EnvInv, Env!Edit, active' = active, NEW e \in EnvRecord, e.id = active, environments' = Replaced(e)
  PROVE  EnvInv'
<1>1. /\ environments \in Seq(EnvRecord) /\ edits \in Nat /\ edits' = edits + 1 /\ edits' \in 0 .. MaxEdits
      /\ \A i \in DOMAIN environments : environments[i].id < 4 + edits /\ environments[i].id \in Nat
      /\ \A i, j \in DOMAIN environments : environments[i].id = environments[j].id => i = j
  <2>1. \A i \in DOMAIN environments : environments[i] \in EnvRecord
    BY ElementOfSeq, LenProperties DEF EnvInv, EnvList
  <2>2. edits \in Nat /\ edits' = edits + 1 /\ edits < MaxEdits
    BY EnvInvFacts DEF Env!Edit
  <2>3. edits' \in 0 .. MaxEdits
    BY <2>2, EditsAssumption
  <2> QED
    BY <2>1, <2>2, <2>3 DEF EnvInv, EnvList, EnvRecord
<1>2. Len(environments) \in Nat /\ DOMAIN environments = 1 .. Len(environments)
  BY <1>1, LenProperties
<1>3. /\ DOMAIN environments' = DOMAIN environments
      /\ \A i \in DOMAIN environments : environments'[i] \in EnvRecord /\ environments'[i].id = environments[i].id
  <2>1. \A i \in DOMAIN environments : environments[i] \in EnvRecord
    BY <1>1, ElementOfSeq, LenProperties
  <2> QED
    BY <2>1 DEF Replaced
<1>4. environments' \in Seq(EnvRecord)
  <2>1. environments' \in [1 .. Len(environments) -> EnvRecord]
    BY <1>2, <1>3 DEF Replaced
  <2> QED
    BY <1>2, <2>1, SeqDef
<1>5. \A i \in DOMAIN environments : environments[i].id < 4 + (edits + 1)
  BY <1>1
<1>6. EnvList(environments, 4 + edits)'
  BY <1>1, <1>3, <1>4, <1>5 DEF EnvList
<1>7. (active \in Env!Ids(environments))'
  <2>1. PICK i \in DOMAIN environments : environments[i].id = active
    BY EnvIdsFacts DEF EnvInv
  <2>2. i \in DOMAIN environments' /\ environments'[i].id = active'
    BY <1>3, <2>1
  <2> QED
    BY <2>2 DEF Env!Ids, Env!ToSet
<1> QED
  BY <1>1, <1>6, <1>7 DEF EnvInv

LEMMA RenameKeeps ==
  ASSUME EnvInv, Env!RenameEnvironment
  PROVE  EnvInv'
<1>1. PICK b \in BOOLEAN :
        environments' = [i \in DOMAIN environments |->
          IF environments[i].id = active THEN [environments[i] EXCEPT !.named = b] ELSE environments[i]]
  BY DEF Env!RenameEnvironment, Env!Update
<1>2. Env!Edit /\ active' = active
  BY DEF Env!RenameEnvironment, Env!Update
<1> DEFINE e == [Env!Current EXCEPT !.named = b]
<1>3. environments' = Replaced(e)
  BY <1>1, ActiveFacts DEF Replaced
<1>4. e \in EnvRecord /\ e.id = active
  BY ActiveFacts DEF EnvRecord
<1> HIDE DEF e
<1> QED
  BY <1>2, <1>3, <1>4, UpdateKeeps

LEMMA WithVars ==
  ASSUME NEW e \in EnvRecord, NEW vs \in Seq(Env!Variable)
  PROVE  [e EXCEPT !.vars = vs] \in EnvRecord /\ [e EXCEPT !.vars = vs].id = e.id
<1> DEFINE V == Seq(Env!Variable)
           P == Seq(Env!Profile)
<1>1. e \in [id : Nat, named : BOOLEAN, preset : BOOLEAN, vars : V, profiles : P] /\ vs \in V
  BY DEF EnvRecord
<1> HIDE DEF V, P
<1>2. /\ [e EXCEPT !.vars = vs] \in [id : Nat, named : BOOLEAN, preset : BOOLEAN, vars : V, profiles : P]
      /\ [e EXCEPT !.vars = vs].id = e.id
  BY <1>1
<1> QED
  BY <1>2 DEF EnvRecord, V, P

LEMMA WithProfiles ==
  ASSUME NEW e \in EnvRecord, NEW ps \in Seq(Env!Profile)
  PROVE  [e EXCEPT !.profiles = ps] \in EnvRecord /\ [e EXCEPT !.profiles = ps].id = e.id
<1> DEFINE V == Seq(Env!Variable)
           P == Seq(Env!Profile)
<1>1. e \in [id : Nat, named : BOOLEAN, preset : BOOLEAN, vars : V, profiles : P] /\ ps \in P
  BY DEF EnvRecord
<1> HIDE DEF V, P
<1>2. /\ [e EXCEPT !.profiles = ps] \in [id : Nat, named : BOOLEAN, preset : BOOLEAN, vars : V, profiles : P]
      /\ [e EXCEPT !.profiles = ps].id = e.id
  BY <1>1
<1> QED
  BY <1>2 DEF EnvRecord, V, P

LEMMA CurrentFacts ==
  ASSUME EnvInv
  PROVE  Env!Current.vars \in Seq(Env!Variable) /\ Env!Current.profiles \in Seq(Env!Profile)
BY ActiveFacts DEF EnvRecord

LEMMA RemoveFacts ==
  ASSUME NEW S, NEW list \in Seq(S), NEW i \in DOMAIN list
  PROVE  Env!RemoveAt(list, i) \in Seq(S)
<1>1. Len(list) \in Nat /\ i \in 1 .. Len(list) /\ \A j \in 1 .. Len(list) : list[j] \in S
  BY LenProperties, ElementOfSeq
<1>2. SubSeq(list, 1, i - 1) \in Seq(S)
  BY <1>1, SubSeqProperties
<1>3. SubSeq(list, i + 1, Len(list)) \in Seq(S)
  BY <1>1, SubSeqProperties
<1> QED
  BY <1>2, <1>3, ConcatProperties DEF Env!RemoveAt

LEMMA ReplaceFacts ==
  ASSUME NEW S, NEW list \in Seq(S), NEW i \in DOMAIN list, NEW x \in S
  PROVE  [list EXCEPT ![i] = x] \in Seq(S)
<1>1. i \in 1 .. Len(list)
  BY LenProperties
<1> QED
  BY <1>1, ExceptSeq

LEMMA AddProfileKeeps ==
  ASSUME EnvInv, Env!AddConnectionProfile
  PROVE  EnvInv'
<1> DEFINE new == Append(Env!Current.profiles, Env!ProfileOf(Env!BaseUrl))
           e == [Env!Current EXCEPT !.profiles = new]
<1>1. environments' = Replaced(e)
  BY ActiveFacts DEF Env!AddConnectionProfile, Env!Update, Replaced
<1>2. Env!Edit /\ active' = active
  BY DEF Env!AddConnectionProfile, Env!Update
<1>3. Env!ProfileOf(Env!BaseUrl) \in Env!Profile
  BY DEF Env!ProfileOf, Env!BaseUrl, Env!Profile, Env!ValidKeys
<1>4. new \in Seq(Env!Profile)
  BY <1>3, CurrentFacts, AppendProperties
<1> HIDE DEF new
<1>5. e \in EnvRecord /\ e.id = active
  BY <1>4, ActiveFacts, WithProfiles
<1> HIDE DEF e
<1> QED
  BY <1>1, <1>2, <1>5, UpdateKeeps

LEMMA UpdateProfileKeeps ==
  ASSUME EnvInv, Env!UpdateConnectionProfile
  PROVE  EnvInv'
<1>1. PICK i \in DOMAIN Env!Current.profiles :
        \/ \E b \in BOOLEAN : Env!Update(LAMBDA e : [e EXCEPT !.profiles[i].named = b])
        \/ \E u \in Env!TypedUrls : Env!Update(LAMBDA e : [e EXCEPT !.profiles[i].url = u])
  BY DEF Env!UpdateConnectionProfile
<1>2. Env!Edit /\ active' = active
  BY <1>1 DEF Env!Update
<1> DEFINE p == Env!Current.profiles[i]
           With(x) == [Env!Current EXCEPT !.profiles = [Env!Current.profiles EXCEPT ![i] = x]]
<1>3. p \in Env!Profile
  BY <1>1, CurrentFacts, ElementOfSeq, LenProperties
<1>4. ASSUME NEW x \in Env!Profile, environments' = Replaced(With(x)) PROVE EnvInv'
  <2> DEFINE new == [Env!Current.profiles EXCEPT ![i] = x]
             e == With(x)
  <2>1. new \in Seq(Env!Profile)
    BY <1>1, CurrentFacts, ReplaceFacts
  <2> HIDE DEF new
  <2>2. e \in EnvRecord /\ e.id = active
    BY <2>1, ActiveFacts, WithProfiles DEF new
  <2> HIDE DEF e
  <2> QED
    BY <1>2, <1>4, <2>2, UpdateKeeps DEF e
<1>5. ASSUME NEW b \in BOOLEAN, Env!Update(LAMBDA e : [e EXCEPT !.profiles[i].named = b]) PROVE EnvInv'
  <2> DEFINE x == [p EXCEPT !.named = b]
  <2>1. environments' = Replaced(With(x))
    BY <1>5, ActiveFacts DEF Env!Update, Replaced
  <2>2. x \in Env!Profile
    BY <1>3 DEF Env!Profile
  <2> HIDE DEF x, With
  <2> QED
    BY <1>4, <2>1, <2>2
<1>6. ASSUME NEW u \in Env!TypedUrls,
             Env!Update(LAMBDA e : [e EXCEPT !.profiles[i].url = u]) PROVE EnvInv'
  <2> DEFINE x == [p EXCEPT !.url = u]
  <2>1. environments' = Replaced(With(x))
    BY <1>6, ActiveFacts DEF Env!Update, Replaced
  <2> DEFINE T == Env!ValidKeys \cup {Literal} \cup Values
             U == Seq(T)
  <2>4. "base_url" \in T /\ Values \subseteq T
    BY DEF Env!ValidKeys
  <2>5. u = <<>> \/ u = <<"base_url">> \/ \E v \in Values : u = <<v>> \/ u = <<"base_url", v>>
    BY <1>6 DEF Env!TypedUrls, Env!BaseUrl
  <2> HIDE DEF T
  <2>6. <<>> \in U /\ <<"base_url">> \in U /\ \A v \in Values : <<v>> \in U /\ <<"base_url", v>> \in U
    BY <2>4, EmptySeq
  <2>2. u \in U
    BY <2>5, <2>6
  <2> HIDE DEF U
  <2>3. x \in Env!Profile
    BY <1>3, <2>2 DEF Env!Profile, T, U
  <2> HIDE DEF x, With
  <2> QED
    BY <1>4, <2>1, <2>3
<1> QED
  BY <1>1, <1>5, <1>6

LEMMA DeleteProfileKeeps ==
  ASSUME EnvInv, Env!DeleteConnectionProfile
  PROVE  EnvInv'
<1>1. PICK i \in DOMAIN Env!Current.profiles :
        Env!Update(LAMBDA e : [e EXCEPT !.profiles = Env!RemoveAt(@, i)])
  BY DEF Env!DeleteConnectionProfile
<1> DEFINE new == Env!RemoveAt(Env!Current.profiles, i)
           e == [Env!Current EXCEPT !.profiles = new]
<1>2. Env!Edit /\ active' = active
  BY <1>1 DEF Env!Update
<1>3. environments' = Replaced(e)
  BY <1>1, ActiveFacts DEF Env!Update, Replaced
<1>4. new \in Seq(Env!Profile)
  BY <1>1, CurrentFacts, RemoveFacts
<1> HIDE DEF new
<1>5. e \in EnvRecord /\ e.id = active
  BY <1>4, ActiveFacts, WithProfiles
<1> HIDE DEF e
<1> QED
  BY <1>2, <1>3, <1>5, UpdateKeeps

LEMMA UniqueKeyFacts ==
  ASSUME NEW vs, \E k \in Env!ToSet(SetToSeq(VariableKeys)) : \A i \in DOMAIN vs : vs[i].key # k
  PROVE  Env!UniqueKey(vs) \in Env!ValidKeys
<1> DEFINE keys == SetToSeq(VariableKeys)
           unused == {n \in DOMAIN keys : \A i \in DOMAIN vs : vs[i].key # keys[n]}
<1>1. keys \in Seq(VariableKeys)
  <2>1. Cardinality(VariableKeys) \in Nat /\ ExistsBijection(1 .. Cardinality(VariableKeys), VariableKeys)
    BY KeysAssumption, FS_CardinalityType
  <2>2. \E f \in [1 .. Cardinality(VariableKeys) -> VariableKeys] : IsInjective(f)
    BY <2>1 DEF ExistsBijection, Bijection, Injection
  <2>3. keys \in [1 .. Cardinality(VariableKeys) -> VariableKeys]
    BY <2>2 DEF SetToSeq
  <2> QED
    BY <2>1, <2>3, SeqDef
<1>2. Env!ToSet(keys) = {keys[n] : n \in DOMAIN keys}
  BY DEF Env!ToSet
<1> HIDE DEF keys
<1>3. unused # {} /\ unused \subseteq DOMAIN keys
  BY <1>2 DEF keys
<1>4. Env!UniqueKey(vs) = keys[Min(unused)]
  BY EnvMin DEF Env!UniqueKey, keys
<1> HIDE DEF unused
<1>5. Min(unused) \in DOMAIN keys
  BY <1>1, <1>3, MinFacts
<1>6. Env!UniqueKey(vs) \in Env!ToSet(keys)
  BY <1>2, <1>4, <1>5
<1> QED
  BY <1>6 DEF Env!ValidKeys, keys

LEMMA AddVariableKeeps ==
  ASSUME EnvInv, Env!AddVariable
  PROVE  EnvInv'
<1> DEFINE v == Env!Var(Env!UniqueKey(Env!Current.vars), "", FALSE)
           new == Append(Env!Current.vars, v)
           e == [Env!Current EXCEPT !.vars = new]
<1>1. environments' = Replaced(e)
  BY ActiveFacts DEF Env!AddVariable, Env!Update, Replaced
<1>2. Env!Edit /\ active' = active
  BY DEF Env!AddVariable, Env!Update
<1>3. Env!UniqueKey(Env!Current.vars) \in Env!ValidKeys
  BY UniqueKeyFacts DEF Env!AddVariable
<1>4. v \in Env!Variable
  BY <1>3, KeysAssumption DEF Env!Var, Env!Variable, Env!Keys
<1> HIDE DEF v
<1>5. new \in Seq(Env!Variable)
  BY <1>4, CurrentFacts, AppendProperties
<1> HIDE DEF new
<1>6. e \in EnvRecord /\ e.id = active
  BY <1>5, ActiveFacts, WithVars
<1> HIDE DEF e
<1> QED
  BY <1>1, <1>2, <1>6, UpdateKeeps

LEMMA UpdateVariableKeeps ==
  ASSUME EnvInv, Env!UpdateVariable
  PROVE  EnvInv'
<1>1. PICK i \in DOMAIN Env!Current.vars :
        \/ \E k \in Env!Keys : Env!Update(LAMBDA e : [e EXCEPT !.vars[i].key = k])
        \/ \E v \in Values : Env!Update(LAMBDA e : [e EXCEPT !.vars[i].value = v])
        \/ Env!Update(LAMBDA e : [e EXCEPT !.vars[i].secret = ~@])
  BY DEF Env!UpdateVariable
<1>2. Env!Edit /\ active' = active
  BY <1>1 DEF Env!Update
<1> DEFINE p == Env!Current.vars[i]
           With(x) == [Env!Current EXCEPT !.vars = [Env!Current.vars EXCEPT ![i] = x]]
<1>3. p \in Env!Variable
  BY <1>1, CurrentFacts, ElementOfSeq, LenProperties
<1>4. ASSUME NEW x \in Env!Variable, environments' = Replaced(With(x)) PROVE EnvInv'
  <2> DEFINE new == [Env!Current.vars EXCEPT ![i] = x]
             e == With(x)
  <2>1. new \in Seq(Env!Variable)
    BY <1>1, CurrentFacts, ReplaceFacts
  <2> HIDE DEF new
  <2>2. e \in EnvRecord /\ e.id = active
    BY <2>1, ActiveFacts, WithVars DEF new
  <2> HIDE DEF e
  <2> QED
    BY <1>2, <1>4, <2>2, UpdateKeeps DEF e
<1>5. ASSUME NEW k \in Env!Keys, Env!Update(LAMBDA e : [e EXCEPT !.vars[i].key = k]) PROVE EnvInv'
  <2> DEFINE x == [p EXCEPT !.key = k]
  <2>1. environments' = Replaced(With(x))
    BY <1>5, ActiveFacts DEF Env!Update, Replaced
  <2>2. x \in Env!Variable
    BY <1>3 DEF Env!Variable
  <2> HIDE DEF x, With
  <2> QED
    BY <1>4, <2>1, <2>2
<1>6. ASSUME NEW v \in Values, Env!Update(LAMBDA e : [e EXCEPT !.vars[i].value = v]) PROVE EnvInv'
  <2> DEFINE x == [p EXCEPT !.value = v]
  <2>1. environments' = Replaced(With(x))
    BY <1>6, ActiveFacts DEF Env!Update, Replaced
  <2>2. x \in Env!Variable
    BY <1>3 DEF Env!Variable
  <2> HIDE DEF x, With
  <2> QED
    BY <1>4, <2>1, <2>2
<1>7. ASSUME Env!Update(LAMBDA e : [e EXCEPT !.vars[i].secret = ~@]) PROVE EnvInv'
  <2> DEFINE x == [p EXCEPT !.secret = ~@]
  <2>1. environments' = Replaced(With(x))
    BY <1>7, ActiveFacts DEF Env!Update, Replaced
  <2>2. x \in Env!Variable
    BY <1>3 DEF Env!Variable
  <2> HIDE DEF x, With
  <2> QED
    BY <1>4, <2>1, <2>2
<1> QED
  BY <1>1, <1>5, <1>6, <1>7

LEMMA DeleteVariableKeeps ==
  ASSUME EnvInv, Env!DeleteVariable
  PROVE  EnvInv'
<1>1. PICK i \in DOMAIN Env!Current.vars :
        Env!Update(LAMBDA e : [e EXCEPT !.vars = Env!RemoveAt(@, i)])
  BY DEF Env!DeleteVariable
<1> DEFINE new == Env!RemoveAt(Env!Current.vars, i)
           e == [Env!Current EXCEPT !.vars = new]
<1>2. Env!Edit /\ active' = active
  BY <1>1 DEF Env!Update
<1>3. environments' = Replaced(e)
  BY <1>1, ActiveFacts DEF Env!Update, Replaced
<1>4. new \in Seq(Env!Variable)
  BY <1>1, CurrentFacts, RemoveFacts
<1> HIDE DEF new
<1>5. e \in EnvRecord /\ e.id = active
  BY <1>4, ActiveFacts, WithVars
<1> HIDE DEF e
<1> QED
  BY <1>2, <1>3, <1>5, UpdateKeeps

(***************************************************************************)
(* An environment that is added gets an id of its own and is the active    *)
(* one.                                                                    *)
(***************************************************************************)
LEMMA AppendedKeeps ==
  ASSUME EnvInv, Env!Edit, NEW e \in EnvRecord, e.id = 4 + edits,
         environments' = Append(environments, e), active' = e.id
  PROVE  EnvInv'
<1>1. /\ environments \in Seq(EnvRecord) /\ edits \in Nat /\ edits' = edits + 1 /\ edits' \in 0 .. MaxEdits
  BY EnvInvFacts, EditsAssumption DEF Env!Edit, EnvInv, EnvList
<1>2. /\ environments' \in Seq(EnvRecord) /\ Len(environments') = Len(environments) + 1
      /\ \A i \in 1 .. Len(environments) : environments'[i] = environments[i]
      /\ environments'[Len(environments) + 1] = e
  BY <1>1, AppendProperties
<1>3. /\ Len(environments) \in Nat /\ DOMAIN environments = 1 .. Len(environments)
      /\ DOMAIN environments' = 1 .. Len(environments) + 1
  BY <1>1, <1>2, LenProperties
<1>4. /\ \A i \in 1 .. Len(environments) : environments[i].id < 4 + edits /\ environments[i].id \in Nat
      /\ \A i, j \in 1 .. Len(environments) : environments[i].id = environments[j].id => i = j
  <2>1. \A i \in 1 .. Len(environments) : environments[i] \in EnvRecord
    BY <1>1, ElementOfSeq
  <2> QED
    BY <1>3, <2>1 DEF EnvInv, EnvList, EnvRecord
<1>5. \A i \in DOMAIN environments' : \/ i \in 1 .. Len(environments) /\ environments'[i] = environments[i]
                                      \/ i = Len(environments) + 1 /\ environments'[i] = e
  BY <1>2, <1>3
<1>6. \A i \in DOMAIN environments' : environments'[i].id < 4 + edits'
  BY <1>1, <1>4, <1>5
<1>7. \A i, j \in DOMAIN environments' : environments'[i].id = environments'[j].id => i = j
  BY <1>1, <1>4, <1>5
<1>8. EnvList(environments, 4 + edits)'
  BY <1>2, <1>6, <1>7 DEF EnvList
<1>9. (active \in Env!Ids(environments))'
  <2>1. Len(environments) + 1 \in DOMAIN environments' /\ environments'[Len(environments) + 1].id = active'
    BY <1>2, <1>3
  <2> QED
    BY <2>1 DEF Env!Ids, Env!ToSet
<1> QED
  BY <1>1, <1>8, <1>9 DEF EnvInv

LEMMA AddKeeps ==
  ASSUME EnvInv, Env!AddEnvironment
  PROVE  EnvInv'
<1> DEFINE v == Env!Var("base_url", Env!SomeValue, FALSE)
           p == Env!ProfileOf(Env!BaseUrl)
           e == Env!CreateEnvironment(4 + edits)
           V == Seq(Env!Variable)
           P == Seq(Env!Profile)
<1>1. v \in Env!Variable
  BY KeysAssumption DEF Env!SomeValue, Env!Var, Env!Variable, Env!Keys, Env!ValidKeys
<1>2. p \in Env!Profile
  BY DEF Env!ProfileOf, Env!BaseUrl, Env!Profile, Env!ValidKeys
<1>3. e = [id |-> 4 + edits, named |-> TRUE, preset |-> FALSE, vars |-> <<v>>, profiles |-> <<p>>]
  BY DEF Env!CreateEnvironment
<1>4. /\ Env!Edit /\ environments' = Append(environments, e) /\ active' = 4 + edits
  BY DEF Env!AddEnvironment, Env!NewId
<1> HIDE DEF v, p, e
<1>5. <<v>> \in V /\ <<p>> \in P
  BY <1>1, <1>2
<1>6. 4 + edits \in Nat
  BY EnvInvFacts
<1> HIDE DEF V, P
<1>7. e \in EnvRecord /\ e.id = 4 + edits
  BY <1>3, <1>5, <1>6 DEF EnvRecord, V, P
<1> QED
  BY <1>4, <1>7, AppendedKeeps

LEMMA DuplicateKeeps ==
  ASSUME EnvInv, Env!DuplicateEnvironment
  PROVE  EnvInv'
<1> DEFINE e == Env!DuplicateOf(Env!Current, 4 + edits)
           V == Seq(Env!Variable)
           P == Seq(Env!Profile)
<1>1. /\ Env!Edit /\ environments' = Append(environments, e) /\ active' = 4 + edits
  BY DEF Env!DuplicateEnvironment, Env!NewId, Env!Current
<1>2. 4 + edits \in Nat /\ Env!Current \in [id : Nat, named : BOOLEAN, preset : BOOLEAN, vars : V, profiles : P]
  BY EnvInvFacts, ActiveFacts DEF EnvRecord
<1> HIDE DEF V, P
<1>3. e \in [id : Nat, named : BOOLEAN, preset : BOOLEAN, vars : V, profiles : P] /\ e.id = 4 + edits
  BY <1>2 DEF Env!DuplicateOf
<1> HIDE DEF e
<1>4. e \in EnvRecord
  BY <1>3 DEF EnvRecord, V, P
<1> QED
  BY <1>1, <1>3, <1>4, AppendedKeeps

LEMMA DeleteKeepsEnvironments ==
  ASSUME EnvInv, Env!DeleteEnvironment
  PROVE  EnvInv'
<1> DEFINE kept == {i \in DOMAIN environments : environments[i].id # active}
           others == Kept(environments, kept)
<1>1. /\ Len(environments) > 1 /\ environments' = others /\ edits' = edits
      /\ active' = Env!Active(others, active).id
  BY EnvKept DEF Env!DeleteEnvironment
<1>2. kept \subseteq DOMAIN environments /\ environments \in Seq(EnvRecord)
  BY DEF EnvInv, EnvList
<1>3. kept # {}
  <2>1. DOMAIN environments = 1 .. Len(environments) /\ Len(environments) \in Nat
    BY <1>2, LenProperties
  <2>2. 1 \in DOMAIN environments /\ 2 \in DOMAIN environments
    BY <1>1, <2>1
  <2>3. environments[1].id # active \/ environments[2].id # active
    BY <2>2 DEF EnvInv, EnvList
  <2> QED
    BY <2>2, <2>3
<1>4. \A i \in kept : environments[i].id # active
  OBVIOUS
<1> HIDE DEF kept
<1>5. others \in Seq(EnvRecord) /\ IsFiltering(others, environments, kept)
  BY <1>2, KeptFacts
<1> HIDE DEF others
<1>6. PICK o \in [1 .. Len(others) -> kept] :
        /\ \A k \in 1 .. Len(others) : others[k] = environments[o[k]]
        /\ \A k, l \in 1 .. Len(others) : o[k] = o[l] => k = l
        /\ \A i \in kept : \E k \in 1 .. Len(others) : o[k] = i
  BY <1>5 DEF IsFiltering
<1>7. Len(others) \in Nat /\ DOMAIN others = 1 .. Len(others)
  BY <1>5, LenProperties
<1>8. \A k \in DOMAIN others : o[k] \in DOMAIN environments /\ o[k] \in kept /\ others[k] = environments[o[k]]
  BY <1>2, <1>6, <1>7
<1>9. EnvList(others, 4 + edits)
  <2>1. /\ \A i \in DOMAIN environments : environments[i].id < 4 + edits
        /\ \A i, j \in DOMAIN environments : environments[i].id = environments[j].id => i = j
    BY DEF EnvInv, EnvList
  <2>2. \A k \in DOMAIN others : others[k].id < 4 + edits
    BY <1>8, <2>1
  <2>3. \A k, l \in DOMAIN others : others[k].id = others[l].id => k = l
    BY <1>6, <1>7, <1>8, <2>1
  <2> QED
    BY <1>5, <2>2, <2>3 DEF EnvList
<1>10. Env!Active(others, active) = others[1] /\ 1 \in DOMAIN others
  <2>1. {k \in DOMAIN others : others[k].id = active} = {}
    BY <1>4, <1>8
  <2>2. 1 \in DOMAIN others
    BY <1>3, <1>6, <1>7
  <2> QED
    BY <2>1, <2>2 DEF Env!Active
<1>11. EnvList(environments, 4 + edits)'
  BY <1>1, <1>9 DEF EnvList
<1>12. (active \in Env!Ids(environments))'
  BY <1>1, <1>10 DEF Env!Ids, Env!ToSet
<1> QED
  BY <1>1, <1>11, <1>12 DEF EnvInv

LEMMA SetActiveKeeps ==
  ASSUME EnvInv, Env!SetActiveEnvironment
  PROVE  EnvInv'
<1>1. active' \in Env!Ids(environments) /\ environments' = environments /\ edits' = edits
  BY DEF Env!SetActiveEnvironment
<1> QED
  BY <1>1 DEF EnvInv, EnvList, Env!Ids, Env!ToSet

LEMMA EnvInitHolds == Env!Init => EnvInv
<1> SUFFICES ASSUME Env!Init PROVE EnvInv
  OBVIOUS
<1>1. environments = Env!DefaultEnvironments /\ active = 1 /\ edits = 0
  BY DEF Env!Init
<1>2. EnvList(environments, 4 + edits)
  BY <1>1, DefaultFacts DEF EnvList
<1>3. active \in Env!Ids(environments)
  BY <1>1, DefaultFacts, EnvIdsFacts
<1> QED
  BY <1>1, <1>2, <1>3, EditsAssumption DEF EnvInv

LEMMA EnvNextKeeps == EnvInv /\ [Env!Next]_envVars => EnvInv'
<1> SUFFICES ASSUME EnvInv, [Env!Next]_envVars PROVE EnvInv'
  OBVIOUS
<1>1. CASE UNCHANGED envVars
  BY <1>1 DEF envVars, EnvInv, EnvList, Env!Ids, Env!ToSet
<1>2. CASE Env!Next
  BY <1>2, AddKeeps, DuplicateKeeps, DeleteKeepsEnvironments, SetActiveKeeps, RenameKeeps, AddVariableKeeps,
     UpdateVariableKeeps, DeleteVariableKeeps, AddProfileKeeps, UpdateProfileKeeps, DeleteProfileKeeps,
     NormalizedKeeps DEF Env!Next
<1> QED
  BY <1>1, <1>2

LEMMA EnvSteps == [StoresNext]_storesVars => [Env!Next]_envVars
BY DEF StoresNext, StoresBut, storesVars, envVars

(***************************************************************************)
(* Whatever was edited before, duplicate keys, empty values and keys made  *)
(* invalid included, a restart or an import changes what no template of a  *)
(* named environment stands for, nor which environment is active           *)
(* (models/environment.ts, environment-store.ts).                          *)
(***************************************************************************)
THEOREM EnvironmentsCorrect == StoresSpec => EnvironmentsKeepMeaning
<1>1. StoresInit => EnvInv
  BY EnvInitHolds DEF StoresInit
<1>2. EnvInv /\ [StoresNext]_storesVars => EnvInv'
  BY EnvSteps, EnvNextKeeps
<1>3. EnvInv /\ [StoresNext]_storesVars
        => [IF subject = "environments" THEN Env!RestoredAlike /\ Env!ImportedAlike ELSE TRUE]_storesVars
  BY MeaningsKept
<1> QED
  BY <1>1, <1>2, <1>3, PTL DEF StoresSpec, EnvironmentsKeepMeaning

----------------------------------------------------------------------------
(* The labels of profiles *)

(***************************************************************************)
(* Once the tokens of a URL are replaced, so is every piece that is a      *)
(* secret's value, and what replaces it is no value.                       *)
(***************************************************************************)
LEMMA LabelsHideSecrets ==
  ASSUME EnvInv
  PROVE  Env!PreviewsHideSecrets
<1> SUFFICES ASSUME NEW e \in Env!ToSet(environments), NEW p \in Env!ToSet(e.profiles),
                    Env!HasEnvironmentVariables(p.url)
             PROVE  LET preview == Env!ProfilePreview(p.url, e.vars)
                    IN  preview.ok => Env!ToSet(preview.label) \cap Env!SecretValues(e.vars) = {}
  BY DEF Env!PreviewsHideSecrets
<1>1. e \in EnvRecord
  BY ElementOfSeq DEF EnvInv, EnvList, Env!ToSet
<1> DEFINE secrets == Env!SecretValues(e.vars)
           result == Env!Interpolate(p.url, e.vars)
           label == Env!RedactSecrets(result.value, e.vars)
           preview == Env!ProfilePreview(p.url, e.vars)
<1>2. secrets \subseteq Values
  <2> DEFINE V == Env!Variable
  <2>1. e.vars \in Seq(V)
    BY <1>1 DEF EnvRecord
  <2> HIDE DEF V
  <2>2. \A v \in Env!ToSet(e.vars) : v \in V
    BY <2>1, ElementOfSeq DEF Env!ToSet
  <2> QED
    BY <2>2 DEF V, Env!Variable, Env!SecretValues
<1>3. Env!ToSet(label) \cap secrets = {}
  <2> DEFINE text == result.value
  <2>1. label = [i \in DOMAIN text |-> IF text[i] \in secrets THEN "****" ELSE text[i]]
    BY DEF Env!RedactSecrets
  <2> HIDE DEF label, text, secrets
  <2> QED
    BY <1>2, <2>1, KeysAssumption DEF Env!ToSet
<1>4. preview = IF ~result.ok THEN [ok |-> FALSE, label |-> <<>>, missing |-> result.missing]
                ELSE [ok |-> TRUE, label |-> label, missing |-> {}]
  <2> HIDE DEF label, result
  <2> QED
    BY DEF Env!ProfilePreview, label, result
<1> HIDE DEF label, result, secrets, preview
<1>5. preview.ok => Env!ToSet(preview.label) \cap secrets = {}
  BY <1>3, <1>4
<1> QED
  BY <1>5 DEF preview, secrets

----------------------------------------------------------------------------
(* The settings *)

LEMMA SettingsKept == \A list, kept : Settings!Kept(list, kept) = Kept(list, kept)
<1>1. \A S : Settings!Cardinality(S) = Cardinality(S)
  BY DEF Settings!Cardinality, Cardinality
<1>2. \A S, R : Settings!Places(S, R) = Places(S, R)
  BY <1>1 DEF Settings!Places, Places
<1>3. \A S, R : Settings!Arranged(S, R) = Arranged(S, R)
  BY <1>1, <1>2 DEF Settings!Arranged, Arranged
<1> QED
  BY <1>1, <1>3 DEF Settings!Kept, Kept

(***************************************************************************)
(* A filter that keeps all keeps the list: the first place that another    *)
(* member took would have nowhere to go.                                   *)
(***************************************************************************)
LEMMA KeptAll ==
  ASSUME NEW S, NEW list \in Seq(S)
  PROVE  Kept(list, DOMAIN list) = list
<1> DEFINE left == Kept(list, DOMAIN list)
<1>1. left \in Seq(S) /\ Len(left) = Len(list) /\ IsFiltering(left, list, DOMAIN list)
  BY KeptFacts
<1> HIDE DEF left
<1>2. Len(list) \in Nat /\ DOMAIN list = 1 .. Len(list)
  BY LenProperties
<1> DEFINE n == Len(list)
<1>3. PICK o \in [1 .. n -> 1 .. n] :
        /\ \A k \in 1 .. n : left[k] = list[o[k]]
        /\ \A k, l \in 1 .. n : k < l => o[k] < o[l]
        /\ \A i \in 1 .. n : \E k \in 1 .. n : o[k] = i
  <2>1. Len(left) = n /\ DOMAIN list = 1 .. n
    BY <1>1, <1>2
  <2>2. PICK o \in [1 .. Len(left) -> DOMAIN list] :
          /\ \A k \in 1 .. Len(left) : left[k] = list[o[k]]
          /\ \A k, l \in 1 .. Len(left) : k < l => o[k] < o[l]
          /\ \A i \in DOMAIN list : \E k \in 1 .. Len(left) : o[k] = i
    BY <1>1 DEF IsFiltering
  <2> HIDE DEF n
  <2>3. o \in [1 .. n -> 1 .. n]
    BY <2>1, <2>2
  <2>4. \A k \in 1 .. n : left[k] = list[o[k]]
    BY <2>1, <2>2
  <2>5. \A k, l \in 1 .. n : k < l => o[k] < o[l]
    BY <2>1, <2>2
  <2>6. \A i \in 1 .. n : \E k \in 1 .. n : o[k] = i
    BY <2>1, <2>2
  <2> QED
    BY <2>3, <2>4, <2>5, <2>6
<1>4. n \in Nat
  BY <1>2
<1> DEFINE moved == {k \in 1 .. n : o[k] # k}
<1>5. ASSUME moved # {} PROVE FALSE
  <2>1. moved \subseteq DOMAIN list
    BY <1>2
  <2> DEFINE m == Min(moved)
  <2>2. m \in moved /\ \A j \in moved : m <= j
    <3> HIDE DEF moved
    <3> QED
      BY <1>5, <2>1, MinFacts
  <2> HIDE DEF m, n
  <2>3. m \in 1 .. n /\ o[m] # m /\ o[m] \in 1 .. n
    BY <1>3, <2>2
  <2>4. PICK l \in 1 .. n : o[l] = m
    BY <1>3, <2>3
  <2>5. l # m
    BY <2>3, <2>4
  <2>6. l \in moved
    BY <2>4, <2>5
  <2>7. m < l
    BY <1>4, <2>2, <2>3, <2>5, <2>6
  <2>8. o[m] < m
    BY <1>3, <2>3, <2>4, <2>7
  <2>9. o[m] \notin moved
    BY <1>4, <2>2, <2>3, <2>8
  <2>10. o[o[m]] = o[m]
    BY <2>3, <2>9
  <2>11. o[o[m]] < o[m]
    BY <1>3, <2>3, <2>8
  <2> QED
    BY <1>4, <2>3, <2>10, <2>11
<1>6. \A k \in 1 .. n : left[k] = list[k]
  BY <1>3, <1>5
<1> HIDE DEF n
<1>7. left = list
  BY <1>1, <1>6, SeqEqual DEF n
<1> QED
  BY <1>7 DEF left

----------------------------------------------------------------------------

(***************************************************************************)
(* The limits that can be chosen.                                          *)
(***************************************************************************)
Limits == {v \in Smallest .. Largest : v % Step = 0}

LEMMA ClampFacts ==
  ASSUME NEW v \in Int
  PROVE  /\ Settings!ClampPacketRetentionLimit(v) \in Limits
         /\ v \in Limits => Settings!ClampPacketRetentionLimit(v) = v
<1>1. /\ Smallest \in Nat /\ Largest \in Nat /\ Step \in Nat /\ Step > 0 /\ Smallest <= Largest
      /\ Smallest % Step = 0 /\ Largest % Step = 0
  BY LimitsAssumption
<1> DEFINE q == (2 * v + Step) \div (2 * Step)
           stepped == q * Step
<1>2. q \in Int
  BY <1>1
<1>3. Settings!ClampPacketRetentionLimit(v) =
        IF v = -1 THEN Smallest ELSE IF stepped < Smallest THEN Smallest
        ELSE IF stepped > Largest THEN Largest ELSE stepped
  BY DEF Settings!ClampPacketRetentionLimit, Settings!NotFinite
<1>4. stepped \in Int /\ stepped % Step = 0
  <2> HIDE DEF q
  <2> QED
    BY <1>1, <1>2
<1>5. ASSUME v \in Limits PROVE stepped = v
  <2>1. v \in Nat /\ v % Step = 0
    BY <1>1, <1>5 DEF Limits
  <2>2. PICK n \in Nat : v = n * Step
    BY <1>1, <2>1
  <2>3. (2 * (n * Step) + Step) \div (2 * Step) = n
    BY <1>1
  <2>4. q = n
    BY <2>2, <2>3
  <2> QED
    BY <2>2, <2>4
<1> HIDE DEF q, stepped
<1>6. Settings!ClampPacketRetentionLimit(v) \in Limits
  BY <1>1, <1>3, <1>4 DEF Limits
<1>7. v \in Limits => Settings!ClampPacketRetentionLimit(v) = v
  BY <1>1, <1>3, <1>5 DEF Limits
<1> QED
  BY <1>6, <1>7

(***************************************************************************)
(* What a storage may hold, and what the program works with.               *)
(***************************************************************************)
FoundPreset  == [id : {"", "a", "b", "c", "d"}, session : {"none", "s1"}, valid : BOOLEAN]
NormalPreset == [id : {"", "a", "b", "c", "d"}, session : {"none"}, valid : {TRUE}]

NormalPresets == {list \in Seq(NormalPreset) : Len(list) <= KeptPresets}

KnownSteps == Settings!QuickSteps \cup {"select-packet"}

FoundSettings ==
  [limit : Int, theme : {"dark", "light", "junk"}, presets : Seq(FoundPreset),
   steps : SUBSET (KnownSteps \cup {"junk"}), cards : SUBSET (Settings!Cards \cup {"junk"}), dismissed : BOOLEAN]

NormalSettings ==
  [limit : Limits, theme : {"dark", "light"}, presets : NormalPresets,
   steps : SUBSET KnownSteps, cards : SUBSET Settings!Cards, dismissed : BOOLEAN]

LEMMA PresetsFacts ==
  ASSUME NEW list \in Seq(FoundPreset)
  PROVE  /\ Settings!NormalizeFilterPresets(list) \in NormalPresets
         /\ list \in NormalPresets => Settings!NormalizeFilterPresets(list) = list
<1> DEFINE kept == {i \in DOMAIN list : list[i].valid}
           valid == Kept(list, kept)
           length == Len(valid)
           n == IF length < KeptPresets THEN length ELSE KeptPresets
           new == [i \in 1 .. n |-> [valid[i] EXCEPT !.session = "none"]]
<1>1. Settings!NormalizeFilterPresets(list) = new
  BY SettingsKept DEF Settings!NormalizeFilterPresets
<1>2. kept \subseteq DOMAIN list /\ \A i \in kept : list[i].valid
  OBVIOUS
<1>3. ASSUME list \in NormalPresets
      PROVE  /\ kept = DOMAIN list /\ Len(list) <= KeptPresets /\ list \in Seq(NormalPreset)
             /\ \A i \in DOMAIN list : list[i] \in NormalPreset
  <2>1. Len(list) <= KeptPresets /\ list \in Seq(NormalPreset)
    BY <1>3 DEF NormalPresets
  <2>2. \A i \in DOMAIN list : list[i] \in NormalPreset
    BY <2>1, ElementOfSeq, LenProperties
  <2>3. \A i \in DOMAIN list : list[i].valid
    BY <2>2 DEF NormalPreset
  <2> QED
    BY <2>1, <2>2, <2>3
<1> HIDE DEF kept
<1>4. valid \in Seq(FoundPreset) /\ IsFiltering(valid, list, kept)
  BY <1>2, KeptFacts
<1>5. list \in NormalPresets => valid = list
  BY <1>3, KeptAll
<1> HIDE DEF valid
<1>6. length \in Nat /\ KeptPresets \in Nat /\ DOMAIN valid = 1 .. length
  BY <1>4, LimitsAssumption, LenProperties
<1> HIDE DEF length
<1>7. n \in Nat /\ n <= KeptPresets /\ n <= length /\ (length <= KeptPresets => n = length)
  BY <1>6
<1> HIDE DEF n
<1>8. \A i \in 1 .. n : valid[i] \in FoundPreset /\ valid[i].valid
  <2>1. \A i \in 1 .. length : valid[i] \in FoundPreset
    BY <1>4, ElementOfSeq DEF length
  <2>2. \A i \in 1 .. length : valid[i].valid
    BY <1>2, <1>4 DEF IsFiltering, length
  <2> QED
    BY <1>6, <1>7, <2>1, <2>2
<1>9. \A i \in 1 .. n : [valid[i] EXCEPT !.session = "none"] \in NormalPreset
  BY <1>8 DEF FoundPreset, NormalPreset
<1>10. new \in Seq(NormalPreset) /\ Len(new) = n
  <2>1. new \in [1 .. n -> NormalPreset]
    BY <1>9
  <2> HIDE DEF new
  <2> QED
    BY <1>7, <2>1, SeqDef, LenProperties
<1>11. new \in NormalPresets
  BY <1>7, <1>10 DEF NormalPresets
<1>12. ASSUME list \in NormalPresets PROVE new = list
  <2>1. n = Len(list) /\ valid = list /\ list \in Seq(NormalPreset)
    BY <1>3, <1>5, <1>7, <1>12 DEF length
  <2>2. \A i \in 1 .. n : list[i] \in NormalPreset
    BY <2>1, ElementOfSeq
  <2>3. \A i \in 1 .. n : new[i] = list[i]
    BY <2>1, <2>2 DEF NormalPreset
  <2> HIDE DEF new
  <2> QED
    BY <1>10, <2>1, <2>3, SeqEqual
<1> QED
  BY <1>1, <1>11, <1>12

LEMMA NormalFound == NormalSettings \subseteq FoundSettings
<1> SUFFICES ASSUME NEW s \in NormalSettings PROVE s \in FoundSettings
  OBVIOUS
<1> DEFINE lists == Seq(FoundPreset)
           normal == NormalPresets
           steps == SUBSET KnownSteps
           found == SUBSET (KnownSteps \cup {"junk"})
           cards == SUBSET Settings!Cards
           foundCards == SUBSET (Settings!Cards \cup {"junk"})
<1>1. normal \subseteq lists
  <2>1. NormalPreset \subseteq FoundPreset
    BY DEF NormalPreset, FoundPreset
  <2>2. ASSUME NEW list \in normal PROVE list \in lists
    <3>1. list \in Seq(NormalPreset)
      BY DEF NormalPresets
    <3>2. \A i \in 1 .. Len(list) : list[i] \in FoundPreset
      BY <2>1, <3>1, ElementOfSeq
    <3> QED
      BY <3>1, <3>2, SeqDef, LenProperties
  <2> QED
    BY <2>2
<1>2. steps \subseteq found /\ cards \subseteq foundCards
  OBVIOUS
<1>3. Limits \subseteq Int
  BY LimitsAssumption DEF Limits
<1>4. s \in [limit : Limits, theme : {"dark", "light"}, presets : normal,
             steps : steps, cards : cards, dismissed : BOOLEAN]
  BY DEF NormalSettings
<1> HIDE DEF lists, normal, steps, found, cards, foundCards
<1>5. s \in [limit : Int, theme : {"dark", "light", "junk"}, presets : lists,
             steps : found, cards : foundCards, dismissed : BOOLEAN]
  BY <1>1, <1>2, <1>3, <1>4
<1> QED
  BY <1>5 DEF FoundSettings, lists, found, foundCards

(***************************************************************************)
(* Normalising makes any settings normal, and leaves normal ones as they   *)
(* are.                                                                    *)
(***************************************************************************)
LEMMA NormalizedSettings ==
  ASSUME NEW s \in FoundSettings
  PROVE  /\ Settings!NormalizeAppSettings(s) \in NormalSettings
         /\ Settings!NormalizeAppSettings(s).limit = Settings!ClampPacketRetentionLimit(s.limit)
         /\ s \in NormalSettings => Settings!NormalizeAppSettings(s) = s
<1> DEFINE lists == Seq(FoundPreset)
           normal == NormalPresets
           steps == SUBSET KnownSteps
           found == SUBSET (KnownSteps \cup {"junk"})
           cards == SUBSET Settings!Cards
           foundCards == SUBSET (Settings!Cards \cup {"junk"})
           newLimit == Settings!ClampPacketRetentionLimit(s.limit)
           newPresets == Settings!NormalizeFilterPresets(s.presets)
           newSteps == s.steps \cap KnownSteps
           newCards == s.cards \cap Settings!Cards
           new == Settings!NormalizeAppSettings(s)
<1>1. new = [[s EXCEPT !.steps = newSteps, !.cards = newCards]
              EXCEPT !.limit = Settings!ClampPacketRetentionLimit(@),
                     !.theme = IF @ \in Settings!Themes THEN @ ELSE "dark",
                     !.presets = Settings!NormalizeFilterPresets(@)]
  BY DEF Settings!NormalizeAppSettings, Settings!NormalizeOnboarding, KnownSteps
<1>2. s \in [limit : Int, theme : {"dark", "light", "junk"}, presets : lists,
             steps : found, cards : foundCards, dismissed : BOOLEAN]
  BY DEF FoundSettings
<1>3. newLimit \in Limits /\ (s.limit \in Limits => newLimit = s.limit)
  <2>1. s.limit \in Int
    <3> HIDE DEF lists, found, foundCards
    <3> QED
      BY <1>2
  <2> QED
    BY <2>1, ClampFacts
<1>4. newPresets \in normal /\ (s.presets \in normal => newPresets = s.presets)
  <2>1. s.presets \in lists
    <3> HIDE DEF lists, found, foundCards
    <3> QED
      BY <1>2
  <2> QED
    BY <2>1, PresetsFacts
<1>5. /\ newSteps \in steps /\ newCards \in cards
      /\ s.steps \in steps => newSteps = s.steps
      /\ s.cards \in cards => newCards = s.cards
  OBVIOUS
<1>6. s \in NormalSettings
      => s \in [limit : Limits, theme : {"dark", "light"}, presets : normal,
                steps : steps, cards : cards, dismissed : BOOLEAN]
  BY DEF NormalSettings
<1> HIDE DEF lists, normal, steps, found, cards, foundCards, newSteps, newCards
<1>7. new = [limit |-> newLimit, theme |-> IF s.theme \in {"dark", "light"} THEN s.theme ELSE "dark",
             presets |-> newPresets, steps |-> newSteps, cards |-> newCards,
             dismissed |-> s.dismissed]
  BY <1>1, <1>2 DEF Settings!Themes
<1> HIDE DEF newLimit, newPresets, new
<1>8. new \in [limit : Limits, theme : {"dark", "light"}, presets : normal,
               steps : steps, cards : cards, dismissed : BOOLEAN]
  BY <1>2, <1>3, <1>4, <1>5, <1>7
<1>9. new \in NormalSettings
  BY <1>8 DEF NormalSettings, normal, steps, cards
<1>10. new.limit = newLimit
  BY <1>7
<1>11. s \in NormalSettings => new = s
  BY <1>3, <1>4, <1>5, <1>6, <1>7
<1> QED
  BY <1>9, <1>10, <1>11 DEF new, newLimit

(***************************************************************************)
(* The effects of the Quick Start panel keep the settings normal and their *)
(* limit.                                                                  *)
(***************************************************************************)
LEMMA EffectsFacts ==
  ASSUME NEW s \in NormalSettings, NEW holding, holding \subseteq KnownSteps
  PROVE  /\ Settings!QuickStartEffects(s, holding) \in NormalSettings
         /\ Settings!QuickStartEffects(s, holding).limit = s.limit
<1> DEFINE lists == NormalPresets
           steps == SUBSET KnownSteps
           cards == SUBSET Settings!Cards
           completed == s.steps \cup holding
           through == Settings!QuickSteps \subseteq completed
           new == Settings!QuickStartEffects(s, holding)
<1>1. s \in [limit : Limits, theme : {"dark", "light"}, presets : lists,
             steps : steps, cards : cards, dismissed : BOOLEAN]
  BY DEF NormalSettings
<1>2. through \in BOOLEAN
  OBVIOUS
<1>3. completed \in steps
  <2>1. s.steps \in steps
    <3> HIDE DEF lists, steps, cards
    <3> QED
      BY <1>1
  <2> QED
    BY <2>1
<1>4. new = s \/ new = [s EXCEPT !.steps = completed, !.dismissed = through]
  BY DEF Settings!QuickStartEffects
<1> HIDE DEF lists, steps, cards, completed, through, new
<1>5. new \in [limit : Limits, theme : {"dark", "light"}, presets : lists,
               steps : steps, cards : cards, dismissed : BOOLEAN]
  BY <1>1, <1>2, <1>3, <1>4
<1>6. new.limit = s.limit
  BY <1>1, <1>4
<1> QED
  BY <1>5, <1>6 DEF NormalSettings, new, lists, steps, cards

LEMMA WithField ==
  ASSUME NEW s \in NormalSettings
  PROVE  /\ s \in FoundSettings /\ s.limit \in Limits /\ s.presets \in Seq(NormalPreset)
         /\ s.steps \subseteq KnownSteps /\ s.cards \subseteq Settings!Cards /\ s.dismissed \in BOOLEAN
         /\ \A v \in Limits : [s EXCEPT !.limit = v] \in NormalSettings /\ [s EXCEPT !.limit = v].limit = v
         /\ \A t \in {"dark", "light"} :
              [s EXCEPT !.theme = t] \in NormalSettings /\ [s EXCEPT !.theme = t].limit = s.limit
<1> DEFINE lists == NormalPresets
           steps == SUBSET KnownSteps
           cards == SUBSET Settings!Cards
<1>1. s \in [limit : Limits, theme : {"dark", "light"}, presets : lists,
             steps : steps, cards : cards, dismissed : BOOLEAN]
  BY DEF NormalSettings
<1>2. s \in FoundSettings
  BY NormalFound
<1> HIDE DEF lists, steps, cards
<1>3. /\ s.limit \in Limits /\ s.presets \in lists /\ s.steps \in steps /\ s.cards \in cards
      /\ s.dismissed \in BOOLEAN
  BY <1>1
<1>4. ASSUME NEW v \in Limits
      PROVE  /\ [s EXCEPT !.limit = v] \in [limit : Limits, theme : {"dark", "light"}, presets : lists,
                                            steps : steps, cards : cards, dismissed : BOOLEAN]
             /\ [s EXCEPT !.limit = v].limit = v
  BY <1>1
<1>5. ASSUME NEW t \in {"dark", "light"}
      PROVE  /\ [s EXCEPT !.theme = t] \in [limit : Limits, theme : {"dark", "light"}, presets : lists,
                                            steps : steps, cards : cards, dismissed : BOOLEAN]
             /\ [s EXCEPT !.theme = t].limit = s.limit
  BY <1>1
<1>6. s.presets \in Seq(NormalPreset) /\ s.steps \subseteq KnownSteps /\ s.cards \subseteq Settings!Cards
  BY <1>3 DEF lists, steps, cards, NormalPresets
<1> QED
  BY <1>2, <1>3, <1>4, <1>5, <1>6 DEF NormalSettings, lists, steps, cards

(***************************************************************************)
(* The inductive invariant: the settings in use are normal, and what is    *)
(* stored, if only after a start, comes out as them.                       *)
(***************************************************************************)
SettingsInv ==
  /\ Settings!TypeOK
  /\ settings \in NormalSettings
  /\ settingsStored \in FoundSettings
  /\ Settings!ResolvePersistedSettings(settingsStored) = settings
  /\ Settings!InputsShowTheLimit

LEMMA StoredKeeps ==
  ASSUME settings' \in NormalSettings, settingsStored' = settings',
         limitDrafts' \in [Settings!Inputs -> Nat], focus' \in Settings!Inputs \cup {"none"},
         packetCount' \in 0 .. MaxTrimmed, facts' \subseteq KnownSteps,
         \A i \in Settings!Inputs : focus' # i => limitDrafts'[i] = settings'.limit,
         packetCount' <= settings'.limit
  PROVE  SettingsInv'
<1>1. settings' \in FoundSettings /\ settings'.limit \in Limits
  BY WithField
<1>2. Settings!NormalizeAppSettings(settings') = settings'
  BY <1>1, NormalizedSettings
<1>3. settings'.limit \in Smallest .. Largest
  BY <1>1 DEF Limits
<1>4. Settings!TypeOK'
  BY <1>3 DEF Settings!TypeOK, KnownSteps
<1> QED
  BY <1>1, <1>2, <1>4 DEF SettingsInv, Settings!ResolvePersistedSettings, Settings!InputsShowTheLimit

LEMMA SettingsInvFacts ==
  ASSUME SettingsInv
  PROVE  /\ settings \in NormalSettings /\ settings \in FoundSettings /\ settings.limit \in Limits
         /\ limitDrafts \in [Settings!Inputs -> Nat] /\ focus \in Settings!Inputs \cup {"none"}
         /\ packetCount \in 0 .. MaxTrimmed /\ facts \subseteq KnownSteps
         /\ \A i \in Settings!Inputs : focus # i => limitDrafts[i] = settings.limit
         /\ packetCount <= settings.limit
<1>1. settings \in NormalSettings
  BY DEF SettingsInv
<1> QED
  BY <1>1, WithField DEF SettingsInv, Settings!TypeOK, Settings!InputsShowTheLimit, KnownSteps

LEMMA BecomeFacts ==
  ASSUME SettingsInv, NEW new \in FoundSettings, Settings!SettingsBecome(new)
  PROVE  /\ settings' \in NormalSettings /\ settingsStored' = settings'
         /\ settings'.limit = Settings!ClampPacketRetentionLimit(new.limit)
         /\ limitDrafts' = IF settings'.limit = settings.limit THEN limitDrafts
                           ELSE [i \in Settings!Inputs |-> settings'.limit]
<1> DEFINE normal == Settings!NormalizeAppSettings(new)
           s == Settings!QuickStartEffects(normal, facts)
<1>1. normal \in NormalSettings /\ normal.limit = Settings!ClampPacketRetentionLimit(new.limit)
  BY NormalizedSettings
<1>2. s \in NormalSettings /\ s.limit = normal.limit
  BY <1>1, SettingsInvFacts, EffectsFacts
<1>3. /\ settings' = s /\ settingsStored' = s
      /\ limitDrafts' = IF s.limit = settings.limit THEN limitDrafts
                        ELSE [i \in Settings!Inputs |-> s.limit]
  BY DEF Settings!SettingsBecome
<1> HIDE DEF normal, s
<1> QED
  BY <1>1, <1>2, <1>3

LEMMA ClickKeeps ==
  ASSUME SettingsInv, NEW new \in FoundSettings, new.limit = settings.limit, Settings!Click(new)
  PROVE  SettingsInv'
<1>1. /\ Settings!SettingsBecome(new)
      /\ focus' = focus /\ packetCount' = packetCount /\ facts' = facts
  BY DEF Settings!Click
<1>2. /\ settings' \in NormalSettings /\ settingsStored' = settings'
      /\ settings'.limit = Settings!ClampPacketRetentionLimit(new.limit)
      /\ limitDrafts' = IF settings'.limit = settings.limit THEN limitDrafts
                        ELSE [i \in Settings!Inputs |-> settings'.limit]
  BY <1>1, BecomeFacts
<1>3. Settings!ClampPacketRetentionLimit(new.limit) = settings.limit
  BY SettingsInvFacts, ClampFacts, LimitsAssumption DEF Limits
<1>4. limitDrafts' = limitDrafts /\ settings'.limit = settings.limit
  BY <1>2, <1>3
<1> QED
  BY <1>1, <1>2, <1>4, SettingsInvFacts, StoredKeeps

LEMMA SetThemeKeeps ==
  ASSUME SettingsInv, NEW t \in Settings!Themes, Settings!SetTheme(t)
  PROVE  SettingsInv'
<1>1. [settings EXCEPT !.theme = t] \in FoundSettings /\ [settings EXCEPT !.theme = t].limit = settings.limit
  BY SettingsInvFacts, WithField, NormalFound DEF Settings!Themes
<1> QED
  BY <1>1, ClickKeeps DEF Settings!SetTheme

LEMMA SavePresetKeeps ==
  ASSUME SettingsInv, Settings!SavePreset("d")
  PROVE  SettingsInv'
<1> DEFINE saved == <<Settings!Preset("d", "s1")>> \o settings.presets
           new == [settings EXCEPT !.presets = saved]
           lists == Seq(FoundPreset)
           steps == SUBSET (KnownSteps \cup {"junk"})
           cards == SUBSET (Settings!Cards \cup {"junk"})
<1>1. settings \in [limit : Int, theme : {"dark", "light", "junk"}, presets : lists,
                    steps : steps, cards : cards, dismissed : BOOLEAN]
  BY SettingsInvFacts DEF FoundSettings
<1>2. settings.presets \in lists
  <2> HIDE DEF lists, steps, cards
  <2> QED
    BY <1>1
<1>3. saved \in lists
  <2>1. Settings!Preset("d", "s1") \in FoundPreset
    BY DEF Settings!Preset, FoundPreset
  <2>2. <<Settings!Preset("d", "s1")>> \in Seq(FoundPreset)
    BY <2>1
  <2> QED
    BY <1>2, <2>2, ConcatProperties
<1>4. Settings!Click(new)
  BY DEF Settings!SavePreset
<1> HIDE DEF saved, lists, steps, cards
<1>5. /\ new \in [limit : Int, theme : {"dark", "light", "junk"}, presets : lists,
                  steps : steps, cards : cards, dismissed : BOOLEAN]
      /\ new.limit = settings.limit
  BY <1>1, <1>3
<1>6. new \in FoundSettings
  BY <1>5 DEF FoundSettings, lists, steps, cards
<1> HIDE DEF new
<1> QED
  BY <1>4, <1>5, <1>6, ClickKeeps

LEMMA OnboardingKeeps ==
  ASSUME SettingsInv, NEW st, st \subseteq KnownSteps, NEW c, c \subseteq Settings!Cards,
         NEW d \in BOOLEAN,
         Settings!Click([settings EXCEPT !.cards = c, !.steps = st, !.dismissed = d])
  PROVE  SettingsInv'
<1> DEFINE new == [settings EXCEPT !.cards = c, !.steps = st, !.dismissed = d]
           lists == Seq(FoundPreset)
           steps == SUBSET (KnownSteps \cup {"junk"})
           cards == SUBSET (Settings!Cards \cup {"junk"})
<1>1. settings \in [limit : Int, theme : {"dark", "light", "junk"}, presets : lists,
                    steps : steps, cards : cards, dismissed : BOOLEAN]
  BY SettingsInvFacts DEF FoundSettings
<1>2. st \in steps /\ c \in cards
  OBVIOUS
<1> HIDE DEF lists, steps, cards
<1>3. /\ new \in [limit : Int, theme : {"dark", "light", "junk"}, presets : lists,
                  steps : steps, cards : cards, dismissed : BOOLEAN]
      /\ new.limit = settings.limit
  BY <1>1, <1>2
<1>4. new \in FoundSettings
  BY <1>3 DEF FoundSettings, lists, steps, cards
<1>5. Settings!Click(new)
  OBVIOUS
<1> HIDE DEF new
<1> QED
  BY <1>3, <1>4, <1>5, ClickKeeps

LEMMA DismissKeeps ==
  ASSUME SettingsInv, NEW c \in Settings!Cards, Settings!DismissOnboardingCard(c)
  PROVE  SettingsInv'
<1> DEFINE st == IF c = "quick-start" THEN settings.steps \cup facts ELSE settings.steps
           cs == settings.cards \cup {c}
           d == settings.dismissed \/ c = "quick-start"
<1>1. /\ settings \in NormalSettings /\ facts \subseteq KnownSteps
  BY SettingsInvFacts
<1>2. st \subseteq KnownSteps /\ cs \subseteq Settings!Cards
  BY <1>1, WithField
<1>3. d \in BOOLEAN
  OBVIOUS
<1>4. Settings!Click([settings EXCEPT !.cards = cs, !.steps = st, !.dismissed = d])
  BY DEF Settings!DismissOnboardingCard
<1> HIDE DEF st, cs, d
<1> QED
  BY <1>2, <1>3, <1>4, OnboardingKeeps

LEMMA RestartOnboardingKeeps == SettingsInv /\ Settings!RestartOnboarding => SettingsInv'
<1> SUFFICES ASSUME SettingsInv, Settings!RestartOnboarding PROVE SettingsInv'
  OBVIOUS
<1>1. [settings EXCEPT !.steps = {}, !.cards = {}, !.dismissed = FALSE]
        = [settings EXCEPT !.cards = {}, !.steps = {}, !.dismissed = FALSE]
  BY SettingsInvFacts DEF NormalSettings
<1> QED
  BY <1>1, OnboardingKeeps DEF Settings!RestartOnboarding

LEMMA TrimmedFacts ==
  ASSUME SettingsInv, NEW l \in Nat, Settings!TrimToRetentionLimit(l)
  PROVE  packetCount' \in 0 .. MaxTrimmed /\ packetCount' <= l
BY SettingsInvFacts, LimitsAssumption DEF Settings!TrimToRetentionLimit

LEMMA ResetSettingsKeeps == SettingsInv /\ Settings!ResetSettings => SettingsInv'
<1> SUFFICES ASSUME SettingsInv, Settings!ResetSettings PROVE SettingsInv'
  OBVIOUS
<1> DEFINE default == Settings!DefaultAppSettings
<1>1. default \in NormalSettings
  <2>1. Settings!Unreadable \in FoundSettings
    BY DEF Settings!Unreadable, Settings!NotFinite, FoundSettings
  <2> QED
    BY <2>1, NormalizedSettings DEF Settings!DefaultAppSettings
<1>2. /\ focus = "none" /\ focus' = focus /\ facts' = facts
      /\ Settings!TrimToRetentionLimit(default.limit) /\ Settings!SettingsBecome(default)
  BY DEF Settings!ResetSettings
<1> HIDE DEF default
<1>3. default \in FoundSettings /\ default.limit \in Limits /\ default.limit \in Nat
  <2>1. default \in FoundSettings /\ default.limit \in Limits
    BY <1>1, WithField
  <2> QED
    BY <2>1, LimitsAssumption DEF Limits
<1>4. Settings!ClampPacketRetentionLimit(default.limit) = default.limit
  BY <1>3, ClampFacts
<1>5. /\ settings' \in NormalSettings /\ settingsStored' = settings'
      /\ settings'.limit = default.limit
      /\ limitDrafts' = IF settings'.limit = settings.limit THEN limitDrafts
                        ELSE [i \in Settings!Inputs |-> settings'.limit]
  BY <1>2, <1>3, <1>4, BecomeFacts
<1>6. packetCount' \in 0 .. MaxTrimmed /\ packetCount' <= settings'.limit
  BY <1>2, <1>3, <1>5, TrimmedFacts
<1>7. limitDrafts' \in [Settings!Inputs -> Nat]
  BY <1>3, <1>5, SettingsInvFacts
<1>8. \A i \in Settings!Inputs : focus' # i => limitDrafts'[i] = settings'.limit
  BY <1>2, <1>3, <1>5, SettingsInvFacts DEF Settings!Inputs
<1> QED
  BY <1>2, <1>5, <1>6, <1>7, <1>8, SettingsInvFacts, StoredKeeps

LEMMA CommitKeeps ==
  ASSUME SettingsInv, NEW i \in Settings!Inputs, NEW v \in Nat, focus \in {i, "none"},
         Settings!CommitPacketLimit(i, v)
  PROVE  SettingsInv'
<1> DEFINE l == Settings!ClampPacketRetentionLimit(v)
           new == [settings EXCEPT !.limit = l]
           s == Settings!QuickStartEffects(Settings!NormalizeAppSettings(new), facts)
<1>1. l \in Limits /\ l \in Nat
  BY ClampFacts, LimitsAssumption DEF Limits
<1>2. new \in NormalSettings /\ new.limit = l
  <2> HIDE DEF l
  <2> QED
    BY <1>1, SettingsInvFacts, WithField
<1>3. Settings!NormalizeAppSettings(new) = new
  BY <1>2, WithField, NormalizedSettings
<1>4. s \in NormalSettings /\ s.limit = l
  <2> HIDE DEF l, new
  <2> QED
    BY <1>2, <1>3, SettingsInvFacts, EffectsFacts
<1>5. /\ settings' = s /\ settingsStored' = s
      /\ limitDrafts' = IF l = settings.limit THEN [limitDrafts EXCEPT ![i] = l]
                        ELSE [j \in Settings!Inputs |-> l]
      /\ focus' = "none" /\ facts' = facts
      /\ Settings!TrimToRetentionLimit(l)
  BY DEF Settings!CommitPacketLimit
<1> HIDE DEF l, new, s
<1>6. packetCount' \in 0 .. MaxTrimmed /\ packetCount' <= settings'.limit
  BY <1>1, <1>4, <1>5, TrimmedFacts
<1>7. limitDrafts' \in [Settings!Inputs -> Nat]
  BY <1>1, <1>5, SettingsInvFacts
<1>8. \A j \in Settings!Inputs : focus' # j => limitDrafts'[j] = settings'.limit
  BY <1>1, <1>4, <1>5, SettingsInvFacts DEF Settings!Inputs
<1> QED
  BY <1>4, <1>5, <1>6, <1>7, <1>8, SettingsInvFacts, StoredKeeps

LEMMA TypeKeeps ==
  ASSUME SettingsInv, NEW i \in Settings!Inputs, NEW v \in Nat, Settings!Type(i, v)
  PROVE  SettingsInv'
<1>1. /\ focus \in {i, "none"} /\ focus' = i /\ limitDrafts' = [limitDrafts EXCEPT ![i] = v]
      /\ settings' = settings /\ settingsStored' = settingsStored
      /\ packetCount' = packetCount /\ facts' = facts
  BY DEF Settings!Type
<1>2. limitDrafts' \in [Settings!Inputs -> Nat] /\ focus' \in Settings!Inputs
  BY <1>1, SettingsInvFacts
<1>3. \A j \in Settings!Inputs : focus' # j => limitDrafts'[j] = settings'.limit
  BY <1>1, SettingsInvFacts DEF Settings!Inputs
<1>4. Settings!TypeOK'
  BY <1>1, <1>2 DEF SettingsInv, Settings!TypeOK
<1> QED
  BY <1>1, <1>3, <1>4 DEF SettingsInv, Settings!InputsShowTheLimit, Settings!ResolvePersistedSettings

LEMMA BlurKeeps ==
  ASSUME SettingsInv, NEW i \in Settings!Inputs, Settings!Blur(i)
  PROVE  SettingsInv'
<1>1. limitDrafts[i] \in Nat /\ focus = i /\ Settings!CommitPacketLimit(i, limitDrafts[i])
  BY SettingsInvFacts DEF Settings!Blur
<1> QED
  BY <1>1, CommitKeeps

LEMMA AddPacketKeeps == SettingsInv /\ Settings!AddPacket => SettingsInv'
<1> SUFFICES ASSUME SettingsInv, Settings!AddPacket PROVE SettingsInv'
  OBVIOUS
<1>1. /\ packetCount < MaxTrimmed
      /\ packetCount' = IF packetCount = settings.limit THEN packetCount ELSE packetCount + 1
      /\ settings' = settings /\ settingsStored' = settingsStored /\ limitDrafts' = limitDrafts
      /\ focus' = focus /\ facts' = facts
  BY DEF Settings!AddPacket
<1>2. settings.limit \in Nat
  BY SettingsInvFacts, LimitsAssumption DEF Limits
<1>3. packetCount' \in 0 .. MaxTrimmed /\ packetCount' <= settings.limit
  BY <1>1, <1>2, SettingsInvFacts, LimitsAssumption
<1> QED
  BY <1>1, <1>3 DEF SettingsInv, Settings!TypeOK, Settings!InputsShowTheLimit, Settings!ResolvePersistedSettings

LEMMA FactsKeep ==
  ASSUME SettingsInv, NEW new, new \subseteq KnownSteps, Settings!FactsBecome(new)
  PROVE  SettingsInv'
<1> DEFINE s == Settings!QuickStartEffects(settings, new)
<1>1. s \in NormalSettings /\ s.limit = settings.limit
  BY SettingsInvFacts, EffectsFacts
<1>2. /\ facts' = new /\ settings' = s
      /\ settingsStored' = IF s = settings THEN settingsStored ELSE s
      /\ limitDrafts' = limitDrafts /\ focus' = focus /\ packetCount' = packetCount
  BY DEF Settings!FactsBecome
<1> HIDE DEF s
<1>3. CASE s = settings
  <2>1. settings' = settings /\ settingsStored' = settingsStored
    BY <1>2, <1>3
  <2> QED
    BY <1>2, <2>1
       DEF SettingsInv, Settings!TypeOK, Settings!InputsShowTheLimit,
           Settings!ResolvePersistedSettings, KnownSteps
<1>4. CASE s # settings
  <2>1. settings' = s /\ settingsStored' = settings'
    BY <1>2, <1>4
  <2>2. \A i \in Settings!Inputs : focus' # i => limitDrafts'[i] = settings'.limit
    BY <1>1, <1>2, SettingsInvFacts
  <2> QED
    BY <1>1, <1>2, <2>1, <2>2, SettingsInvFacts, StoredKeeps
<1> QED
  BY <1>3, <1>4

(***************************************************************************)
(* A start takes what is stored, normal or not, and writes it back only if *)
(* the Quick Start panel changes it; without steps that hold now it has    *)
(* nothing to add, but may find itself through.                            *)
(***************************************************************************)
LEMMA RestartKeeps == SettingsInv /\ Settings!Restart => SettingsInv'
<1> SUFFICES ASSUME SettingsInv, Settings!Restart PROVE SettingsInv'
  OBVIOUS
<1> DEFINE t == Settings!QuickStartEffects(settings, {})
<1>1. t \in NormalSettings /\ t.limit = settings.limit
  BY SettingsInvFacts, EffectsFacts
<1>2. Settings!ResolvePersistedSettings(settingsStored) = settings
  BY DEF SettingsInv
<1>3. /\ settings' = t /\ settingsStored' = IF t = settings THEN settingsStored ELSE t
      /\ limitDrafts' = [i \in Settings!Inputs |-> t.limit]
      /\ focus' = "none" /\ packetCount' = 0 /\ facts' = {}
  BY <1>2 DEF Settings!Restart, Settings!Start
<1> HIDE DEF t
<1>4. t.limit \in Nat /\ t.limit \in Smallest .. Largest
  BY <1>1, SettingsInvFacts, LimitsAssumption DEF Limits
<1>5. limitDrafts' \in [Settings!Inputs -> Nat] /\ \A i \in Settings!Inputs : limitDrafts'[i] = t.limit
  BY <1>3, <1>4
<1>6. packetCount' \in 0 .. MaxTrimmed /\ packetCount' <= settings'.limit
  BY <1>3, <1>4, LimitsAssumption
<1>7. CASE t = settings
  <2>1. settings' = settings /\ settingsStored' = settingsStored
    BY <1>3, <1>7
  <2>2. Settings!TypeOK'
    BY <1>3, <1>4, <1>5, <1>6 DEF Settings!TypeOK
  <2> QED
    BY <1>3, <1>5, <1>6, <2>1, <2>2
       DEF SettingsInv, Settings!InputsShowTheLimit, Settings!ResolvePersistedSettings
<1>8. CASE t # settings
  BY <1>1, <1>3, <1>5, <1>6, <1>8, StoredKeeps
<1> QED
  BY <1>7, <1>8

LEMMA NormalizedSteps ==
  ASSUME NEW s \in FoundSettings
  PROVE  Settings!NormalizeAppSettings(s).steps = s.steps \cap KnownSteps
<1> DEFINE lists == Seq(FoundPreset)
           steps == SUBSET (KnownSteps \cup {"junk"})
           cards == SUBSET (Settings!Cards \cup {"junk"})
           known == s.steps \cap KnownSteps
           shown == s.cards \cap Settings!Cards
<1>1. s \in [limit : Int, theme : {"dark", "light", "junk"}, presets : lists,
             steps : steps, cards : cards, dismissed : BOOLEAN]
  BY DEF FoundSettings
<1>2. Settings!NormalizeAppSettings(s)
        = [[s EXCEPT !.steps = known, !.cards = shown]
            EXCEPT !.limit = Settings!ClampPacketRetentionLimit(@),
                   !.theme = IF @ \in Settings!Themes THEN @ ELSE "dark",
                   !.presets = Settings!NormalizeFilterPresets(@)]
  BY DEF Settings!NormalizeAppSettings, Settings!NormalizeOnboarding, KnownSteps
<1> HIDE DEF lists, steps, cards, known, shown
<1>3. Settings!NormalizeAppSettings(s).steps = known
  BY <1>1, <1>2
<1> QED
  BY <1>3 DEF known

LEMMA NothingToAdd ==
  ASSUME NEW s \in NormalSettings, ~(Settings!QuickSteps \subseteq s.steps)
  PROVE  Settings!QuickStartEffects(s, {}) = s
<1> DEFINE lists == NormalPresets
           steps == SUBSET KnownSteps
           cards == SUBSET Settings!Cards
           completed == s.steps \cup {}
           through == Settings!QuickSteps \subseteq completed
<1>1. s \in [limit : Limits, theme : {"dark", "light"}, presets : lists,
             steps : steps, cards : cards, dismissed : BOOLEAN]
  BY DEF NormalSettings
<1>2. completed = s.steps
  OBVIOUS
<1>3. through = FALSE
  OBVIOUS
<1>4. \/ Settings!QuickStartEffects(s, {}) = s
      \/ /\ ~s.dismissed
         /\ Settings!QuickStartEffects(s, {}) = [s EXCEPT !.steps = completed, !.dismissed = through]
  BY DEF Settings!QuickStartEffects, Settings!ShowQuickStartPanel
<1> HIDE DEF lists, steps, cards, completed, through
<1>5. ~s.dismissed => s.dismissed = FALSE
  BY <1>1
<1>6. ~s.dismissed => [s EXCEPT !.steps = s.steps, !.dismissed = FALSE] = s
  BY <1>1, <1>5
<1> QED
  BY <1>2, <1>3, <1>4, <1>6

LEMMA SettingsInitHolds == Settings!Init => SettingsInv
<1> SUFFICES ASSUME Settings!Init PROVE SettingsInv
  OBVIOUS
<1> DEFINE s == Settings!ResolvePersistedSettings(settingsStored)
<1>1. settingsStored \in Settings!Raw \cup {Settings!Unreadable}
  BY DEF Settings!Init
<1>2. settingsStored \in FoundSettings /\ ~(Settings!QuickSteps \subseteq settingsStored.steps)
  <2> DEFINE lists == Settings!RawPresets
             found == Seq(FoundPreset)
             steps == SUBSET (KnownSteps \cup {"junk"})
             cards == SUBSET (Settings!Cards \cup {"junk"})
  <2>1. lists \subseteq found
    BY DEF Settings!RawPresets, Settings!Preset, FoundPreset
  <2>2. {{}, {"view-timeline", "junk"}} \subseteq steps /\ {{}, {"quick-start", "junk"}} \subseteq cards
    BY DEF KnownSteps, Settings!QuickSteps, Settings!Cards
  <2>3. settingsStored \in Settings!Raw \/ settingsStored = Settings!Unreadable
    BY <1>1
  <2>4. ASSUME settingsStored \in Settings!Raw
        PROVE  /\ settingsStored \in [limit : Int, theme : {"dark", "light", "junk"}, presets : found,
                                      steps : steps, cards : cards, dismissed : BOOLEAN]
               /\ settingsStored.steps \in {{}, {"view-timeline", "junk"}}
    <3>1. settingsStored \in [limit : {Settings!NotFinite, 0, Smallest + 1, Largest + Step},
                              theme : {"dark", "junk"}, presets : lists,
                              steps : {{}, {"view-timeline", "junk"}},
                              cards : {{}, {"quick-start", "junk"}}, dismissed : BOOLEAN]
      BY <2>4 DEF Settings!Raw
    <3> HIDE DEF lists, found, steps, cards
    <3>2. {Settings!NotFinite, 0, Smallest + 1, Largest + Step} \subseteq Int
      BY LimitsAssumption DEF Settings!NotFinite
    <3> QED
      BY <2>1, <2>2, <3>1, <3>2
  <2>5. ASSUME settingsStored \in Settings!Raw PROVE settingsStored \in FoundSettings
    BY <2>4, <2>5 DEF FoundSettings
  <2>6. ASSUME settingsStored = Settings!Unreadable
        PROVE  settingsStored \in FoundSettings /\ settingsStored.steps = {}
    BY <2>6 DEF Settings!Unreadable, Settings!NotFinite, FoundSettings
  <2>7. settingsStored.steps = {} \/ settingsStored.steps = {"view-timeline", "junk"}
    BY <2>3, <2>4, <2>6
  <2> QED
    BY <2>3, <2>5, <2>6, <2>7 DEF Settings!QuickSteps
<1>3. s \in NormalSettings /\ s.steps \subseteq settingsStored.steps
  <2>1. s \in NormalSettings
    BY <1>2, NormalizedSettings DEF Settings!ResolvePersistedSettings
  <2>2. s.steps = settingsStored.steps \cap KnownSteps
    BY <1>2, NormalizedSteps DEF Settings!ResolvePersistedSettings
  <2> QED
    BY <2>1, <2>2
<1>4. Settings!QuickStartEffects(s, {}) = s
  BY <1>2, <1>3, NothingToAdd
<1>5. /\ settings = s /\ limitDrafts = [i \in Settings!Inputs |-> settings.limit]
      /\ focus = "none" /\ packetCount = 0 /\ facts = {}
  BY <1>4 DEF Settings!Init
<1>6. settings.limit \in Nat /\ settings.limit \in Smallest .. Largest
  <2>1. settings \in NormalSettings
    BY <1>3, <1>5
  <2>2. settings.limit \in Limits
    BY <2>1, WithField
  <2> QED
    BY <2>2, LimitsAssumption DEF Limits
<1>7. limitDrafts \in [Settings!Inputs -> Nat] /\ \A i \in Settings!Inputs : limitDrafts[i] = settings.limit
  BY <1>5, <1>6
<1>8. packetCount \in 0 .. MaxTrimmed /\ packetCount <= settings.limit
  BY <1>5, <1>6, LimitsAssumption
<1>9. Settings!TypeOK
  BY <1>5, <1>6, <1>7, <1>8 DEF Settings!TypeOK
<1>10. Settings!ResolvePersistedSettings(settingsStored) = settings
  BY <1>5
<1> HIDE DEF s
<1> QED
  BY <1>2, <1>3, <1>5, <1>7, <1>8, <1>9, <1>10 DEF SettingsInv, Settings!InputsShowTheLimit

LEMMA SettingsNextKeeps == SettingsInv /\ [Settings!Next]_settingsVars => SettingsInv'
<1> SUFFICES ASSUME SettingsInv, [Settings!Next]_settingsVars PROVE SettingsInv'
  OBVIOUS
<1>1. ASSUME UNCHANGED settingsVars PROVE SettingsInv'
  BY <1>1 DEF settingsVars, SettingsInv, Settings!TypeOK, Settings!InputsShowTheLimit,
              Settings!ResolvePersistedSettings
<1>2. 0 \in Nat /\ Smallest \in Nat /\ Largest \in Nat /\ Smallest + 1 \in Nat /\ Largest + Step \in Nat
  BY LimitsAssumption
<1>3. ASSUME NEW i \in Settings!Inputs, NEW v \in {0, Smallest + 1, Largest + Step}, Settings!Type(i, v)
      PROVE  SettingsInv'
  BY <1>2, <1>3, TypeKeeps
<1>4. ASSUME NEW i \in Settings!Inputs, NEW v \in {Smallest, Largest}, Settings!ChooseLimit(i, v)
      PROVE  SettingsInv'
  BY <1>2, <1>4, CommitKeeps DEF Settings!ChooseLimit
<1>5. ASSUME NEW new \in {{}, {"view-timeline"}, Settings!QuickSteps}, Settings!FactsBecome(new)
      PROVE  SettingsInv'
  <2>1. new \subseteq KnownSteps
    BY <1>5 DEF KnownSteps, Settings!QuickSteps
  <2> QED
    BY <1>5, <2>1, FactsKeep
<1>6. ASSUME Settings!Next PROVE SettingsInv'
  BY <1>3, <1>4, <1>5, <1>6, BlurKeeps, AddPacketKeeps, SetThemeKeeps, SavePresetKeeps, DismissKeeps,
     RestartOnboardingKeeps, ResetSettingsKeeps, RestartKeeps DEF Settings!Next
<1> QED
  BY <1>1, <1>6

LEMMA SettingsSteps == [StoresNext]_storesVars => [Settings!Next]_settingsVars
BY DEF StoresNext, StoresBut, storesVars, settingsVars

(***************************************************************************)
(* Whatever the local storage held and whatever was typed into the two     *)
(* inputs of the limit, the settings in use are normal, a restart brings   *)
(* the same ones up, an input that is not edited shows the limit in force, *)
(* and the timeline holds no more than it (settings-store.ts,              *)
(* settings-persistence.ts, settings-page.tsx).                            *)
(***************************************************************************)
THEOREM SettingsCorrect == StoresSpec => []SettingsSurvive
<1>1. StoresInit => SettingsInv
  BY SettingsInitHolds DEF StoresInit
<1>2. SettingsInv /\ [StoresNext]_storesVars => SettingsInv'
  BY SettingsSteps, SettingsNextKeeps
<1>3. SettingsInv => SettingsSurvive
  <2>1. ASSUME SettingsInv PROVE Settings!NormalizeAppSettings(settings) = settings
    BY <2>1, SettingsInvFacts, NormalizedSettings
  <2> QED
    BY <2>1 DEF SettingsInv, SettingsSurvive, Settings!SettingsSurvive
<1> QED
  BY <1>1, <1>2, <1>3, PTL DEF StoresSpec

----------------------------------------------------------------------------
(* The connections *)

LEMMA ListKept == \A list, kept : List!Kept(list, kept) = Kept(list, kept)
<1>1. \A S : List!Cardinality(S) = Cardinality(S)
  BY DEF List!Cardinality, Cardinality
<1>2. \A S, R : List!Places(S, R) = Places(S, R)
  BY <1>1 DEF List!Places, Places
<1>3. \A S, R : List!Arranged(S, R) = Arranged(S, R)
  BY <1>1, <1>2 DEF List!Arranged, Arranged
<1> QED
  BY <1>1, <1>3 DEF List!Kept, Kept

LEMMA ListMembers == \A list : List!Range(list) = Members(list)
BY DEF List!Range, Members

(***************************************************************************)
(* The first of the members found, or Nothing.                             *)
(***************************************************************************)
LEMMA FirstFacts ==
  ASSUME NEW S, NEW list \in Seq(S), NEW found, found \subseteq DOMAIN list
  PROVE  \/ (IF found = {} THEN Nothing ELSE list[List!Min(found)]) = Nothing
         \/ \E i \in found : (IF found = {} THEN Nothing ELSE list[List!Min(found)]) = list[i]
<1>1. List!Min(found) = Min(found)
  BY DEF List!Min, Min
<1>2. found # {} => Min(found) \in found
  BY MinFacts
<1> QED
  BY <1>1, <1>2

(***************************************************************************)
(* An entry of the list: a demo goes by its own endpoint, any other entry  *)
(* by a URL that can be connected to.                                      *)
(***************************************************************************)
ListEntry ==
  {e \in List!Entry : IF e.demo THEN e.url = DemoUrl /\ ~e.template ELSE e.url \in Urls}

ConnectionIds == List!Ids \cup {Nothing}

EntryOf(id, url, template, env, st, demo) ==
  [id |-> id, url |-> url, template |-> template, env |-> env, status |-> st, demo |-> demo]

LEMMA NewEntry ==
  ASSUME NEW id \in List!Ids, NEW url, NEW template \in BOOLEAN, NEW env \in Envs \cup {Nothing},
         NEW st \in List!Statuses, NEW demo \in BOOLEAN,
         IF demo THEN url = DemoUrl /\ ~template ELSE url \in Urls
  PROVE  EntryOf(id, url, template, env, st, demo) \in ListEntry
<1> DEFINE numbers == List!Ids
           statuses == List!Statuses
           e == EntryOf(id, url, template, env, st, demo)
<1>1. url \in Urls \cup {DemoUrl}
  OBVIOUS
<1> HIDE DEF numbers, statuses
<1>2. e \in [id : numbers, url : Urls \cup {DemoUrl}, template : BOOLEAN, env : Envs \cup {Nothing},
             status : statuses, demo : BOOLEAN]
  BY <1>1 DEF EntryOf, numbers, statuses
<1>3. e.demo = demo /\ e.url = url /\ e.template = template
  BY DEF EntryOf
<1>4. e \in List!Entry
  BY <1>2 DEF List!Entry, numbers, statuses
<1> HIDE DEF e
<1>5. e \in ListEntry
  BY <1>3, <1>4 DEF ListEntry
<1> QED
  BY <1>5 DEF e

LEMMA EntryFacts ==
  ASSUME NEW e \in ListEntry
  PROVE  /\ e \in List!Entry /\ e # Nothing
         /\ e.id \in List!Ids /\ e.id # Nothing /\ e.template \in BOOLEAN /\ e.env \in Envs \cup {Nothing}
         /\ e.status \in List!Statuses /\ e.demo \in BOOLEAN
         /\ IF e.demo THEN e.url = DemoUrl /\ ~e.template ELSE e.url \in Urls
<1> DEFINE entries == List!Ids
           statuses == List!Statuses
<1>1. e \in List!Entry /\ (IF e.demo THEN e.url = DemoUrl /\ ~e.template ELSE e.url \in Urls)
  BY DEF ListEntry
<1>2. e \in [id : entries, url : Urls \cup {DemoUrl}, template : BOOLEAN, env : Envs \cup {Nothing},
             status : statuses, demo : BOOLEAN]
  BY <1>1 DEF List!Entry
<1>3. e # Nothing
  BY <1>1, ListAssumption
<1>4. \A id \in List!Ids : id # Nothing
  BY ListAssumption, SelectionAssumption DEF List!Ids
<1> HIDE DEF entries, statuses
<1>5. /\ e.id \in entries /\ e.template \in BOOLEAN /\ e.env \in Envs \cup {Nothing}
      /\ e.status \in statuses /\ e.demo \in BOOLEAN
  BY <1>2
<1> QED
  BY <1>1, <1>3, <1>4, <1>5 DEF entries, statuses

LEMMA WithStatus ==
  ASSUME NEW e \in ListEntry, NEW st \in List!Statuses
  PROVE  /\ [e EXCEPT !.status = st] \in ListEntry
         /\ [e EXCEPT !.status = st].id = e.id /\ [e EXCEPT !.status = st].status = st
         /\ [e EXCEPT !.status = st].demo = e.demo
<1> DEFINE entries == List!Ids
           statuses == List!Statuses
           new == [e EXCEPT !.status = st]
<1>1. e \in List!Entry /\ (IF e.demo THEN e.url = DemoUrl /\ ~e.template ELSE e.url \in Urls)
  BY DEF ListEntry
<1>2. e \in [id : entries, url : Urls \cup {DemoUrl}, template : BOOLEAN, env : Envs \cup {Nothing},
             status : statuses, demo : BOOLEAN]
  BY <1>1 DEF List!Entry
<1>3. st \in statuses
  OBVIOUS
<1> HIDE DEF entries, statuses
<1>4. /\ new \in [id : entries, url : Urls \cup {DemoUrl}, template : BOOLEAN, env : Envs \cup {Nothing},
                   status : statuses, demo : BOOLEAN]
      /\ new.id = e.id /\ new.status = st /\ new.demo = e.demo /\ new.url = e.url
      /\ new.template = e.template
  BY <1>2, <1>3
<1>5. new \in List!Entry
  BY <1>4 DEF List!Entry, entries, statuses
<1> HIDE DEF new
<1>6. new \in ListEntry
  BY <1>1, <1>4, <1>5 DEF ListEntry
<1> QED
  BY <1>4, <1>6 DEF new

(***************************************************************************)
(* A list within the limit in which no connection occurs twice.            *)
(***************************************************************************)
Distinct(list) == \A i, j \in DOMAIN list : list[i].id = list[j].id => i = j

Lists == {list \in Seq(ListEntry) : Len(list) <= ListLimit /\ Distinct(list)}

LEMMA ListsFacts ==
  ASSUME NEW list \in Lists
  PROVE  /\ list \in Seq(ListEntry) /\ list \in Seq(List!Entry) /\ Len(list) <= ListLimit
         /\ Len(list) \in Nat /\ DOMAIN list = 1 .. Len(list)
         /\ \A i \in DOMAIN list : list[i] \in ListEntry
         /\ Members(list) \subseteq ListEntry
<1>1. list \in Seq(ListEntry) /\ Len(list) <= ListLimit
  BY DEF Lists
<1>2. Len(list) \in Nat /\ DOMAIN list = 1 .. Len(list) /\ \A i \in DOMAIN list : list[i] \in ListEntry
  BY <1>1, LenProperties, ElementOfSeq
<1>3. \A i \in 1 .. Len(list) : list[i] \in List!Entry
  BY <1>2 DEF ListEntry
<1>4. list \in Seq(List!Entry)
  BY <1>1, <1>2, <1>3, SeqDef, LenProperties
<1> QED
  BY <1>1, <1>2, <1>4 DEF Members

(***************************************************************************)
(* Changing entries without their ids.                                     *)
(***************************************************************************)
LEMMA ChangedFacts ==
  ASSUME NEW list \in Lists, NEW new, new = [i \in DOMAIN list |-> new[i]],
         \A i \in DOMAIN list : new[i] \in ListEntry /\ new[i].id = list[i].id
  PROVE  new \in Lists /\ Members(new) = {new[i] : i \in DOMAIN list}
<1>1. Len(list) \in Nat /\ DOMAIN list = 1 .. Len(list) /\ Len(list) <= ListLimit
  BY ListsFacts
<1>2. DOMAIN new = DOMAIN list
  OBVIOUS
<1> DEFINE n == Len(list)
<1>3. new \in [1 .. n -> ListEntry]
  BY <1>1
<1>4. n \in Nat /\ n <= ListLimit
  BY <1>1
<1> HIDE DEF n
<1>5. new \in Seq(ListEntry) /\ Len(new) = n
  BY <1>3, <1>4, SeqDef, LenProperties
<1>6. Distinct(new)
  BY <1>2 DEF Distinct, Lists
<1> QED
  BY <1>2, <1>4, <1>5, <1>6 DEF Lists, Members

LEMMA PatchFacts ==
  ASSUME NEW list \in Lists, NEW id, NEW st \in List!Statuses
  PROVE  /\ List!Patch(list, id, st) \in Lists
         /\ \A e \in Members(List!Patch(list, id, st)) :
              IF e.id = id THEN e.status = st ELSE e \in Members(list)
<1> DEFINE new == List!Patch(list, id, st)
           At(i) == IF list[i].id = id THEN [list[i] EXCEPT !.status = st] ELSE list[i]
<1>1. new = [i \in DOMAIN list |-> At(i)]
  BY DEF List!Patch
<1>2. \A i \in DOMAIN list :
        /\ At(i) \in ListEntry /\ At(i).id = list[i].id
        /\ IF list[i].id = id THEN At(i).status = st ELSE At(i) = list[i]
  BY ListsFacts, WithStatus
<1> HIDE DEF At, new
<1>3. new = [i \in DOMAIN list |-> new[i]] /\ \A i \in DOMAIN list : new[i] = At(i)
  BY <1>1
<1>4. new \in Lists /\ Members(new) = {new[i] : i \in DOMAIN list}
  BY <1>2, <1>3, ChangedFacts
<1>5. ASSUME NEW e \in Members(new) PROVE IF e.id = id THEN e.status = st ELSE e \in Members(list)
  <2>1. PICK i \in DOMAIN list : e = At(i)
    BY <1>3, <1>4
  <2> QED
    BY <1>2, <2>1 DEF Members
<1> QED
  BY <1>4, <1>5 DEF new

LEMMA SanitizeFacts ==
  ASSUME NEW list \in Lists
  PROVE  /\ List!Sanitize(list) \in Lists
         /\ \A e \in Members(List!Sanitize(list)) : e.status \notin List!Live
         /\ (\A e \in Members(list) : ~e.demo) => \A e \in Members(List!Sanitize(list)) : ~e.demo
<1> DEFINE new == List!Sanitize(list)
           At(i) == IF list[i].status \in List!Live THEN [list[i] EXCEPT !.status = "disconnected"]
                    ELSE list[i]
<1>1. new = [i \in DOMAIN list |-> At(i)]
  BY DEF List!Sanitize
<1>2. \A i \in DOMAIN list :
        /\ At(i) \in ListEntry /\ At(i).id = list[i].id
        /\ At(i).status \notin List!Live /\ At(i).demo = list[i].demo
  <2>1. "disconnected" \in List!Statuses /\ "disconnected" \notin List!Live
    BY DEF List!Statuses, List!Live
  <2> QED
    BY <2>1, ListsFacts, WithStatus
<1> HIDE DEF At, new
<1>3. new = [i \in DOMAIN list |-> new[i]] /\ \A i \in DOMAIN list : new[i] = At(i)
  BY <1>1
<1>4. new \in Lists /\ Members(new) = {new[i] : i \in DOMAIN list}
  BY <1>2, <1>3, ChangedFacts
<1>5. \A e \in Members(new) : \E i \in DOMAIN list : e = At(i)
  BY <1>3, <1>4
<1>6. \A e \in Members(new) : e.status \notin List!Live
  BY <1>2, <1>5
<1>7. (\A e \in Members(list) : ~e.demo) => \A e \in Members(new) : ~e.demo
  BY <1>2, <1>5 DEF Members
<1> QED
  BY <1>4, <1>6, <1>7 DEF new

(***************************************************************************)
(* Taking entries out.                                                     *)
(***************************************************************************)
LEMMA KeptLists ==
  ASSUME NEW list \in Lists, NEW kept, kept \subseteq DOMAIN list
  PROVE  /\ List!Kept(list, kept) \in Lists
         /\ Members(List!Kept(list, kept)) = {list[i] : i \in kept}
         /\ Members(List!Kept(list, kept)) \subseteq Members(list)
<1> DEFINE left == Kept(list, kept)
           size == Len(list)
           n == Len(left)
<1>1. list \in Seq(ListEntry) /\ Len(list) \in Nat /\ Len(list) <= ListLimit /\ Distinct(list)
  BY ListsFacts DEF Lists
<1>2. /\ left \in Seq(ListEntry) /\ Len(left) <= Len(list) /\ IsFiltering(left, list, kept)
  BY <1>1, KeptFacts
<1>3. Members(left) = {list[i] : i \in kept}
  BY <1>1, KeptMembers
<1> HIDE DEF left
<1>4. Len(left) \in Nat /\ DOMAIN left = 1 .. Len(left)
  BY <1>2, LenProperties
<1>5. n <= ListLimit
  <2>1. n \in Nat /\ size \in Nat /\ n <= size /\ size <= ListLimit
    BY <1>1, <1>2, <1>4
  <2> HIDE DEF n, size
  <2> QED
    BY <2>1, ListAssumption
<1>6. Distinct(left)
  <2>1. PICK o \in [1 .. Len(left) -> kept] :
          /\ \A k \in 1 .. Len(left) : left[k] = list[o[k]]
          /\ \A k, l \in 1 .. Len(left) : o[k] = o[l] => k = l
    BY <1>2 DEF IsFiltering
  <2> QED
    BY <1>1, <1>4, <2>1 DEF Distinct
<1>7. Members(left) \subseteq Members(list)
  BY <1>3 DEF Members
<1> QED
  BY <1>2, <1>3, <1>5, <1>6, <1>7, ListKept DEF Lists, left

LEMMA WithoutFacts ==
  ASSUME NEW list \in Lists, NEW id
  PROVE  /\ List!Without(list, id) \in Lists
         /\ Members(List!Without(list, id)) = {e \in Members(list) : e.id # id}
<1> DEFINE kept == {i \in DOMAIN list : list[i].id # id}
<1>1. kept \subseteq DOMAIN list
  OBVIOUS
<1>2. {list[i] : i \in kept} = {e \in Members(list) : e.id # id}
  BY DEF Members
<1> QED
  BY <1>1, <1>2, KeptLists DEF List!Without

LEMMA UpsertFacts ==
  ASSUME NEW list \in Lists, NEW entry \in ListEntry
  PROVE  /\ List!Upsert(list, entry) \in Lists
         /\ \A e \in Members(List!Upsert(list, entry)) : e = entry \/ (e \in Members(list) /\ e.id # entry.id)
<1> DEFINE rest == List!Without(list, entry.id)
           all == <<entry>> \o rest
           size == Len(rest)
           m == IF Len(all) < ListLimit THEN Len(all) ELSE ListLimit
           new == SubSeq(all, 1, m)
<1>1. List!Upsert(list, entry) = new
  BY DEF List!Upsert
<1>2. rest \in Lists /\ Members(rest) = {e \in Members(list) : e.id # entry.id}
  BY WithoutFacts
<1> HIDE DEF rest
<1>3. /\ rest \in Seq(ListEntry) /\ size \in Nat /\ Len(rest) = size /\ DOMAIN rest = 1 .. size /\ Distinct(rest)
      /\ \A i \in 1 .. size : rest[i] \in Members(rest)
  BY <1>2, ListsFacts DEF Members, Lists
<1> HIDE DEF size
<1>4. /\ all \in Seq(ListEntry) /\ Len(all) = size + 1
      /\ all[1] = entry /\ \A i \in 2 .. size + 1 : all[i] = rest[i - 1]
  <2>1. <<entry>> \in Seq(ListEntry) /\ Len(<<entry>>) = 1 /\ <<entry>>[1] = entry
    OBVIOUS
  <2>2. /\ all \in Seq(ListEntry) /\ Len(all) = Len(<<entry>>) + Len(rest)
        /\ \A i \in 1 .. Len(<<entry>>) + Len(rest) :
             all[i] = IF i <= Len(<<entry>>) THEN <<entry>>[i] ELSE rest[i - Len(<<entry>>)]
    BY <1>3, <2>1, ConcatProperties
  <2> HIDE DEF all
  <2>3. Len(all) = size + 1 /\ \A i \in 1 .. size + 1 : all[i] = IF i <= 1 THEN entry ELSE rest[i - 1]
    BY <1>3, <2>1, <2>2
  <2> QED
    BY <1>3, <2>2, <2>3
<1> HIDE DEF all
<1>5. m \in Nat /\ m <= ListLimit /\ m <= size + 1
  <2> DEFINE total == Len(all)
  <2>1. total = size + 1 /\ size \in Nat /\ ListLimit \in Nat /\ m = IF total < ListLimit THEN total ELSE ListLimit
    BY <1>3, <1>4, ListAssumption
  <2> HIDE DEF total, m
  <2> QED
    BY <2>1
<1> HIDE DEF m
<1>6. \A i \in 1 .. m : all[i] \in ListEntry
  BY <1>3, <1>4, <1>5, ElementOfSeq
<1>7. new \in Seq(ListEntry) /\ Len(new) = m /\ \A i \in 1 .. m : new[i] = all[i]
  BY <1>4, <1>5, <1>6, SubSeqProperties
<1> HIDE DEF new
<1>8. DOMAIN new = 1 .. m
  BY <1>7, LenProperties
<1>9. \A i \in 1 .. m :
        \/ i = 1 /\ new[i] = entry
        \/ i # 1 /\ i - 1 \in 1 .. size /\ new[i] = rest[i - 1]
  <2> TAKE i \in 1 .. m
  <2>1. i # 1 => i \in 2 .. size + 1 /\ i - 1 \in 1 .. size
    BY <1>3, <1>5
  <2>2. new[i] = all[i]
    BY <1>7
  <2>3. all[1] = entry /\ (i # 1 => all[i] = rest[i - 1])
    BY <1>4, <2>1
  <2>4. CASE i = 1
    BY <2>2, <2>3, <2>4
  <2>5. CASE i # 1
    BY <2>1, <2>2, <2>3, <2>5
  <2> QED
    BY <2>4, <2>5
<1>10. \A i \in 1 .. size : rest[i].id # entry.id /\ rest[i] \in Members(list)
  BY <1>2, <1>3
<1>11. Distinct(new)
  <2> SUFFICES ASSUME NEW i \in 1 .. m, NEW j \in 1 .. m, new[i].id = new[j].id PROVE i = j
    BY <1>8 DEF Distinct
  <2>1. CASE i = 1 /\ new[i] = entry
    BY <1>9, <1>10, <2>1
  <2>2. CASE i # 1 /\ i - 1 \in 1 .. size /\ new[i] = rest[i - 1]
    <3>1. j # 1 /\ j - 1 \in 1 .. size /\ new[j] = rest[j - 1]
      BY <1>9, <1>10, <2>2
    <3>2. i - 1 = j - 1
      BY <1>3, <2>2, <3>1 DEF Distinct
    <3> QED
      BY <1>5, <3>2
  <2> QED
    BY <1>9, <2>1, <2>2
<1>12. \A e \in Members(new) : e = entry \/ (e \in Members(list) /\ e.id # entry.id)
  BY <1>8, <1>9, <1>10 DEF Members
<1> QED
  BY <1>1, <1>5, <1>7, <1>11, <1>12 DEF Lists

(***************************************************************************)
(* What the list says of the connections that are alive, the lost ones     *)
(* excepted.                                                               *)
(***************************************************************************)
Truthful(list, live, demo, st, lost) ==
  /\ \A e \in Members(list) : e.status \in List!Live => e.id \in {live, demo} \cup lost
  /\ \A e \in Members(list) : e.id = live => e.status = st \/ e.id \in lost

(***************************************************************************)
(* A socket is held for the active connection as long as the status says   *)
(* so.  A connection that is active without one was stranded by a refused  *)
(* connect(), and a demo may then run beside it, under an id of its own.   *)
(***************************************************************************)
SocketInv ==
  /\ socket \in {"none", "live", "closing"} /\ stranded \subseteq List!Ids
  /\ status \in List!Live <=> socket # "none"
  /\ socket # "none" => activeConn # Nothing
  /\ socket = "none" /\ activeConn # Nothing => activeConn \in stranded
  /\ demoConn # Nothing => demoConn # activeConn

NoneLive(list) == \A e \in Members(list) : ~e.demo /\ e.status \notin List!Live

(***************************************************************************)
(* The inductive invariant.  An id that is given out for a new entry is    *)
(* not that of the active connection, which may no longer be listed; a     *)
(* demo has an id of its own, or stopping it could patch the entry of the  *)
(* connection; and what a restart takes from the storage is a list again.  *)
(***************************************************************************)
ListInv ==
  /\ connections \in Lists
  /\ selectedConnection \in ConnectionIds /\ activeConn \in ConnectionIds
  /\ redial \in ConnectionIds /\ demoConn \in ConnectionIds
  /\ status \in List!Statuses /\ endpoint \in Urls
  /\ envUrl \in [Envs -> Urls \cup {Nothing}] /\ activeEnv \in Envs /\ persists \in BOOLEAN
  /\ ids \in 0 .. MaxConnections /\ (activeConn # Nothing => activeConn <= ids)
  /\ SocketInv
  /\ stored.list \in Lists /\ stored.endpoint \in Urls /\ stored.selected \in ConnectionIds
  /\ Truthful(connections, activeConn, demoConn, status, stranded)
  /\ NoneLive(stored.list)
  /\ ~persists => stored.list = <<>> /\ stored.selected = Nothing

LEMMA EmptyList == <<>> \in Lists /\ Members(<<>>) = {}
<1>1. <<>> \in Seq(ListEntry) /\ Len(<<>>) = 0 /\ DOMAIN <<>> = {}
  OBVIOUS
<1> QED
  BY <1>1, ListAssumption DEF Lists, Distinct, Members

LEMMA StoreFacts ==
  ASSUME NEW list \in Lists, NEW url \in Urls, NEW sel \in ConnectionIds, persists' \in BOOLEAN,
         List!Store(list, url, sel)
  PROVE  /\ stored'.list \in Lists /\ stored'.endpoint \in Urls /\ stored'.selected \in ConnectionIds
         /\ NoneLive(stored'.list)
         /\ ~persists' => stored'.list = <<>> /\ stored'.selected = Nothing
<1> DEFINE kept == {i \in DOMAIN list : ~list[i].demo}
           left == List!Kept(list, kept)
           clean == List!Sanitize(left)
<1>1. left \in Lists /\ Members(left) = {list[i] : i \in kept}
  BY KeptLists
<1>2. \A e \in Members(left) : ~e.demo
  BY <1>1
<1>3. clean \in Lists /\ NoneLive(clean)
  BY <1>1, <1>2, SanitizeFacts DEF NoneLive
<1>4. <<>> \in Lists /\ NoneLive(<<>>)
  BY EmptyList DEF NoneLive
<1>5. stored' = [list |-> IF persists' THEN clean ELSE <<>>, endpoint |-> url,
                 selected |-> IF persists' THEN sel ELSE Nothing]
  BY DEF List!Store
<1> HIDE DEF clean
<1>6. /\ stored'.list = IF persists' THEN clean ELSE <<>>
      /\ stored'.endpoint = url /\ stored'.selected = IF persists' THEN sel ELSE Nothing
  BY <1>5
<1>7. stored'.list \in Lists /\ NoneLive(stored'.list)
  BY <1>3, <1>4, <1>6
<1>8. Nothing \in ConnectionIds
  BY DEF ConnectionIds
<1> QED
  BY <1>6, <1>7, <1>8

LEMMA ListKeeps ==
  ASSUME connections' \in Lists,
         selectedConnection' \in ConnectionIds, activeConn' \in ConnectionIds,
         redial' \in ConnectionIds, demoConn' \in ConnectionIds,
         status' \in List!Statuses, endpoint' \in Urls,
         envUrl' \in [Envs -> Urls \cup {Nothing}], activeEnv' \in Envs, persists' \in BOOLEAN,
         ids' \in 0 .. MaxConnections, activeConn' # Nothing => activeConn' <= ids',
         SocketInv',
         Truthful(connections', activeConn', demoConn', status', stranded'),
         List!Store(connections', endpoint', selectedConnection')
  PROVE  ListInv'
BY StoreFacts DEF ListInv

LEMMA ListInvFacts ==
  ASSUME ListInv
  PROVE  /\ connections \in Lists
         /\ selectedConnection \in ConnectionIds /\ activeConn \in ConnectionIds
         /\ redial \in ConnectionIds /\ demoConn \in ConnectionIds
         /\ status \in List!Statuses /\ endpoint \in Urls
         /\ envUrl \in [Envs -> Urls \cup {Nothing}] /\ activeEnv \in Envs /\ persists \in BOOLEAN
         /\ ids \in 0 .. MaxConnections /\ (activeConn # Nothing => activeConn <= ids)
         /\ SocketInv
         /\ Truthful(connections, activeConn, demoConn, status, stranded)
BY DEF ListInv

(***************************************************************************)
(* An entry becomes live only as the active one or the demo's.  All other  *)
(* entries keep their status, so those that are no longer excepted must    *)
(* not be live, and the active one must agree with the new status.         *)
(***************************************************************************)
StillTruthful(id, live, demo, st, lost, live2, demo2, st2, lost2) ==
  /\ {live, demo} \cup lost \subseteq {live2, demo2, id, Nothing} \cup lost2
  /\ live2 \in {live, id, Nothing}
  /\ live2 = live /\ live \notin {id, Nothing} => (st2 = st /\ lost \subseteq lost2 \cup {id}) \/ live \in lost2

LEMMA PatchedTruthful ==
  ASSUME NEW list \in Lists, NEW live, NEW demo, NEW st, NEW lost, Truthful(list, live, demo, st, lost),
         NEW id, NEW new \in List!Statuses, NEW live2, NEW demo2, NEW st2, NEW lost2,
         StillTruthful(id, live, demo, st, lost, live2, demo2, st2, lost2),
         new \in List!Live => id \in {live2, demo2},
         id = live2 => st2 = new \/ id \in lost2 \/ id = Nothing
  PROVE  Truthful(List!Patch(list, id, new), live2, demo2, st2, lost2)
<1> DEFINE patched == List!Patch(list, id, new)
<1>1. /\ patched \in Lists
      /\ \A e \in Members(patched) : IF e.id = id THEN e.status = new ELSE e \in Members(list)
  BY PatchFacts
<1>2. \A e \in Members(patched) : e.id # Nothing
  BY <1>1, ListsFacts, EntryFacts
<1> HIDE DEF patched
<1>3. ASSUME NEW e \in Members(patched), e.status \in List!Live PROVE e.id \in {live2, demo2} \cup lost2
  BY <1>1, <1>2, <1>3 DEF Truthful, StillTruthful
<1>4. ASSUME NEW e \in Members(patched), e.id = live2 PROVE e.status = st2 \/ e.id \in lost2
  BY <1>1, <1>2, <1>4 DEF Truthful, StillTruthful
<1> QED
  BY <1>3, <1>4 DEF Truthful, patched

LEMMA UpsertTruthful ==
  ASSUME NEW list \in Lists, NEW live, NEW demo, NEW st, NEW lost, Truthful(list, live, demo, st, lost),
         NEW entry \in ListEntry, NEW live2, NEW demo2, NEW st2, NEW lost2,
         StillTruthful(entry.id, live, demo, st, lost, live2, demo2, st2, lost2),
         entry.status \in List!Live => entry.id \in {live2, demo2} \cup lost2,
         entry.id = live2 => entry.status = st2 \/ entry.id \in lost2
  PROVE  Truthful(List!Upsert(list, entry), live2, demo2, st2, lost2)
<1> DEFINE new == List!Upsert(list, entry)
<1>1. /\ new \in Lists
      /\ \A e \in Members(new) : e = entry \/ (e \in Members(list) /\ e.id # entry.id)
  BY UpsertFacts
<1>2. \A e \in Members(new) : e.id # Nothing
  BY <1>1, ListsFacts, EntryFacts
<1> HIDE DEF new
<1>3. ASSUME NEW e \in Members(new), e.status \in List!Live PROVE e.id \in {live2, demo2} \cup lost2
  BY <1>1, <1>2, <1>3 DEF Truthful, StillTruthful
<1>4. ASSUME NEW e \in Members(new), e.id = live2 PROVE e.status = st2 \/ e.id \in lost2
  BY <1>1, <1>2, <1>4 DEF Truthful, StillTruthful
<1> QED
  BY <1>3, <1>4 DEF Truthful, new

(***************************************************************************)
(* The entry that is found is listed, and stands for the URL itself or for *)
(* the template.                                                           *)
(***************************************************************************)
LEMMA TargetFacts ==
  ASSUME ListInv, NEW id
  PROVE  \/ List!Target(id) = Nothing
         \/ List!Target(id) \in Members(connections) /\ List!Target(id) \in ListEntry /\ List!Target(id).id = id
<1> DEFINE found == {i \in DOMAIN connections : connections[i].id = id}
<1>1. List!Target(id) = IF found = {} THEN Nothing ELSE connections[List!Min(found)]
  BY DEF List!Target, List!First
<1>2. \/ List!Target(id) = Nothing
      \/ \E i \in found : List!Target(id) = connections[i]
  <2>1. connections \in Seq(ListEntry)
    BY ListInvFacts, ListsFacts
  <2> DEFINE first == IF found = {} THEN Nothing ELSE connections[List!Min(found)]
  <2>2. first = Nothing \/ \E i \in found : first = connections[i]
    BY <2>1, FirstFacts
  <2> HIDE DEF found, first
  <2>3. List!Target(id) = first
    BY <1>1 DEF first
  <2> QED
    BY <2>2, <2>3
<1> QED
  BY <1>2, ListInvFacts, ListsFacts DEF Members

LEMMA ExistingFacts ==
  ASSUME ListInv, NEW template \in BOOLEAN, NEW env, NEW url \in Urls
  PROVE  LET old == List!ExistingFor(connections, template, env, url)
         IN  \/ old = Nothing
             \/ old \in Members(connections) /\ old \in ListEntry /\ ~old.demo
<1> DEFINE same == {i \in DOMAIN connections :
                     template /\ connections[i].template /\ connections[i].env = env}
           alike == {i \in DOMAIN connections : connections[i].url = url}
           first == IF same = {} THEN Nothing ELSE connections[List!Min(same)]
           second == IF alike = {} THEN Nothing ELSE connections[List!Min(alike)]
           old == List!ExistingFor(connections, template, env, url)
<1>1. old = IF first # Nothing THEN first ELSE second
  BY DEF List!ExistingFor, List!First
<1>2. connections \in Seq(ListEntry)
  BY ListInvFacts, ListsFacts
<1>3. first = Nothing \/ \E i \in same : first = connections[i]
  BY <1>2, FirstFacts
<1>4. second = Nothing \/ \E i \in alike : second = connections[i]
  BY <1>2, FirstFacts
<1> HIDE DEF first, second, old
<1>5. \A i \in DOMAIN connections :
        /\ connections[i] \in Members(connections) /\ connections[i] \in ListEntry
        /\ connections[i].demo => connections[i].url = DemoUrl /\ ~connections[i].template
  BY ListInvFacts, ListsFacts, EntryFacts DEF Members
<1>6. DemoUrl # url
  BY ListAssumption
<1>7. old = Nothing \/ (old \in Members(connections) /\ old \in ListEntry /\ ~old.demo)
  BY <1>1, <1>3, <1>4, <1>5, <1>6
<1> QED
  BY <1>7 DEF old

LEMMA ResolveFacts ==
  ASSUME ListInv, NEW env \in Envs \cup {Nothing}
  PROVE  List!Resolve(Template, env) \in Urls \cup {Nothing}
<1> DEFINE e == IF env = Nothing THEN activeEnv ELSE env
<1>1. e \in Envs /\ envUrl \in [Envs -> Urls \cup {Nothing}]
  BY ListInvFacts
<1>2. List!Resolve(Template, env) = envUrl[e]
  BY DEF List!Resolve
<1> HIDE DEF e
<1> QED
  BY <1>1, <1>2

LEMMA SaveConnectionKeeps ==
  ASSUME ListInv, NEW text \in Typed \cup {Template}, List!SaveConnection(text)
  PROVE  ListInv'
<1> DEFINE template == text = Template
           env == IF template THEN activeEnv ELSE Nothing
           url == List!Resolve(text, env)
           old == List!ExistingFor(connections, template, env, url)
           id == IF old = Nothing THEN ids + 1 ELSE old.id
           st == IF old = Nothing THEN "idle" ELSE old.status
           demo == IF old = Nothing THEN FALSE ELSE old.demo
           entry == EntryOf(id, url, template, env, st, demo)
<1>1. /\ url # Nothing /\ (old = Nothing => ids < MaxConnections)
      /\ ids' = IF old = Nothing THEN ids + 1 ELSE ids
      /\ connections' = List!Upsert(connections, entry)
      /\ selectedConnection' = entry.id /\ endpoint' = url
      /\ status' = IF activeConn # Nothing THEN status ELSE "idle"
      /\ redial' = redial /\ activeConn' = activeConn /\ demoConn' = demoConn /\ envUrl' = envUrl
      /\ activeEnv' = activeEnv /\ persists' = persists /\ socket' = socket /\ stranded' = stranded
      /\ List!Store(connections', endpoint', selectedConnection')
  BY DEF List!SaveConnection, EntryOf
<1>2. template \in BOOLEAN /\ env \in Envs \cup {Nothing}
  BY ListInvFacts
<1>3. url \in Urls
  <2>1. CASE template
    BY <1>1, <1>2, <2>1, ResolveFacts
  <2>2. CASE ~template
    BY <2>2, ListAssumption DEF List!Resolve
  <2> QED
    BY <2>1, <2>2
<1>4. old = Nothing \/ (old \in Members(connections) /\ old \in ListEntry /\ ~old.demo)
  <2> HIDE DEF template, env, url
  <2> QED
    BY <1>2, <1>3, ExistingFacts
<1> HIDE DEF template, env, url, old
<1>5. ids \in 0 .. MaxConnections /\ ids' \in 0 .. MaxConnections /\ ids <= ids' /\ MaxConnections \in Nat
  BY <1>1, ListInvFacts, ListAssumption
<1>6. id \in List!Ids /\ st \in List!Statuses /\ demo = FALSE
  <2>1. CASE old = Nothing
    BY <1>1, <1>5, <2>1 DEF List!Ids, List!Statuses
  <2>2. CASE old # Nothing
    BY <1>4, <2>2, EntryFacts
  <2> QED
    BY <2>1, <2>2
<1>7. entry \in ListEntry /\ entry.id = id /\ entry.status = st
  <2>1. entry \in ListEntry
    <3> HIDE DEF id, st, demo
    <3> QED
      BY <1>2, <1>3, <1>6, NewEntry
  <2> QED
    BY <2>1 DEF EntryOf
<1>8. st \in List!Live => id \in {activeConn, demoConn} \cup stranded
  BY <1>4, ListInvFacts DEF Truthful, List!Live
<1>9. id = activeConn => st = status \/ id \in stranded
  <2>1. ASSUME old = Nothing PROVE id # activeConn
    <3>1. id = ids + 1 /\ ids \in Nat
      BY <1>5, <2>1
    <3>2. activeConn = Nothing \/ (activeConn \in Nat /\ activeConn <= ids)
      BY ListInvFacts, ListAssumption DEF ConnectionIds, List!Ids
    <3>3. Nothing \notin Nat
      BY SelectionAssumption
    <3> HIDE DEF id
    <3> QED
      BY <3>1, <3>2, <3>3
  <2>2. ASSUME old # Nothing PROVE id = activeConn => st = status \/ id \in stranded
    BY <1>4, <2>2, ListInvFacts DEF Truthful
  <2> QED
    BY <2>1, <2>2
<1> HIDE DEF id, st, demo, entry
<1>10. id = activeConn => st = status' \/ id \in stranded
  <2>1. id # Nothing
    BY <1>7, EntryFacts
  <2> QED
    BY <1>1, <1>9, <2>1
<1>11. connections' \in Lists
  BY <1>1, <1>7, ListInvFacts, UpsertFacts
<1>12. Truthful(connections', activeConn', demoConn', status', stranded')
  <2>1. StillTruthful(id, activeConn, demoConn, status, stranded, activeConn, demoConn, status', stranded)
    BY <1>1 DEF StillTruthful
  <2> QED
    BY <1>1, <1>7, <1>8, <1>10, <2>1, ListInvFacts, UpsertTruthful
<1>13. status' \in List!Statuses /\ selectedConnection' \in ConnectionIds
  BY <1>1, <1>6, <1>7, ListInvFacts DEF List!Statuses, ConnectionIds
<1>14. activeConn' # Nothing => activeConn' <= ids'
  <2>1. ASSUME activeConn # Nothing PROVE activeConn <= ids'
    <3>1. activeConn \in Nat /\ activeConn <= ids
      BY <2>1, ListInvFacts, ListAssumption DEF ConnectionIds, List!Ids
    <3> QED
      BY <1>5, <3>1
  <2> QED
    BY <1>1, <2>1
<1>15. SocketInv'
  BY <1>1, ListInvFacts DEF SocketInv, List!Live
<1> QED
  BY <1>1, <1>3, <1>5, <1>11, <1>12, <1>13, <1>14, <1>15, ListInvFacts, ListKeeps

LEMMA RefusedKeeps ==
  ASSUME ListInv, NEW id, id \in ConnectionIds, redial' \in ConnectionIds, List!ConnectRefused(id)
  PROVE  ListInv'
<1>1. /\ socket # "live" /\ socket' = "none" /\ stranded' = List!Stranded
      /\ connections' = List!Patch(connections, id, "error")
      /\ selectedConnection' = IF List!Target(id) = Nothing THEN selectedConnection ELSE id
      /\ status' = "error"
      /\ activeConn' = activeConn /\ endpoint' = endpoint /\ demoConn' = demoConn /\ envUrl' = envUrl
      /\ activeEnv' = activeEnv /\ persists' = persists /\ ids' = ids
      /\ List!Store(connections', endpoint', selectedConnection')
  BY DEF List!ConnectRefused, List!CanConnect
<1>2. "error" \in List!Statuses /\ "error" \notin List!Live
  BY DEF List!Statuses, List!Live
<1>3. connections' \in Lists
  BY <1>1, <1>2, ListInvFacts, PatchFacts
<1>4. Truthful(connections', activeConn', demoConn', status', stranded')
  <2>1. StillTruthful(id, activeConn, demoConn, status, stranded, activeConn, demoConn, "error", stranded')
    BY <1>1, ListInvFacts DEF StillTruthful, SocketInv, List!Stranded
  <2> QED
    BY <1>1, <1>2, <2>1, ListInvFacts, PatchedTruthful
<1>5. selectedConnection' \in ConnectionIds
  BY <1>1, ListInvFacts
<1>6. SocketInv'
  BY <1>1, <1>2, ListInvFacts DEF SocketInv, List!Stranded, ConnectionIds
<1> QED
  BY <1>1, <1>2, <1>3, <1>4, <1>5, <1>6, ListInvFacts, ListKeeps

(***************************************************************************)
(* A demo's entry is not connected to: its endpoint is refused.            *)
(***************************************************************************)
LEMMA ConnectKeeps ==
  ASSUME ListInv, NEW id, id \in ConnectionIds, redial' \in ConnectionIds, List!Connect(id)
  PROVE  ListInv'
<1> DEFINE t == List!Target(id)
           template == t # Nothing /\ t.template
           env == IF t = Nothing THEN Nothing ELSE t.env
           url == List!Resolve(List!ConnectText(id), env)
           existing == List!ExistingFor(connections, template, env, url)
           old == IF t # Nothing THEN t ELSE existing
           new == IF old # Nothing THEN old.id ELSE IF id # Nothing THEN id ELSE ids + 1
           demo == IF old = Nothing THEN FALSE ELSE old.demo
           entry == EntryOf(new, url, template, env, "connecting", demo)
<1>1. List!ConnectEntry(id, template, env, url) = entry
  BY DEF List!ConnectEntry, EntryOf
<1>2. /\ socket # "live" /\ demoConn = Nothing /\ url \in Urls
      /\ socket' = "live" /\ stranded' = List!Stranded \ {entry.id}
      /\ entry.id <= MaxConnections
      /\ ids' = IF entry.id > ids THEN entry.id ELSE ids
      /\ activeConn' = entry.id /\ connections' = List!Upsert(connections, entry)
      /\ endpoint' = url /\ selectedConnection' = entry.id /\ status' = "connecting"
      /\ demoConn' = demoConn /\ envUrl' = envUrl /\ activeEnv' = activeEnv /\ persists' = persists
      /\ List!Store(connections', endpoint', selectedConnection')
  <2> HIDE DEF entry
  <2> QED
    BY <1>1 DEF List!Connect, List!CanConnect
<1>3. entry.id = new /\ entry.status = "connecting"
  BY DEF EntryOf
<1>4. t = Nothing \/ (t \in Members(connections) /\ t \in ListEntry /\ t.id = id)
  BY TargetFacts
<1>5. t # Nothing => ~t.demo
  <2>1. SUFFICES ASSUME t # Nothing, t.demo PROVE FALSE
    OBVIOUS
  <2>2. t.url = DemoUrl /\ ~t.template
    BY <1>4, <2>1, EntryFacts
  <2>3. List!ConnectText(id) = DemoUrl
    BY <2>1, <2>2 DEF List!ConnectText
  <2>4. url = DemoUrl
    <3> HIDE DEF env
    <3> QED
      BY <2>3, ListAssumption DEF List!Resolve
  <2> QED
    BY <1>2, <2>4, ListAssumption
<1> HIDE DEF t, url
<1>6. template \in BOOLEAN /\ env \in Envs \cup {Nothing}
  <2>1. CASE t = Nothing
    BY <2>1
  <2>2. CASE t # Nothing
    BY <1>4, <2>2, EntryFacts
  <2> QED
    BY <2>1, <2>2
<1> HIDE DEF template, env
<1>7. existing = Nothing \/ (existing \in Members(connections) /\ existing \in ListEntry /\ ~existing.demo)
  BY <1>2, <1>6, ExistingFacts
<1> HIDE DEF existing
<1>8. old = Nothing \/ (old \in Members(connections) /\ old \in ListEntry /\ ~old.demo)
  BY <1>4, <1>5, <1>7
<1> HIDE DEF old
<1>9. ids \in 0 .. MaxConnections /\ MaxConnections \in Nat /\ new <= MaxConnections
  BY <1>2, <1>3, ListInvFacts, ListAssumption
<1>10. new \in List!Ids
  <2>1. CASE old # Nothing
    BY <1>8, <2>1, EntryFacts
  <2>2. CASE old = Nothing /\ id # Nothing
    BY <2>2 DEF ConnectionIds
  <2>3. CASE old = Nothing /\ id = Nothing
    <3>1. new = ids + 1
      BY <2>3
    <3> HIDE DEF new
    <3> QED
      BY <1>9, <3>1 DEF List!Ids
  <2> QED
    BY <2>1, <2>2, <2>3
<1>11. demo = FALSE
  BY <1>8, EntryFacts
<1> HIDE DEF new, demo
<1>12. entry \in ListEntry
  BY <1>2, <1>6, <1>10, <1>11, NewEntry DEF List!Statuses
<1> HIDE DEF entry
<1>13. /\ ids' \in 0 .. MaxConnections /\ activeConn' <= ids'
       /\ activeConn' \in ConnectionIds /\ selectedConnection' \in ConnectionIds
  BY <1>2, <1>3, <1>9, <1>10 DEF List!Ids, ConnectionIds
<1>14. connections' \in Lists
  BY <1>2, <1>12, ListInvFacts, UpsertFacts
<1>15. Truthful(connections', activeConn', demoConn', status', stranded')
  <2>1. StillTruthful(entry.id, activeConn, demoConn, status, stranded,
                      activeConn', demoConn', status', stranded')
    BY <1>2, ListInvFacts DEF StillTruthful, SocketInv, List!Stranded
  <2> QED
    BY <1>2, <1>3, <1>12, <2>1, ListInvFacts, UpsertTruthful
<1>16. status' \in List!Statuses
  BY <1>2 DEF List!Statuses
<1>17. SocketInv'
  <2>1. activeConn' # Nothing
    BY <1>2, <1>12, EntryFacts
  <2>2. List!Stranded \subseteq List!Ids
    BY <1>2, ListInvFacts DEF SocketInv, List!Stranded, ConnectionIds
  <2> QED
    BY <1>2, <2>1, <2>2 DEF SocketInv, List!Live
<1> QED
  BY <1>2, <1>13, <1>14, <1>15, <1>16, <1>17, ListInvFacts, ListKeeps

LEMMA ConnectToKeeps ==
  ASSUME ListInv, NEW id \in List!ListedIds(connections) \cup {selectedConnection}, List!ConnectTo(id)
  PROVE  ListInv'
<1>1. id \in ConnectionIds
  BY ListInvFacts, ListsFacts, EntryFacts, ListMembers DEF List!ListedIds, ConnectionIds
<1>2. redial' \in ConnectionIds
  BY ListInvFacts DEF List!ConnectTo
<1> QED
  BY <1>1, <1>2, ConnectKeeps, RefusedKeeps DEF List!ConnectTo

LEMMA ListUnchanged ==
  ASSUME ListInv, redial' \in ConnectionIds, envUrl' \in [Envs -> Urls \cup {Nothing}], activeEnv' \in Envs,
         persists' = persists \/ persists' = TRUE, SocketInv',
         UNCHANGED <<connections, selectedConnection, activeConn, status, stranded, endpoint, demoConn,
                     stored, ids>>
  PROVE  ListInv'
BY DEF ListInv, Truthful, NoneLive

LEMMA SocketUnchanged ==
  ASSUME ListInv, UNCHANGED <<activeConn, demoConn, status, socket, stranded>>
  PROVE  SocketInv'
BY ListInvFacts DEF SocketInv

LEMMA StartsClosingKeeps == ListInv /\ List!StartsClosing => ListInv'
<1> SUFFICES ASSUME ListInv, List!StartsClosing PROVE ListInv'
  OBVIOUS
<1>1. SocketInv'
  BY ListInvFacts DEF List!StartsClosing, SocketInv
<1> QED
  BY <1>1, ListInvFacts, ListUnchanged DEF List!StartsClosing

LEMMA OpenedKeeps == ListInv /\ List!Opened => ListInv'
<1> SUFFICES ASSUME ListInv, List!Opened PROVE ListInv'
  OBVIOUS
<1>1. /\ status = "connecting" /\ status' = "connected"
      /\ connections' = List!Patch(connections, activeConn, "connected")
      /\ redial' = redial /\ selectedConnection' = selectedConnection /\ activeConn' = activeConn
      /\ endpoint' = endpoint /\ demoConn' = demoConn /\ envUrl' = envUrl
      /\ activeEnv' = activeEnv /\ persists' = persists /\ ids' = ids
      /\ socket' = socket /\ stranded' = stranded
      /\ List!Store(connections', endpoint', selectedConnection')
  BY DEF List!Opened
<1>2. "connected" \in List!Statuses
  BY DEF List!Statuses
<1>3. connections' \in Lists
  BY <1>1, <1>2, ListInvFacts, PatchFacts
<1>4. Truthful(connections', activeConn', demoConn', status', stranded')
  <2>1. StillTruthful(activeConn, activeConn, demoConn, status, stranded,
                      activeConn, demoConn, "connected", stranded)
    BY DEF StillTruthful
  <2> QED
    BY <1>1, <1>2, <2>1, ListInvFacts, PatchedTruthful
<1>5. SocketInv'
  BY <1>1, ListInvFacts DEF SocketInv, List!Live
<1> QED
  BY <1>1, <1>2, <1>3, <1>4, <1>5, ListInvFacts, ListKeeps

LEMMA EndsKeeps ==
  ASSUME ListInv, NEW st \in {"disconnected", "error"}, redial' \in ConnectionIds, List!Ends(st)
  PROVE  ListInv'
<1>1. /\ activeConn # Nothing /\ status' = st /\ connections' = List!Patch(connections, activeConn, st)
      /\ activeConn' = Nothing /\ selectedConnection' = selectedConnection
      /\ endpoint' = endpoint /\ demoConn' = demoConn /\ envUrl' = envUrl
      /\ activeEnv' = activeEnv /\ persists' = persists /\ ids' = ids
      /\ socket' = "none" /\ stranded' = stranded \ {activeConn}
      /\ List!Store(connections', endpoint', selectedConnection')
  BY DEF List!Ends
<1>2. st \in List!Statuses /\ st \notin List!Live
  BY DEF List!Statuses, List!Live
<1>3. connections' \in Lists
  BY <1>1, <1>2, ListInvFacts, PatchFacts
<1>4. Truthful(connections', activeConn', demoConn', status', stranded')
  <2>1. StillTruthful(activeConn, activeConn, demoConn, status, stranded, Nothing, demoConn, st, stranded')
    BY <1>1 DEF StillTruthful
  <2> QED
    BY <1>1, <1>2, <2>1, ListInvFacts, PatchedTruthful
<1>5. activeConn' \in ConnectionIds
  BY <1>1 DEF ConnectionIds
<1>6. SocketInv'
  BY <1>1, <1>2, ListInvFacts DEF SocketInv
<1> QED
  BY <1>1, <1>2, <1>3, <1>4, <1>5, <1>6, ListInvFacts, ListKeeps

LEMMA EndKeeps == ListInv /\ List!End => ListInv'
<1> SUFFICES ASSUME ListInv, List!End PROVE ListInv'
  OBVIOUS
<1>1. redial' \in ConnectionIds
  BY ListInvFacts DEF List!End
<1>2. PICK st \in {"disconnected", "error"} : List!Ends(st)
  BY DEF List!End
<1> QED
  BY <1>1, <1>2, EndsKeeps

LEMMA ReconnectKeeps == ListInv /\ List!Reconnect => ListInv'
BY EndsKeeps, ListInvFacts DEF List!Reconnect

LEMMA RedialKeeps == ListInv /\ List!Redial => ListInv'
<1> SUFFICES ASSUME ListInv, List!Redial PROVE ListInv'
  OBVIOUS
<1>1. redial' \in ConnectionIds /\ redial \in ConnectionIds
  BY ListInvFacts DEF List!Redial, ConnectionIds
<1>2. CASE List!CanConnect
  BY <1>1, <1>2, ConnectKeeps, RefusedKeeps DEF List!Redial
<1>3. CASE ~List!CanConnect
  <2>1. UNCHANGED <<connections, selectedConnection, activeConn, status, socket, stranded, endpoint,
                    demoConn, envUrl, activeEnv, persists, stored, ids>>
    BY <1>3 DEF List!Redial
  <2> QED
    BY <1>1, <2>1, ListInvFacts, ListUnchanged, SocketUnchanged
<1> QED
  BY <1>2, <1>3

LEMMA SelectConnectionKeeps == ListInv /\ List!SelectConnection => ListInv'
<1> SUFFICES ASSUME ListInv, List!SelectConnection PROVE ListInv'
  OBVIOUS
<1>1. PICK i \in DOMAIN connections :
        /\ selectedConnection' = connections[i].id
        /\ endpoint' = IF connections[i].demo THEN endpoint ELSE connections[i].url
        /\ redial' = redial /\ connections' = connections /\ activeConn' = activeConn /\ status' = status
        /\ demoConn' = demoConn /\ envUrl' = envUrl /\ activeEnv' = activeEnv /\ persists' = persists
        /\ ids' = ids /\ socket' = socket /\ stranded' = stranded
        /\ List!Store(connections', endpoint', selectedConnection')
  BY DEF List!SelectConnection
<1>2. connections[i] \in ListEntry
  BY ListInvFacts, ListsFacts
<1>3. selectedConnection' \in ConnectionIds /\ endpoint' \in Urls
  BY <1>1, <1>2, EntryFacts, ListInvFacts DEF ConnectionIds
<1> QED
  BY <1>1, <1>3, SocketUnchanged, ListInvFacts, ListKeeps

LEMMA StartDemoKeeps == ListInv /\ List!StartDemo => ListInv'
<1> SUFFICES ASSUME ListInv, List!StartDemo PROVE ListInv'
  OBVIOUS
<1> DEFINE id == ids + 1
           entry == EntryOf(id, DemoUrl, FALSE, Nothing, "connected", TRUE)
<1>1. /\ demoConn = Nothing /\ status \notin List!Live /\ ids < MaxConnections
      /\ socket' = socket /\ stranded' = stranded
      /\ ids' = id /\ demoConn' = id /\ connections' = List!Upsert(connections, entry)
      /\ selectedConnection' = id
      /\ redial' = redial /\ activeConn' = activeConn /\ status' = status /\ endpoint' = endpoint
      /\ envUrl' = envUrl /\ activeEnv' = activeEnv /\ persists' = persists
      /\ List!Store(connections', endpoint', selectedConnection')
  BY DEF List!StartDemo, EntryOf
<1>2. id \in List!Ids /\ id \in 0 .. MaxConnections /\ id # Nothing
  BY <1>1, ListInvFacts, ListAssumption, SelectionAssumption DEF List!Ids
<1>6. id # activeConn
  BY <1>2, ListInvFacts, ListAssumption DEF ConnectionIds, List!Ids
<1>9. ids <= id /\ ids \in Nat /\ id \in Nat
  BY ListInvFacts, ListAssumption
<1> HIDE DEF id
<1>3. entry \in ListEntry /\ entry.id = id /\ entry.status = "connected"
  <2>1. entry \in ListEntry
    BY <1>2, NewEntry DEF List!Statuses
  <2> QED
    BY <2>1 DEF EntryOf
<1> HIDE DEF entry
<1>4. connections' \in Lists
  BY <1>1, <1>3, ListInvFacts, UpsertFacts
<1>5. Truthful(connections', activeConn', demoConn', status', stranded')
  <2>1. StillTruthful(id, activeConn, demoConn, status, stranded, activeConn, id, status, stranded)
    BY <1>1 DEF StillTruthful
  <2> QED
    BY <1>1, <1>3, <1>6, <2>1, ListInvFacts, UpsertTruthful
<1>7. SocketInv'
  BY <1>1, <1>6, ListInvFacts DEF SocketInv
<1>8. activeConn' # Nothing => activeConn' <= ids'
  BY <1>1, <1>9, ListInvFacts, ListAssumption DEF ConnectionIds, List!Ids
<1> QED
  BY <1>1, <1>2, <1>4, <1>5, <1>7, <1>8, ListInvFacts, ListKeeps DEF ConnectionIds

LEMMA StopDemoKeeps == ListInv /\ List!StopDemo => ListInv'
<1> SUFFICES ASSUME ListInv, List!StopDemo PROVE ListInv'
  OBVIOUS
<1>1. /\ demoConn # Nothing /\ demoConn' = Nothing
      /\ connections' = List!Patch(connections, demoConn, "disconnected")
      /\ redial' = redial /\ selectedConnection' = selectedConnection /\ activeConn' = activeConn
      /\ status' = status /\ endpoint' = endpoint /\ envUrl' = envUrl
      /\ activeEnv' = activeEnv /\ persists' = persists /\ ids' = ids
      /\ socket' = socket /\ stranded' = stranded
      /\ List!Store(connections', endpoint', selectedConnection')
  BY DEF List!StopDemo
<1>2. "disconnected" \in List!Statuses /\ "disconnected" \notin List!Live
  BY DEF List!Statuses, List!Live
<1>3. connections' \in Lists
  BY <1>1, <1>2, ListInvFacts, PatchFacts
<1>4. Truthful(connections', activeConn', demoConn', status', stranded')
  <2>1. StillTruthful(demoConn, activeConn, demoConn, status, stranded, activeConn, Nothing, status, stranded)
    BY DEF StillTruthful
  <2>2. demoConn # activeConn
    BY <1>1, ListInvFacts DEF SocketInv
  <2> QED
    BY <1>1, <1>2, <2>1, <2>2, ListInvFacts, PatchedTruthful
<1>5. SocketInv'
  BY <1>1, ListInvFacts DEF SocketInv
<1> QED
  BY <1>1, <1>3, <1>4, <1>5, ListInvFacts, ListKeeps DEF ConnectionIds

LEMMA ResetDemoKeeps == ListInv /\ List!ResetDemo => ListInv'
<1> SUFFICES ASSUME ListInv, List!ResetDemo PROVE ListInv'
  OBVIOUS
<1>1. /\ demoConn # Nothing /\ demoConn' = Nothing
      /\ connections' = List!Without(connections, demoConn)
      /\ selectedConnection' = IF selectedConnection = demoConn THEN Nothing ELSE selectedConnection
      /\ redial' = redial /\ activeConn' = activeConn
      /\ status' = status /\ endpoint' = endpoint /\ envUrl' = envUrl
      /\ activeEnv' = activeEnv /\ persists' = persists /\ ids' = ids
      /\ socket' = socket /\ stranded' = stranded
      /\ List!Store(connections', endpoint', selectedConnection')
  BY DEF List!ResetDemo
<1>2. connections' \in Lists /\ Members(connections') = {e \in Members(connections) : e.id # demoConn}
  BY <1>1, ListInvFacts, WithoutFacts
<1>3. Truthful(connections', activeConn', demoConn', status', stranded')
  BY <1>1, <1>2, ListInvFacts DEF Truthful
<1>4. SocketInv'
  BY <1>1, ListInvFacts DEF SocketInv
<1> QED
  BY <1>1, <1>2, <1>3, <1>4, ListInvFacts, ListKeeps DEF ConnectionIds

LEMMA ClearHistoryKeeps ==
  ASSUME ListInv, persists' \in BOOLEAN, List!ClearConnectionHistory
  PROVE  ListInv'
<1> DEFINE kept == {i \in DOMAIN connections : connections[i].id = activeConn}
<1>1. /\ connections' = List!Kept(connections, kept)
      /\ selectedConnection' = activeConn
      /\ redial' = redial /\ activeConn' = activeConn /\ demoConn' = demoConn
      /\ status' = status /\ endpoint' = endpoint /\ envUrl' = envUrl /\ activeEnv' = activeEnv /\ ids' = ids
      /\ socket' = socket /\ stranded' = stranded
      /\ List!Store(connections', endpoint', selectedConnection')
  BY DEF List!ClearConnectionHistory
<1>2. connections' \in Lists /\ Members(connections') \subseteq Members(connections)
  BY <1>1, ListInvFacts, KeptLists
<1> HIDE DEF kept
<1>3. Truthful(connections', activeConn', demoConn', status', stranded')
  BY <1>1, <1>2, ListInvFacts DEF Truthful
<1> QED
  BY <1>1, <1>2, <1>3, SocketUnchanged, ListInvFacts, ListKeeps

LEMMA RestartListKeeps == ListInv /\ List!Restart => ListInv'
<1> SUFFICES ASSUME ListInv, List!Restart PROVE ListInv'
  OBVIOUS
<1>1. /\ connections' = List!Sanitize(stored.list) /\ endpoint' = stored.endpoint
      /\ selectedConnection' = stored.selected /\ activeConn' = Nothing /\ status' = "idle"
      /\ redial' = Nothing /\ demoConn' = Nothing /\ socket' = "none" /\ stranded' = {}
      /\ envUrl' = envUrl /\ activeEnv' = activeEnv /\ persists' = persists /\ stored' = stored /\ ids' = ids
  BY DEF List!Restart
<1>2. stored.list \in Lists /\ stored.endpoint \in Urls /\ stored.selected \in ConnectionIds
  BY DEF ListInv
<1>3. connections' \in Lists /\ \A e \in Members(connections') : e.status \notin List!Live /\ e.id # Nothing
  BY <1>1, <1>2, SanitizeFacts, ListsFacts, EntryFacts
<1>4. Truthful(connections', activeConn', demoConn', status', stranded')
  BY <1>1, <1>3 DEF Truthful
<1>5. status' \in List!Statuses /\ Nothing \in ConnectionIds
  BY <1>1 DEF List!Statuses, ConnectionIds
<1>6. SocketInv'
  BY <1>1 DEF SocketInv, List!Live
<1> QED
  BY <1>1, <1>2, <1>3, <1>4, <1>5, <1>6 DEF ListInv, NoneLive

LEMMA ListInitHolds == List!Init => ListInv
<1> SUFFICES ASSUME List!Init PROVE ListInv
  OBVIOUS
<1>1. /\ connections = <<>> /\ selectedConnection = Nothing /\ activeConn = Nothing /\ status = "idle"
      /\ endpoint = CHOOSE u \in Typed : TRUE
      /\ redial = Nothing /\ demoConn = Nothing /\ socket = "none" /\ stranded = {}
      /\ envUrl = [e \in Envs |-> Nothing] /\ activeEnv = CHOOSE e \in Envs : TRUE
      /\ persists = TRUE /\ stored = [list |-> <<>>, endpoint |-> endpoint, selected |-> Nothing]
      /\ ids = 0
  BY DEF List!Init
<1>2. endpoint \in Urls
  BY <1>1, ListAssumption
<1>3. activeEnv \in Envs /\ envUrl \in [Envs -> Urls \cup {Nothing}]
  BY <1>1, ListAssumption
<1>4. stored.list = <<>> /\ stored.endpoint = endpoint /\ stored.selected = Nothing
  BY <1>1
<1>5. status \in List!Statuses /\ Nothing \in ConnectionIds /\ ids \in 0 .. MaxConnections
  BY <1>1, ListAssumption DEF List!Statuses, ConnectionIds
<1>6. SocketInv
  BY <1>1 DEF SocketInv, List!Live
<1> QED
  BY <1>1, <1>2, <1>3, <1>4, <1>5, <1>6, EmptyList DEF ListInv, Truthful, NoneLive

LEMMA ListNextKeeps == ListInv /\ [List!Next]_listVars => ListInv'
<1> SUFFICES ASSUME ListInv, [List!Next]_listVars PROVE ListInv'
  OBVIOUS
<1>1. ASSUME UNCHANGED listVars PROVE ListInv'
  BY <1>1, ListInvFacts, ListUnchanged, SocketUnchanged DEF listVars
<1>2. ASSUME List!Clear PROVE ListInv'
  BY <1>2, ListInvFacts, ClearHistoryKeeps DEF List!Clear
<1>3. ASSUME List!StopPersisting PROVE ListInv'
  BY <1>3, ClearHistoryKeeps DEF List!StopPersisting
<1>4. ASSUME List!Persist PROVE ListInv'
  BY <1>4, ListInvFacts, ListUnchanged, SocketUnchanged DEF List!Persist
<1>5. ASSUME List!EditEnvironment PROVE ListInv'
  <2>1. envUrl' \in [Envs -> Urls \cup {Nothing}] /\ activeEnv' \in Envs
    BY <1>5, ListInvFacts DEF List!EditEnvironment
  <2>2. UNCHANGED <<redial, connections, selectedConnection, activeConn, status, socket, stranded, endpoint,
                    demoConn, persists, stored, ids>>
    BY <1>5 DEF List!EditEnvironment
  <2> QED
    BY <2>1, <2>2, ListInvFacts, ListUnchanged, SocketUnchanged
<1>6. ASSUME List!Next PROVE ListInv'
  BY <1>2, <1>3, <1>4, <1>5, <1>6, SaveConnectionKeeps, ConnectToKeeps, StartsClosingKeeps, OpenedKeeps, EndKeeps, ReconnectKeeps,
     RedialKeeps, SelectConnectionKeeps, StartDemoKeeps, StopDemoKeeps, ResetDemoKeeps, RestartListKeeps
     DEF List!Next
<1> QED
  BY <1>1, <1>6

LEMMA ListSteps == [StoresNext]_storesVars => [List!Next]_listVars
BY DEF StoresNext, StoresBut, storesVars, listVars

(***************************************************************************)
(* Through any saves, connects, reconnects, demos, clears and restarts, no *)
(* connection is listed twice, one that is shown as going on is the active *)
(* connection or the running demo, the active one shows the status of the  *)
(* store, except where a connect() let go of a closing socket, and the     *)
(* local storage holds no more than the privacy setting allows, and        *)
(* neither a demo nor a live entry (connection-store.ts).                  *)
(***************************************************************************)
THEOREM ListCorrect == StoresSpec => []ListConsistent
<1>1. StoresInit => ListInv
  BY ListInitHolds DEF StoresInit
<1>2. ListInv /\ [StoresNext]_storesVars => ListInv'
  BY ListSteps, ListNextKeeps
<1>3. ListInv => ListConsistent
  <2> SUFFICES ASSUME ListInv PROVE ListConsistent
    OBVIOUS
  <2>1. /\ connections \in Seq(List!Entry) /\ Len(connections) <= ListLimit
        /\ stored.list \in Seq(List!Entry)
    BY ListsFacts DEF ListInv
  <2>2. List!TypeOK
    BY <2>1 DEF ListInv, List!TypeOK, ConnectionIds, SocketInv
  <2>3. Distinct(connections)
    BY DEF ListInv, Lists
  <2>4. List!ListTellsWhatIsLive
    BY <2>3, ListMembers DEF ListInv, List!ListTellsWhatIsLive, Distinct, Truthful
  <2>5. List!StorageHonoursPrivacy
    BY ListMembers DEF ListInv, List!StorageHonoursPrivacy, NoneLive
  <2> QED
    BY <2>2, <2>4, <2>5 DEF ListConsistent, List!ListConsistent
<1> QED
  BY <1>1, <1>2, <1>3, PTL DEF StoresSpec

----------------------------------------------------------------------------
(* The scrolled list *)

LEMMA OfTwo ==
  ASSUME NEW x \in Int, NEW y \in Int
  PROVE  /\ Scroll!Max({x, y}) = IF x < y THEN y ELSE x
         /\ Scroll!Min({x, y}) = IF x < y THEN x ELSE y
BY DEF Scroll!Max, Scroll!Min

(***************************************************************************)
(* A timeline that follows is near its top.  The rest only types the       *)
(* variables: which rows are rendered is computed anew from any position.  *)
(***************************************************************************)
ScrollInv ==
  /\ autoScroll \in BOOLEAN /\ top \in Nat /\ items \in Nat
  /\ Scroll!FollowingIsNearTheTop

LEMMA ScrollInitHolds == Scroll!Init => ScrollInv
BY DEF Scroll!Init, ScrollInv, Scroll!FollowingIsNearTheTop

LEMMA ScrollNextKeeps == ScrollInv /\ [Scroll!Next]_scrollVars => ScrollInv'
<1> SUFFICES ASSUME ScrollInv, [Scroll!Next]_scrollVars PROVE ScrollInv'
  OBVIOUS
<1>1. autoScroll \in BOOLEAN /\ top \in Nat /\ items \in Nat /\ (autoScroll => top <= 4)
  BY DEF ScrollInv, Scroll!FollowingIsNearTheTop
<1>2. \A n \in Nat : Scroll!MaxTop(n) \in Nat
  <2>1. \A n \in Nat : 2 * n - Viewport \in Int
    BY ScrollAssumption
  <2> QED
    BY <2>1, OfTwo DEF Scroll!MaxTop
<1>3. CASE Scroll!NewestPacket
  BY <1>1, <1>3 DEF Scroll!NewestPacket, Scroll!Follow, ScrollInv, Scroll!FollowingIsNearTheTop
<1>4. CASE Scroll!ListChanges
  <2> DEFINE kept == Scroll!Min({top, Scroll!MaxTop(items')})
  <2>1. /\ items' \in 0 .. MaxItems /\ autoScroll' = autoScroll
        /\ top' = kept \/ top' = Scroll!Follow(autoScroll, kept)
    BY <1>4 DEF Scroll!ListChanges
  <2>2. items' \in Nat
    BY <2>1, ScrollAssumption
  <2>3. kept \in Nat /\ kept <= top
    <3> DEFINE m == Scroll!MaxTop(items')
    <3>1. m \in Nat
      BY <1>2, <2>2
    <3> HIDE DEF m
    <3>2. Scroll!Min({top, m}) = IF top < m THEN top ELSE m
      BY <1>1, <3>1, OfTwo
    <3> QED
      BY <1>1, <3>1, <3>2 DEF m
  <2> HIDE DEF kept
  <2>4. top' \in Nat /\ top' <= top
    BY <1>1, <2>1, <2>3 DEF Scroll!Follow
  <2>5. autoScroll => top' <= 4
    BY <1>1, <2>4
  <2>6. autoScroll' \in BOOLEAN /\ (autoScroll' => top' <= 4)
    BY <1>1, <2>1, <2>5, Zenon
  <2> QED
    BY <2>2, <2>4, <2>6 DEF ScrollInv, Scroll!FollowingIsNearTheTop
<1>5. CASE Scroll!HandleScroll
  <2>1. top' \in 0 .. Scroll!MaxTop(items) /\ items' = items /\ autoScroll' = (autoScroll /\ top' <= 4)
    BY <1>5 DEF Scroll!HandleScroll
  <2>2. top' \in Nat /\ items' \in Nat
    BY <1>1, <1>2, <2>1
  <2>3. autoScroll' \in BOOLEAN /\ (autoScroll' => top' <= 4)
    BY <2>1, Zenon
  <2> QED
    BY <2>2, <2>3 DEF ScrollInv, Scroll!FollowingIsNearTheTop
<1>6. CASE Scroll!Resume
  BY <1>1, <1>6 DEF Scroll!Resume, Scroll!Follow, ScrollInv, Scroll!FollowingIsNearTheTop
<1>7. CASE Scroll!Pause
  BY <1>1, <1>7 DEF Scroll!Pause, ScrollInv, Scroll!FollowingIsNearTheTop
<1>8. CASE Scroll!JumpToLatestPacket
  BY <1>1, <1>8 DEF Scroll!JumpToLatestPacket, ScrollInv, Scroll!FollowingIsNearTheTop
<1>9. CASE UNCHANGED scrollVars
  BY <1>1, <1>9 DEF scrollVars, ScrollInv, Scroll!FollowingIsNearTheTop
<1> QED
  BY <1>3, <1>4, <1>5, <1>6, <1>7, <1>8, <1>9 DEF Scroll!Next

(***************************************************************************)
(* One row of overscan is needed: the last row in sight may be one more    *)
(* than the viewport holds when the first is cut by its edge.              *)
(***************************************************************************)
LEMMA RowsInSightAreRendered ==
  ASSUME top \in Nat, items \in Nat
  PROVE  Scroll!ViewportIsRendered
<1> DEFINE first == top \div 2
           start == Scroll!Max({first - Overscan, 0})
           height == (Viewport + 1) \div 2
           end == Scroll!Min({start + height + 2 * Overscan, items})
<1>1. first \in Nat /\ 2 * first <= top /\ top <= 2 * first + 1
  OBVIOUS
<1>2. height \in Nat /\ Viewport <= 2 * height /\ Overscan \in Nat /\ Overscan >= 1 /\ Viewport \in Nat
  BY ScrollAssumption
<1> HIDE DEF first, height
<1>3. start = IF first - Overscan < 0 THEN 0 ELSE first - Overscan
  BY <1>1, <1>2, OfTwo
<1>4. start \in Nat
  BY <1>1, <1>2, <1>3
<1> HIDE DEF start
<1>5. end = IF start + height + 2 * Overscan < items THEN start + height + 2 * Overscan ELSE items
  <2> DEFINE x == start + height + 2 * Overscan
  <2>1. x \in Int
    BY <1>2, <1>4
  <2> HIDE DEF x
  <2>2. Scroll!Min({x, items}) = IF x < items THEN x ELSE items
    BY <2>1, OfTwo
  <2> QED
    BY <2>2 DEF x
<1> HIDE DEF end
<1> SUFFICES ASSUME NEW row \in 0 .. items - 1, 2 * row < top + Viewport, 2 * row + 2 > top
             PROVE  row \in start .. end - 1
  BY DEF Scroll!ViewportIsRendered, Scroll!VisibleRange, Scroll!Ceil, first, start, height, end
<1>6. row >= first /\ row < first + 1 + height
  BY <1>1, <1>2
<1> QED
  BY <1>1, <1>2, <1>3, <1>4, <1>5, <1>6

LEMMA ScrollSteps == [StoresNext]_storesVars => [Scroll!Next]_scrollVars
BY DEF StoresNext, StoresBut, storesVars, scrollVars

----------------------------------------------------------------------------
(* The palette *)

LEMMA PaletteKept == \A list, kept : Palette!Kept(list, kept) = Kept(list, kept)
<1>1. \A S : Palette!Cardinality(S) = Cardinality(S)
  BY DEF Palette!Cardinality, Cardinality
<1>2. \A S, R : Palette!Places(S, R) = Places(S, R)
  BY <1>1 DEF Palette!Places, Places
<1>3. \A S, R : Palette!Arranged(S, R) = Arranged(S, R)
  BY <1>1, <1>2 DEF Palette!Arranged, Arranged
<1> QED
  BY <1>1, <1>3 DEF Palette!Kept, Kept

CommandIds ==
  {"start-demo", "open-settings", "open-diagnostics", "connect", "disconnect", "reconnect",
   "environment", "no-session", "session", "toggle-bookmark", "replay-selected", "clear-timeline",
   "export-session", "reset-filters", "filter"}

(***************************************************************************)
(* The commands that may be offered in w: what is enabled is accepted, or  *)
(* is a replay over a closing socket.                                      *)
(***************************************************************************)
Offered(w) ==
  {c \in [id : CommandIds, place : Nat, enabled : BOOLEAN, words : BOOLEAN] :
     c.enabled => Palette!Accepts(c.id, w) \/ Palette!SocketIsClosing(c.id, w)}

(***************************************************************************)
(* A row is highlighted if there is one, and a closed palette has no       *)
(* query; otherwise opening it could list fewer rows than the highlight    *)
(* was clamped to.                                                         *)
(***************************************************************************)
PaletteInv ==
  /\ Palette!TypeOK
  /\ Palette!Rows(world, query) > 0 => activeIndex <= Palette!Rows(world, query)
  /\ ~isOpen => query = ""

LEMMA ConnectionCommandsOffered ==
  ASSUME NEW w \in Palette!World
  PROVE  Palette!ConnectionCommands(w) \in Seq(Offered(w))
<1>1. w.status \in Palette!Status /\ w.demo \in BOOLEAN /\ w.saved \in BOOLEAN
  BY DEF Palette!World
<1>2. Palette!Guarded("start-demo", Palette!StartDemoDisabledReason(w), FALSE) \in Offered(w)
  BY <1>1 DEF Palette!Guarded, Palette!Command, Palette!StartDemoDisabledReason, Palette!Connecting,
     Palette!Connected, Palette!Accepts, Palette!Idle, Palette!Status, Offered, CommandIds
<1>3. Palette!Guarded("connect", Palette!ConnectDisabledReason(w), TRUE) \in Offered(w)
  BY <1>1 DEF Palette!Guarded, Palette!Command, Palette!ConnectDisabledReason, Palette!Connecting,
     Palette!Connected, Palette!Accepts, Palette!Idle, Palette!Status, Offered, CommandIds
<1>4. Palette!Guarded("reconnect", Palette!ReconnectDisabledReason(w), TRUE) \in Offered(w)
  BY <1>1 DEF Palette!Guarded, Palette!Command, Palette!ReconnectDisabledReason, Palette!Connecting,
     Palette!Connected, Palette!Accepts, Palette!Idle, Palette!Status, Offered, CommandIds
<1>5. Palette!Command("disconnect", 0, Palette!Connected(w) \/ w.status = "connecting", TRUE) \in Offered(w)
  BY <1>1 DEF Palette!Command, Palette!Connected, Palette!Accepts, Palette!Idle, Palette!Status, Offered, CommandIds
<1>6. /\ Palette!Command("open-settings", 0, TRUE, FALSE) \in Offered(w)
      /\ Palette!Command("open-diagnostics", 0, TRUE, TRUE) \in Offered(w)
  BY DEF Palette!Command, Palette!Accepts, Offered, CommandIds
<1>7. ASSUME NEW S, NEW a \in S, NEW b \in S, NEW c \in S, NEW d \in S, NEW e \in S, NEW f \in S
      PROVE  <<a, b, c, d, e, f>> \in Seq(S)
  OBVIOUS
<1> HIDE DEF Offered
<1> QED
  BY <1>2, <1>3, <1>4, <1>5, <1>6, <1>7 DEF Palette!ConnectionCommands

LEMMA SwitchCommandsOffered ==
  ASSUME NEW w \in Palette!World
  PROVE  Palette!SwitchCommands(w) \in Seq(Offered(w))
<1> DEFINE environmentEntry(i) == Palette!Command("environment", i, i # 1, FALSE)
           sessionEntry(i) == Palette!Command("session", i, i # w.session, FALSE)
           none == Palette!Command("no-session", 0, FALSE, FALSE)
           S == Offered(w)
<1>1. w.sessions \in Nat /\ ListedEnvironments \in Nat
  BY PaletteAssumption DEF Palette!World
<1>2. \A i \in Nat : environmentEntry(i) \in S
  BY DEF Palette!Command, Palette!Accepts, Offered, CommandIds
<1>3. \A i \in Nat : sessionEntry(i) \in S
  BY DEF Palette!Command, Palette!Accepts, Offered, CommandIds
<1>4. none \in S
  BY 0 \in Nat DEF Palette!Command, Palette!Accepts, Offered, CommandIds
<1>5. Palette!SwitchCommands(w) =
        [i \in 1 .. ListedEnvironments |-> environmentEntry(i)] \o
        (IF w.sessions = 0 THEN <<none>> ELSE [i \in 1 .. w.sessions |-> sessionEntry(i)])
  BY DEF Palette!SwitchCommands
<1> HIDE DEF environmentEntry, sessionEntry, none, S
<1>6. [i \in 1 .. ListedEnvironments |-> environmentEntry(i)] \in Seq(S)
  BY <1>1, <1>2, SeqDef
<1>7. (IF w.sessions = 0 THEN <<none>> ELSE [i \in 1 .. w.sessions |-> sessionEntry(i)]) \in Seq(S)
  BY <1>1, <1>3, <1>4, SeqDef
<1> QED
  BY <1>5, <1>6, <1>7, ConcatProperties DEF S

LEMMA PacketCommandsOffered ==
  ASSUME NEW w \in Palette!World
  PROVE  Palette!PacketCommands(w) \in Seq(Offered(w))
<1>1. /\ w.status \in Palette!Status /\ w.packet \in BOOLEAN /\ w.packets \in BOOLEAN
      /\ w.session \in Nat
  BY PaletteAssumption DEF Palette!World
<1>2. Palette!Guarded("replay-selected", Palette!ReplayDisabledReason(w), TRUE) \in Offered(w)
  BY <1>1 DEF Palette!Guarded, Palette!Command, Palette!ReplayDisabledReason, Palette!Connecting,
     Palette!Connected, Palette!Accepts, Palette!SocketIsClosing, Offered, CommandIds
<1>3. /\ Palette!Command("toggle-bookmark", 0, w.packet, FALSE) \in Offered(w)
      /\ Palette!Command("clear-timeline", 0, w.packets, FALSE) \in Offered(w)
      /\ Palette!Command("export-session", 0, w.session # 0, FALSE) \in Offered(w)
  BY <1>1 DEF Palette!Command, Palette!Accepts, Offered, CommandIds
<1>4. /\ Palette!Command("reset-filters", 0, TRUE, FALSE) \in Offered(w)
      /\ Palette!Command("filter", 0, TRUE, FALSE) \in Offered(w)
  BY DEF Palette!Command, Palette!Accepts, Offered, CommandIds
<1>5. ASSUME NEW S, NEW a \in S, NEW b \in S, NEW c \in S, NEW d \in S, NEW e \in S, NEW f \in S
      PROVE  <<a, b, c, d, e, f>> \in Seq(S)
  OBVIOUS
<1> HIDE DEF Offered
<1> QED
  BY <1>2, <1>3, <1>4, <1>5 DEF Palette!PacketCommands

(***************************************************************************)
(* The filtered list has as many rows as there are matches, each offered.  *)
(***************************************************************************)
LEMMA FilteredFacts ==
  ASSUME NEW w \in Palette!World, NEW q
  PROVE  LET list == Palette!FilteredCommands(w, q)
         IN  /\ Palette!Rows(w, q) \in Nat /\ DOMAIN list = 1 .. Palette!Rows(w, q)
             /\ \A i \in DOMAIN list : list[i].enabled =>
                   Palette!Accepts(list[i].id, w) \/ Palette!SocketIsClosing(list[i].id, w)
<1> DEFINE all == Palette!CommandPaletteCommands(w)
           kept == Palette!Matching(w, q)
           list == Palette!FilteredCommands(w, q)
<1>1. all \in Seq(Offered(w))
  BY ConnectionCommandsOffered, SwitchCommandsOffered, PacketCommandsOffered, ConcatProperties
     DEF Palette!CommandPaletteCommands
<1>2. kept \subseteq DOMAIN all
  BY DEF Palette!Matching
<1>3. list = Kept(all, kept)
  BY PaletteKept DEF Palette!FilteredCommands
<1>4. Palette!Rows(w, q) = Cardinality(kept)
  BY DEF Palette!Rows, Palette!Cardinality, Cardinality
<1> HIDE DEF all, kept, list
<1>5. list \in Seq(Offered(w))
  BY <1>1, <1>2, <1>3, KeptFacts
<1>6. Cardinality(kept) \in Nat
  <2>1. Len(all) \in Nat /\ kept \subseteq 1 .. Len(all)
    BY <1>1, <1>2, LenProperties
  <2>2. IsFiniteSet(1 .. Len(all))
    BY <2>1, FS_Interval
  <2>3. IsFiniteSet(kept)
    BY <2>1, <2>2, FS_Subset
  <2> QED
    BY <2>3, FS_CardinalityType
<1>7. DOMAIN list = 1 .. Cardinality(kept)
  BY <1>3 DEF Kept
<1>8. \A i \in DOMAIN list : list[i] \in Offered(w)
  BY <1>5, ElementOfSeq, LenProperties
<1> QED
  BY <1>4, <1>6, <1>7, <1>8 DEF Offered, list

LEMMA ClampedFacts ==
  ASSUME NEW w \in Palette!World, NEW q, NEW i \in Nat \ {0}
  PROVE  LET n == Palette!Rows(w, q) highlight == Palette!Clamped(w, q, i)
         IN  /\ n \in Nat /\ highlight \in Nat \ {0}
             /\ n > 0 => highlight <= n
<1> DEFINE n == Palette!Rows(w, q)
<1>1. n \in Nat
  BY FilteredFacts
<1>2. Palette!Clamped(w, q, i) = IF n = 0 THEN 1 ELSE IF i > n THEN n ELSE i
  BY DEF Palette!Clamped
<1> HIDE DEF n
<1> QED
  BY <1>1, <1>2 DEF n

(***************************************************************************)
(* Every change of the list or the query clamps the highlight again.       *)
(***************************************************************************)
LEMMA ClampingKeeps ==
  ASSUME PaletteInv, world' \in Palette!World, query' \in Palette!Queries, isOpen' \in BOOLEAN,
         ~isOpen' => query' = "",
         activeIndex' = Palette!Clamped(world', query', activeIndex)
  PROVE  PaletteInv'
<1>1. activeIndex \in Nat \ {0}
  BY DEF PaletteInv, Palette!TypeOK
<1>2. /\ Palette!Rows(world', query') \in Nat /\ activeIndex' \in Nat \ {0}
      /\ Palette!Rows(world', query') > 0 => activeIndex' <= Palette!Rows(world', query')
  BY <1>1, ClampedFacts
<1> QED
  BY <1>2 DEF PaletteInv, Palette!TypeOK

LEMMA PaletteInitHolds == Palette!Init => PaletteInv
<1> SUFFICES ASSUME Palette!Init PROVE PaletteInv
  OBVIOUS
<1>1. /\ world = [status |-> "disconnected", open |-> FALSE, demo |-> FALSE, saved |-> FALSE, packet |-> FALSE,
                  packets |-> FALSE, sessions |-> 0, session |-> 0]
      /\ isOpen = FALSE /\ query = "" /\ activeIndex = 1
  BY DEF Palette!Init
<1>2. world \in Palette!World
  <2> DEFINE counts == 0 .. ListedSessions
             W == [status : Palette!Status, open : BOOLEAN, demo : BOOLEAN, saved : BOOLEAN, packet : BOOLEAN,
                   packets : BOOLEAN, sessions : counts, session : counts]
  <2>1. 0 \in counts /\ 0 <= 0
    BY PaletteAssumption
  <2>2. "disconnected" \in Palette!Status
    BY DEF Palette!Status
  <2> HIDE DEF counts
  <2>3. world \in W
    BY <1>1, <2>1, <2>2, Zenon
  <2>4. world.session = 0 /\ world.sessions = 0
    BY <1>1
  <2>5. world.demo = FALSE /\ world.packet = FALSE /\ world.open = FALSE
    BY <1>1, Zenon
  <2> QED
    BY <2>1, <2>3, <2>4, <2>5, Zenon DEF Palette!World, counts
<1>3. Palette!Rows(world, query) \in Nat
  BY <1>2, FilteredFacts
<1>4. activeIndex \in Nat \ {0} /\ (Palette!Rows(world, query) > 0 => activeIndex <= Palette!Rows(world, query))
  <2>1. activeIndex = 1
    BY <1>1
  <2> QED
    BY <1>3, <2>1
<1>5. isOpen \in BOOLEAN /\ query \in Palette!Queries /\ (~isOpen => query = "")
  BY <1>1, Zenon DEF Palette!Queries
<1> QED
  BY <1>2, <1>4, <1>5 DEF PaletteInv, Palette!TypeOK

LEMMA SetOpenKeeps ==
  ASSUME PaletteInv, NEW open \in BOOLEAN, Palette!SetOpen(open)
  PROVE  PaletteInv'
<1>1. /\ isOpen' = open /\ query' = IF open THEN query ELSE ""
      /\ activeIndex' = Palette!Clamped(world, query', activeIndex) /\ world' = world
  BY DEF Palette!SetOpen
<1>2. world \in Palette!World /\ query \in Palette!Queries
  BY DEF PaletteInv, Palette!TypeOK
<1>3. isOpen' \in BOOLEAN /\ (~isOpen' => query' = "") /\ query' \in Palette!Queries
  BY <1>1, <1>2 DEF Palette!Queries
<1>4. activeIndex' = Palette!Clamped(world', query', activeIndex) /\ world' \in Palette!World
  BY <1>1, <1>2
<1> QED
  BY <1>3, <1>4, ClampingKeeps

LEMMA HighlightKeeps ==
  ASSUME PaletteInv, UNCHANGED <<world, isOpen, query>>,
         activeIndex' \in 1 .. Palette!Rows(world, query)
  PROVE  PaletteInv'
<1>1. Palette!Rows(world, query) \in Nat
  BY FilteredFacts DEF PaletteInv, Palette!TypeOK
<1>2. activeIndex' \in Nat \ {0} /\ activeIndex' <= Palette!Rows(world, query)
  BY <1>1
<1>3. /\ world' \in Palette!World /\ isOpen' \in BOOLEAN /\ query' \in Palette!Queries
      /\ ~isOpen' => query' = ""
  BY Zenon DEF PaletteInv, Palette!TypeOK
<1>4. Palette!Rows(world', query') = Palette!Rows(world, query)
  OBVIOUS
<1> QED
  BY <1>2, <1>3, <1>4 DEF PaletteInv, Palette!TypeOK

LEMMA MoveKeeps ==
  ASSUME PaletteInv, NEW direction \in {1, -1}, Palette!MoveActiveIndex(direction)
  PROVE  PaletteInv'
<1> DEFINE n == Palette!Rows(world, query)
           i == activeIndex + direction
<1>1. /\ n > 0 /\ activeIndex' = IF i < 1 THEN n ELSE IF i > n THEN 1 ELSE i
      /\ UNCHANGED <<world, isOpen, query>>
  BY DEF Palette!MoveActiveIndex
<1>2. n \in Nat /\ i \in Int
  <2>1. world \in Palette!World /\ activeIndex \in Nat
    BY DEF PaletteInv, Palette!TypeOK
  <2> QED
    BY <2>1, FilteredFacts
<1> HIDE DEF i, n
<1>3. activeIndex' \in 1 .. n
  BY <1>1, <1>2
<1> QED
  BY <1>1, <1>3, HighlightKeeps DEF n

LEMMA PaletteNextKeeps == PaletteInv /\ [Palette!Next]_paletteVars => PaletteInv'
<1> SUFFICES ASSUME PaletteInv, [Palette!Next]_paletteVars PROVE PaletteInv'
  OBVIOUS
<1>1. world \in Palette!World /\ isOpen \in BOOLEAN /\ query \in Palette!Queries /\ (~isOpen => query = "")
  BY DEF PaletteInv, Palette!TypeOK
<1>2. CASE Palette!OpenPalette \/ Palette!ClosePalette
  BY <1>2, SetOpenKeeps DEF Palette!OpenPalette, Palette!ClosePalette
<1>3. CASE Palette!RunCommand
  <2>1. /\ isOpen' = FALSE /\ query' = "" /\ world' = world
        /\ activeIndex' = Palette!Clamped(world, "", activeIndex)
    BY <1>3 DEF Palette!RunCommand
  <2>2. world' \in Palette!World /\ query' \in Palette!Queries /\ isOpen' \in BOOLEAN
    BY <1>1, <2>1 DEF Palette!Queries
  <2>3. activeIndex' = Palette!Clamped(world', query', activeIndex)
    BY <2>1
  <2> QED
    BY <2>1, <2>2, <2>3, ClampingKeeps
<1>4. ASSUME NEW q \in Palette!Queries, Palette!TypeQuery(q) PROVE PaletteInv'
  <2>1. /\ isOpen /\ query' = q /\ UNCHANGED <<world, isOpen>>
        /\ activeIndex' = Palette!Clamped(world, q, activeIndex)
    BY <1>4 DEF Palette!TypeQuery
  <2>2. world' \in Palette!World /\ query' \in Palette!Queries
    BY <1>1, <2>1
  <2>3. isOpen' \in BOOLEAN /\ (~isOpen' => query' = "")
    BY <1>1, <2>1, Zenon
  <2>4. activeIndex' = Palette!Clamped(world', query', activeIndex)
    BY <2>1
  <2> QED
    BY <2>2, <2>3, <2>4, ClampingKeeps
<1>5. ASSUME NEW d \in {1, -1}, Palette!MoveActiveIndex(d) PROVE PaletteInv'
  BY <1>5, MoveKeeps
<1>6. ASSUME NEW i, Palette!Hover(i) PROVE PaletteInv'
  BY <1>6, HighlightKeeps DEF Palette!Hover
<1>7. ASSUME NEW w \in Palette!World, Palette!WorldBecomes(w) PROVE PaletteInv'
  <2>1. world' = w /\ UNCHANGED <<isOpen, query>> /\ activeIndex' = Palette!Clamped(w, query, activeIndex)
    BY <1>7 DEF Palette!WorldBecomes
  <2>2. world' \in Palette!World /\ query' \in Palette!Queries
    BY <1>1, <2>1
  <2>3. isOpen' \in BOOLEAN /\ (~isOpen' => query' = "")
    BY <1>1, <2>1, Zenon
  <2>4. activeIndex' = Palette!Clamped(world', query', activeIndex)
    BY <2>1
  <2> QED
    BY <2>2, <2>3, <2>4, ClampingKeeps
<1>8. CASE UNCHANGED paletteVars
  BY <1>8 DEF paletteVars, PaletteInv, Palette!TypeOK
<1>9. CASE Palette!Next
  BY <1>2, <1>3, <1>4, <1>5, <1>6, <1>7, <1>9, Zenon DEF Palette!Next
<1> QED
  BY <1>8, <1>9

LEMMA PaletteSteps == [StoresNext]_storesVars => [Palette!Next]_paletteVars
BY DEF StoresNext, StoresBut, storesVars, paletteVars

LEMMA PaletteInvFacts == PaletteInv => Palette!TypeOK /\ Palette!PaletteIsUsable
<1> SUFFICES ASSUME PaletteInv PROVE Palette!TypeOK /\ Palette!PaletteIsUsable
  OBVIOUS
<1> DEFINE list == Palette!FilteredCommands(world, query)
           n == Palette!Rows(world, query)
<1>1. /\ n \in Nat /\ DOMAIN list = 1 .. n
      /\ \A i \in DOMAIN list : list[i].enabled =>
            Palette!Accepts(list[i].id, world) \/ Palette!SocketIsClosing(list[i].id, world)
  BY FilteredFacts DEF PaletteInv, Palette!TypeOK
<1>2. activeIndex \in Nat \ {0} /\ (n > 0 => activeIndex <= n) /\ (~isOpen => query = "")
  BY DEF PaletteInv, Palette!TypeOK
<1>3. list = <<>> \/ n > 0
  <2>1. list = [i \in 1 .. n |-> list[i]]
    BY DEF Palette!FilteredCommands, Palette!Kept, Palette!Rows
  <2> QED
    BY <1>1, <2>1
<1> HIDE DEF list, n
<1>4. list # <<>> => activeIndex \in DOMAIN list
  <2>1. n \in Nat /\ activeIndex \in Nat \ {0} /\ (n > 0 => activeIndex <= n)
    BY <1>1, <1>2
  <2>2. n > 0 => activeIndex \in 1 .. n
    BY <2>1
  <2>3. DOMAIN list = 1 .. n
    BY <1>1
  <2> QED
    BY <1>3, <2>2, <2>3
<1> QED
  BY <1>1, <1>2, <1>4 DEF PaletteInv, Palette!PaletteIsUsable, list

----------------------------------------------------------------------------
(* Plugins and decoders: any plugins and number of them                    *)

LEMMA RegistryKept == \A list, kept : Registry!Kept(list, kept) = Kept(list, kept)
<1>1. \A S : Registry!Cardinality(S) = Cardinality(S)
  BY DEF Registry!Cardinality, Cardinality
<1>2. \A S, R : Registry!Places(S, R) = Places(S, R)
  BY <1>1 DEF Registry!Places, Places
<1>3. \A S, R : Registry!Arranged(S, R) = Arranged(S, R)
  BY <1>1, <1>2 DEF Registry!Arranged, Arranged
<1> QED
  BY <1>1, <1>3 DEF Registry!Kept, Kept

LEMMA RegistryArranged == \A S, R : Registry!Arranged(S, R) = Arranged(S, R)
<1>1. \A S : Registry!Cardinality(S) = Cardinality(S)
  BY DEF Registry!Cardinality, Cardinality
<1>2. \A S, R : Registry!Places(S, R) = Places(S, R)
  BY <1>1 DEF Registry!Places, Places
<1> QED
  BY <1>1, <1>2 DEF Registry!Arranged, Arranged

LEMMA RegistryJoined == \A lists : Registry!Joined(lists) = Joined(lists)
<1>1. \A S : Registry!Cardinality(S) = Cardinality(S)
  BY DEF Registry!Cardinality, Cardinality
<1> QED
  BY <1>1, RegistryArranged DEF Registry!Joined, Joined

LEMMA RegistryMin == \A S : Registry!Min(S) = Min(S)
BY DEF Registry!Min, Min

LEMMA RegistryMembers == \A list : Registry!Range(list) = Members(list)
BY DEF Registry!Range, Members

SomeDecoder ==
  [id : DecoderIds \cup {"json", "binary", "fallback"},
   priority : Int, accepts : {"yes", "no", "throws"}, works : BOOLEAN]

SomePlugin == LocalPlugins \cup {Registry!Core}

(***************************************************************************)
(* Ids are those of one plugin each, and one that is not registered has no *)
(* choice.                                                                 *)
(***************************************************************************)
OnePluginEach(list) == \A i, j \in DOMAIN list : list[i].id = list[j].id => i = j

KnownChoices(list, chosen) == \A id \in Registry!Ids : chosen[id] # "unset" => Registry!Known(list, id)

PluginsInv ==
  /\ plugins \in Seq(SomePlugin)
  /\ Registry!TypeOK
  /\ OnePluginEach(plugins)
  /\ KnownChoices(plugins, enablement)

LEMMA PluginFacts ==
  ASSUME NEW p \in SomePlugin
  PROVE  p.decoders \in Seq(SomeDecoder) /\ p.id \in Registry!Ids
<1>1. CASE p \in LocalPlugins
  <2> DEFINE list == p.decoders
             own == [id : DecoderIds, priority : Int, accepts : {"yes", "no", "throws"}, works : BOOLEAN]
  <2>1. list \in Seq(own)
    BY <1>1, PluginsAssumption
  <2>5. \A d \in own : d \in SomeDecoder
    BY DEF SomeDecoder
  <2> HIDE DEF list, own
  <2>2. Len(list) \in Nat /\ list \in [1 .. Len(list) -> SomeDecoder]
    <3>1. Len(list) \in Nat /\ list \in [1 .. Len(list) -> own]
      BY <2>1, LenProperties
    <3> QED
      BY <2>5, <3>1
  <2>3. list \in Seq(SomeDecoder)
    BY <2>2, SeqDef
  <2>4. p.id \in Registry!Ids
    BY <1>1 DEF Registry!Ids
  <2> QED
    BY <2>3, <2>4 DEF list
<1>2. CASE p = Registry!Core
  <2> DEFINE json == Registry!Decoder("json", 2, "no", TRUE)
             binary == Registry!Decoder("binary", 1, "yes", TRUE)
             fallback == Registry!Fallback
  <2>1. json \in SomeDecoder
    BY DEF Registry!Decoder, SomeDecoder
  <2>2. binary \in SomeDecoder
    BY DEF Registry!Decoder, SomeDecoder
  <2>3. fallback \in SomeDecoder
    BY DEF Registry!Decoder, Registry!Fallback, SomeDecoder
  <2>4. p.decoders = <<json, binary, fallback>>
    BY <1>2 DEF Registry!Core
  <2>5. p.id \in Registry!Ids
    BY <1>2 DEF Registry!Ids
  <2> HIDE DEF json, binary, fallback
  <2>6. <<json, binary, fallback>> \in Seq(SomeDecoder)
    BY <2>1, <2>2, <2>3
  <2> QED
    BY <2>4, <2>5, <2>6
<1> QED
  BY <1>1, <1>2 DEF SomePlugin

LEMMA PrioritiesAreInt == \A d \in SomeDecoder : d.priority \in Int
BY DEF SomeDecoder

LEMMA RegistryInitHolds == Registry!Init => PluginsInv
<1> SUFFICES ASSUME Registry!Init PROVE PluginsInv
  OBVIOUS
<1>1. plugins = <<Registry!Core>> /\ threw = FALSE
  BY DEF Registry!Init
<1>2. PICK choice \in {"unset", "on", "off"} : enablement = [Registry!Unset EXCEPT !["core"] = choice]
  BY DEF Registry!Init
<1>3. /\ enablement \in [Registry!Ids -> {"unset", "on", "off"}]
      /\ \A id \in Registry!Ids : enablement[id] # "unset" => id = "core"
  BY <1>2 DEF Registry!Unset
<1>4. /\ plugins \in Seq(SomePlugin) /\ Len(plugins) = 1 /\ DOMAIN plugins = {1}
      /\ plugins[1].id = "core"
  BY <1>1 DEF SomePlugin, Registry!Core
<1>5. OnePluginEach(plugins)
  BY <1>4 DEF OnePluginEach
<1>6. KnownChoices(plugins, enablement)
  BY <1>3, <1>4 DEF KnownChoices, Registry!Known
<1>7. Len(plugins) \in 1 .. MaxPlugins
  BY <1>4, PluginsAssumption
<1> QED
  BY <1>1, <1>3, <1>4, <1>5, <1>6, <1>7 DEF PluginsInv, Registry!TypeOK

LEMMA RegisterKeeps ==
  ASSUME PluginsInv, NEW p \in LocalPlugins, Registry!Register(p)
  PROVE  PluginsInv'
<1>1. /\ plugins \in Seq(SomePlugin) /\ Len(plugins) \in 1 .. MaxPlugins
      /\ DOMAIN plugins = 1 .. Len(plugins) /\ OnePluginEach(plugins) /\ KnownChoices(plugins, enablement)
      /\ enablement' = enablement /\ enablement \in [Registry!Ids -> {"unset", "on", "off"}]
      /\ Len(plugins) < MaxPlugins /\ MaxPlugins \in Nat /\ threw' \in BOOLEAN
  BY PluginsAssumption, LenProperties DEF PluginsInv, Registry!TypeOK, Registry!Register
<1>2. CASE plugins' = plugins
  BY <1>1, <1>2 DEF PluginsInv, Registry!TypeOK, OnePluginEach, KnownChoices, Registry!Known
<1>3. CASE plugins' = Append(plugins, p) /\ ~Registry!Known(plugins, p.id)
  <2>1. p \in SomePlugin
    BY DEF SomePlugin
  <2>2. /\ plugins' \in Seq(SomePlugin) /\ Len(plugins') = Len(plugins) + 1
        /\ DOMAIN plugins' = 1 .. Len(plugins) + 1
        /\ \A i \in 1 .. Len(plugins) : plugins'[i] = plugins[i]
        /\ plugins'[Len(plugins) + 1] = p
    BY <1>1, <1>3, <2>1, AppendProperties
  <2>3. \A i \in 1 .. Len(plugins) : plugins[i].id # p.id
    BY <1>1, <1>3 DEF Registry!Known
  <2>4. OnePluginEach(plugins')
    <3>1. \A i \in 1 .. Len(plugins) + 1 : i \in 1 .. Len(plugins) \/ i = Len(plugins) + 1
      BY <1>1
    <3> QED
      BY <1>1, <2>2, <2>3, <3>1 DEF OnePluginEach
  <2>5. KnownChoices(plugins', enablement')
    <3>1. \A i \in 1 .. Len(plugins) : i \in 1 .. Len(plugins) + 1
      BY <1>1
    <3> QED
      BY <1>1, <2>2, <3>1 DEF KnownChoices, Registry!Known
  <2>6. Len(plugins') \in 1 .. MaxPlugins
    BY <1>1, <2>2
  <2>7. OnePluginEach(plugins)' /\ KnownChoices(plugins, enablement)' /\ Registry!TypeOK'
    BY <1>1, <2>4, <2>5, <2>6 DEF OnePluginEach, KnownChoices, Registry!Known, Registry!TypeOK
  <2> QED
    BY <2>2, <2>7 DEF PluginsInv
<1> QED
  BY <1>2, <1>3 DEF Registry!Register

LEMMA SetEnabledKeeps ==
  ASSUME PluginsInv, NEW id \in Registry!Ids, NEW on \in BOOLEAN, Registry!SetEnabled(id, on)
  PROVE  PluginsInv'
<1>1. /\ plugins' = plugins /\ threw' \in BOOLEAN
      /\ plugins \in Seq(SomePlugin) /\ Len(plugins) \in 1 .. MaxPlugins /\ OnePluginEach(plugins)
      /\ KnownChoices(plugins, enablement) /\ enablement \in [Registry!Ids -> {"unset", "on", "off"}]
  BY DEF PluginsInv, Registry!TypeOK, Registry!SetEnabled
<1>2. CASE enablement' = enablement
  BY <1>1, <1>2 DEF PluginsInv, Registry!TypeOK, OnePluginEach, KnownChoices, Registry!Known
<1>3. CASE /\ enablement' = [enablement EXCEPT ![id] = IF on THEN "on" ELSE "off"]
           /\ Registry!Known(plugins, id)
  <2>1. enablement' \in [Registry!Ids -> {"unset", "on", "off"}]
    BY <1>1, <1>3
  <2>2. KnownChoices(plugins, enablement')
    BY <1>1, <1>3 DEF KnownChoices
  <2> QED
    BY <1>1, <2>1, <2>2 DEF PluginsInv, Registry!TypeOK, OnePluginEach, KnownChoices, Registry!Known
<1> QED
  BY <1>2, <1>3 DEF Registry!SetEnabled

LEMMA RegistryNextKeeps == PluginsInv /\ [Registry!Next]_registryVars => PluginsInv'
<1> SUFFICES ASSUME PluginsInv, [Registry!Next]_registryVars PROVE PluginsInv'
  OBVIOUS
<1>1. CASE UNCHANGED registryVars
  BY <1>1 DEF registryVars, PluginsInv, Registry!TypeOK, OnePluginEach, KnownChoices, Registry!Known
<1>2. CASE Registry!Next
  BY <1>2, RegisterKeeps, SetEnabledKeeps DEF Registry!Next
<1> QED
  BY <1>1, <1>2

LEMMA RegistrySteps == [StoresNext]_storesVars => [Registry!Next]_registryVars
BY DEF StoresNext, StoresBut, storesVars, registryVars

(***************************************************************************)
(* The decoders that are asked: those of the enabled plugins.              *)
(***************************************************************************)
DecodersAre(decoders) ==
  /\ decoders \in Seq(SomeDecoder)
  /\ \A d \in Members(decoders) : \E i \in DOMAIN plugins :
       Registry!IsEnabled(plugins[i], enablement) /\ d \in Members(plugins[i].decoders)
  /\ \A i \in DOMAIN plugins : Registry!IsEnabled(plugins[i], enablement)
       => Members(plugins[i].decoders) \subseteq Members(decoders)

LEMMA DecodersFacts == PluginsInv => DecodersAre(Registry!GetDecoders(plugins, enablement))
<1> SUFFICES ASSUME PluginsInv PROVE DecodersAre(Registry!GetDecoders(plugins, enablement))
  OBVIOUS
<1> DEFINE kept == {i \in DOMAIN plugins : Registry!IsEnabled(plugins[i], enablement)}
           left == Kept(plugins, kept)
           lists == [i \in DOMAIN left |-> left[i].decoders]
           decoders == Joined(lists)
<1>1. Registry!GetDecoders(plugins, enablement) = decoders
  BY RegistryKept, RegistryJoined DEF Registry!GetDecoders, Registry!GetEnabledPlugins
<1>2. plugins \in Seq(SomePlugin) /\ kept \subseteq DOMAIN plugins
  BY DEF PluginsInv
<1>3. \A i : i \in kept <=> i \in DOMAIN plugins /\ Registry!IsEnabled(plugins[i], enablement)
  OBVIOUS
<1> HIDE DEF kept
<1>4. left \in Seq(SomePlugin) /\ Members(left) = {plugins[i] : i \in kept}
  BY <1>2, KeptFacts, KeptMembers
<1> HIDE DEF left
<1>5. Len(left) \in Nat /\ DOMAIN left = 1 .. Len(left) /\ \A k \in 1 .. Len(left) : left[k] \in SomePlugin
  BY <1>4, LenProperties, ElementOfSeq
<1>6. /\ \A k \in DOMAIN left : \E i \in kept : left[k] = plugins[i]
      /\ \A i \in kept : \E k \in DOMAIN left : left[k] = plugins[i]
  BY <1>4 DEF Members
<1>7. \A k \in DOMAIN left : left[k].decoders \in Seq(SomeDecoder)
  BY <1>5, PluginFacts
<1>8. lists \in Seq(Seq(SomeDecoder)) /\ DOMAIN lists = DOMAIN left
  <2>1. lists \in [1 .. Len(left) -> Seq(SomeDecoder)]
    BY <1>5, <1>7
  <2> QED
    BY <1>5, <2>1, SeqDef
<1>9. \A k \in DOMAIN left : lists[k] = left[k].decoders
  OBVIOUS
<1> HIDE DEF lists
<1>10. decoders \in Seq(SomeDecoder) /\ IsJoining(decoders, lists)
  BY <1>8, JoinedFacts
<1> HIDE DEF decoders
<1>11. DOMAIN decoders = 1 .. Len(decoders)
  BY <1>10, LenProperties
<1>12. PICK o \in [1 .. Len(decoders) -> PlacesOf(lists)] :
         /\ \A k \in 1 .. Len(decoders) : decoders[k] = lists[o[k][1]][o[k][2]]
         /\ \A i \in DOMAIN lists : \A j \in DOMAIN lists[i] : \E k \in 1 .. Len(decoders) : o[k] = <<i, j>>
  BY <1>10 DEF IsJoining
<1>13. ASSUME NEW d \in Members(decoders)
       PROVE  \E i \in DOMAIN plugins :
                Registry!IsEnabled(plugins[i], enablement) /\ d \in Members(plugins[i].decoders)
  <2>1. PICK k \in 1 .. Len(decoders) : d = decoders[k]
    BY <1>11 DEF Members
  <2>2. o[k][1] \in DOMAIN lists /\ o[k][2] \in DOMAIN lists[o[k][1]]
    BY <1>12 DEF PlacesOf
  <2>3. PICK i \in kept : left[o[k][1]] = plugins[i]
    BY <1>6, <1>8, <2>2
  <2>4. d = plugins[i].decoders[o[k][2]] /\ o[k][2] \in DOMAIN plugins[i].decoders
    BY <1>8, <1>9, <1>12, <2>1, <2>2, <2>3
  <2> QED
    BY <1>3, <2>3, <2>4 DEF Members
<1>14. ASSUME NEW i \in DOMAIN plugins, Registry!IsEnabled(plugins[i], enablement),
              NEW d \in Members(plugins[i].decoders)
       PROVE  d \in Members(decoders)
  <2>1. PICK k \in DOMAIN left : left[k] = plugins[i]
    BY <1>3, <1>6, <1>14
  <2>2. PICK j \in DOMAIN plugins[i].decoders : d = plugins[i].decoders[j]
    BY DEF Members
  <2>3. k \in DOMAIN lists /\ j \in DOMAIN lists[k] /\ lists[k][j] = d
    BY <1>8, <1>9, <2>1, <2>2
  <2>4. PICK n \in 1 .. Len(decoders) : o[n] = <<k, j>>
    BY <1>12, <2>3
  <2> QED
    BY <1>11, <1>12, <2>3, <2>4 DEF Members
<1> QED
  BY <1>1, <1>10, <1>13, <1>14 DEF DecodersAre

(***************************************************************************)
(* The decoders in order: all but the fallback, the higher priority first. *)
(***************************************************************************)
LEMMA OrderedFacts ==
  ASSUME NEW decoders \in Seq(SomeDecoder)
  PROVE  LET ordered == Registry!OrderedDecoders(decoders)
         IN  /\ ordered \in Seq(SomeDecoder)
             /\ Members(ordered) = {d \in Members(decoders) : d.id # Registry!Fallback.id}
             /\ \A k, l \in DOMAIN ordered : k < l => ordered[k].priority >= ordered[l].priority
<1> DEFINE kept == {i \in DOMAIN decoders : decoders[i].id # Registry!Fallback.id}
           others == Kept(decoders, kept)
           N == Len(others)
           R == {ij \in (DOMAIN others) \X (DOMAIN others) :
                   \/ others[ij[1]].priority > others[ij[2]].priority
                   \/ others[ij[1]].priority = others[ij[2]].priority /\ ij[1] < ij[2]}
           o == Arranged(DOMAIN others, R)
           ordered == Registry!OrderedDecoders(decoders)
<1>1. others \in Seq(SomeDecoder) /\ Members(others) = {decoders[i] : i \in kept}
  <2>1. kept \subseteq DOMAIN decoders
    OBVIOUS
  <2> HIDE DEF kept
  <2> QED
    BY <2>1, KeptFacts, KeptMembers
<1>2. Members(others) = {d \in Members(decoders) : d.id # Registry!Fallback.id}
  BY <1>1 DEF Members
<1>3. ordered = [k \in DOMAIN others |-> others[o[k]]]
  BY RegistryKept, RegistryArranged DEF Registry!OrderedDecoders
<1> HIDE DEF others, ordered
<1>4. N \in Nat /\ DOMAIN others = 1 .. N
  BY <1>1, LenProperties
<1>5. \A k \in 1 .. N : others[k] \in SomeDecoder /\ others[k].priority \in Int
  BY <1>1, ElementOfSeq, PrioritiesAreInt
<1> HIDE DEF N
<1>6. \A i, j : <<i, j>> \in R <=>
        /\ i \in 1 .. N /\ j \in 1 .. N
        /\ \/ others[i].priority > others[j].priority
           \/ others[i].priority = others[j].priority /\ i < j
  BY <1>4
<1>7. o = Arranged(1 .. N, R)
  BY <1>4
<1> HIDE DEF R, o
<1>8. StrictOrder(1 .. N, R)
  <2>1. \A i \in 1 .. N : <<i, i>> \notin R
    BY <1>4, <1>5, <1>6
  <2>2. ASSUME NEW i \in 1 .. N, NEW j \in 1 .. N, NEW k \in 1 .. N, <<i, j>> \in R, <<j, k>> \in R
        PROVE  <<i, k>> \in R
    BY <1>4, <1>5, <1>6, <2>2
  <2>3. ASSUME NEW i \in 1 .. N, NEW j \in 1 .. N, i # j
        PROVE  <<i, j>> \in R \/ <<j, i>> \in R
    BY <1>4, <1>5, <1>6, <2>3
  <2> QED
    BY <2>1, <2>2, <2>3 DEF StrictOrder
<1>9. /\ o \in [1 .. N -> 1 .. N]
      /\ \A k, l \in 1 .. N : k < l => <<o[k], o[l]>> \in R
      /\ \A i \in 1 .. N : \E k \in 1 .. N : o[k] = i
  <2>1. IsFiniteSet(1 .. N) /\ Cardinality(1 .. N) = N
    BY <1>4, FS_Interval
  <2> QED
    BY <1>7, <1>8, <2>1, ArrangedFacts, SMTT(40)
<1>10. ordered \in [1 .. N -> SomeDecoder] /\ \A k \in 1 .. N : ordered[k] = others[o[k]]
  BY <1>3, <1>4, <1>5, <1>9
<1>11. ordered \in Seq(SomeDecoder) /\ DOMAIN ordered = 1 .. N
  BY <1>4, <1>10, SeqDef
<1>12. Members(ordered) = Members(others)
  <2>1. Members(ordered) = {ordered[k] : k \in 1 .. N} /\ Members(others) = {others[i] : i \in 1 .. N}
    BY <1>4, <1>11 DEF Members
  <2>2. \A k \in 1 .. N : o[k] \in 1 .. N /\ ordered[k] = others[o[k]]
    BY <1>9, <1>10
  <2>3. \A i \in 1 .. N : \E k \in 1 .. N : ordered[k] = others[i]
    BY <1>9, <1>10
  <2>4. Members(ordered) \subseteq Members(others)
    BY <2>1, <2>2
  <2>5. Members(others) \subseteq Members(ordered)
    BY <2>1, <2>3
  <2> QED
    BY <2>4, <2>5
<1>13. ASSUME NEW k \in 1 .. N, NEW l \in 1 .. N, k < l
       PROVE  ordered[k].priority >= ordered[l].priority
  <2>1. /\ others[o[k]].priority > others[o[l]].priority \/ others[o[k]].priority = others[o[l]].priority
        /\ o[k] \in 1 .. N /\ o[l] \in 1 .. N
    BY <1>6, <1>9, <1>13
  <2>2. others[o[k]].priority >= others[o[l]].priority
    BY <1>5, <2>1
  <2> QED
    BY <1>10, <2>2
<1>14. \A k, l \in DOMAIN ordered : k < l => ordered[k].priority >= ordered[l].priority
  BY <1>11, <1>13
<1> QED
  BY <1>2, <1>11, <1>12, <1>14 DEF ordered

LEMMA FoundFacts ==
  ASSUME NEW ordered \in Seq(SomeDecoder),
         \A k, l \in DOMAIN ordered : k < l => ordered[k].priority >= ordered[l].priority
  PROVE  LET willing == {d \in Members(ordered) : d.accepts = "yes"}
             found == Registry!FindDecoder(ordered)
         IN  IF willing = {} THEN found = Registry!Fallback
             ELSE found \in willing /\ \A d \in willing : d.priority <= found.priority
<1> DEFINE willing == {d \in Members(ordered) : d.accepts = "yes"}
           found == Registry!FindDecoder(ordered)
           places == {i \in DOMAIN ordered : ordered[i].accepts = "yes"}
<1>1. found = IF places = {} THEN Registry!Fallback ELSE ordered[Min(places)]
  BY RegistryMin DEF Registry!FindDecoder
<1>2. /\ \A i \in places : ordered[i] \in willing
      /\ \A d \in willing : \E i \in places : d = ordered[i]
      /\ places \subseteq DOMAIN ordered
  BY DEF Members
<1>3. DOMAIN ordered = 1 .. Len(ordered) /\ Len(ordered) \in Nat
  BY LenProperties
<1>4. \A i \in DOMAIN ordered : ordered[i].priority \in Int
  BY <1>3, ElementOfSeq, PrioritiesAreInt
<1> HIDE DEF places, willing, found
<1>5. CASE places = {}
  BY <1>1, <1>2, <1>5 DEF willing, found
<1>6. CASE places # {}
  <2>1. Min(places) \in places /\ \A j \in places : Min(places) <= j
    BY <1>2, <1>6, MinFacts
  <2> DEFINE m == Min(places)
  <2> HIDE DEF m
  <2>2. m \in places /\ (\A j \in places : m <= j) /\ found = ordered[m]
    BY <1>1, <1>6, <2>1 DEF m
  <2>3. found \in willing
    BY <1>2, <2>2
  <2>4. ASSUME NEW d \in willing PROVE d.priority <= found.priority
    <3>1. PICK i \in places : d = ordered[i]
      BY <1>2
    <3>2. m = i \/ m < i
      BY <1>2, <1>3, <2>2, <3>1
    <3>3. ordered[m].priority \in Int /\ ordered[i].priority \in Int
      BY <1>2, <1>4, <2>2, <3>1
    <3>4. m \in DOMAIN ordered /\ i \in DOMAIN ordered
      BY <1>2, <2>2, <3>1
    <3>5. ordered[m].priority >= ordered[i].priority
      BY <3>2, <3>3, <3>4
    <3> QED
      BY <2>2, <3>1, <3>3, <3>5
  <2> QED
    BY <2>3, <2>4 DEF willing, found
<1> QED
  BY <1>5, <1>6

LEMMA PluginsInvFacts == PluginsInv => Registry!TypeOK /\ Registry!RegistryLaws
<1> SUFFICES ASSUME PluginsInv PROVE Registry!TypeOK /\ Registry!RegistryLaws
  OBVIOUS
<1> DEFINE decoders == Registry!GetDecoders(plugins, enablement)
           ordered == Registry!OrderedDecoders(decoders)
           found == Registry!FindDecoder(ordered)
           willing == {d \in Members(decoders) : d.accepts = "yes" /\ d.id # Registry!Fallback.id}
<1>1. /\ Registry!TypeOK /\ OnePluginEach(plugins) /\ KnownChoices(plugins, enablement)
      /\ enablement \in [Registry!Ids -> {"unset", "on", "off"}]
  BY DEF PluginsInv, Registry!TypeOK
<1>2. DecodersAre(decoders)
  BY DecodersFacts
<1> HIDE DEF decoders
<1>3. Registry!OnlyEnabledPluginsDecode
  <2>1. \A i, j \in DOMAIN plugins : plugins[i].id = plugins[j].id => i = j
    BY <1>1 DEF OnePluginEach
  <2>2. \A id \in DOMAIN enablement : enablement[id] # "unset" => Registry!Known(plugins, id)
    BY <1>1 DEF KnownChoices
  <2>3. ASSUME NEW i \in DOMAIN plugins, NEW d \in Members(plugins[i].decoders)
        PROVE  /\ d \in Members(decoders)
                    => \E k \in DOMAIN plugins : /\ d \in Members(plugins[k].decoders)
                                                 /\ enablement[plugins[k].id] # "off"
               /\ enablement[plugins[i].id] = "on" => d \in Members(decoders)
    BY <1>2 DEF DecodersAre, Registry!IsEnabled
  <2> QED
    BY <2>1, <2>2, <2>3, RegistryMembers DEF Registry!OnlyEnabledPluginsDecode, decoders
<1>4. /\ ordered \in Seq(SomeDecoder)
      /\ Members(ordered) = {d \in Members(decoders) : d.id # Registry!Fallback.id}
      /\ \A k, l \in DOMAIN ordered : k < l => ordered[k].priority >= ordered[l].priority
  BY <1>2, OrderedFacts DEF DecodersAre
<1> HIDE DEF ordered
<1>5. willing = {d \in Members(ordered) : d.accepts = "yes"}
  BY <1>4
<1>6. IF willing = {} THEN found = Registry!Fallback
      ELSE found \in willing /\ \A d \in willing : d.priority <= found.priority
  BY <1>4, <1>5, FoundFacts
<1> HIDE DEF found, willing
<1>7. Registry!Decode(ordered).by # found.id
        => Registry!Decode(ordered) = [by |-> Registry!Fallback.id, insteadOf |-> found.id]
  BY DEF Registry!Decode, found
<1>8. Registry!EveryPacketDecodes
  BY <1>6, <1>7, RegistryMembers DEF Registry!EveryPacketDecodes, decoders, ordered, found, willing
<1> QED
  BY <1>1, <1>3, <1>8 DEF Registry!RegistryLaws

----------------------------------------------------------------------------

(***************************************************************************)
(* However commands, rows, presets, profiles and plugins change, a listed  *)
(* command is highlighted and, but for a replay over a closing socket, not *)
(* refused when it is enabled, every row in sight is rendered and a        *)
(* timeline that follows is at its top, presets are distinct and compile,  *)
(* the active environment is one of the list, no label of a URL with       *)
(* tokens shows a secret, and a packet is decoded by the best willing      *)
(* decoder of the enabled plugins (command-palette.tsx,                    *)
(* packet-timeline.tsx, environment-store.ts, environment-manager.tsx,     *)
(* plugin-registry.ts, packet-decoder.ts).                                 *)
(***************************************************************************)
THEOREM ListsCorrect == StoresSpec => []ListsAreUsable
<1> DEFINE Inv == PresetInv /\ EnvInv /\ ScrollInv /\ PaletteInv /\ PluginsInv
<1>1. StoresInit => Inv
  BY PresetInitHolds, EnvInitHolds, ScrollInitHolds, PaletteInitHolds, RegistryInitHolds DEF StoresInit
<1>2. Inv /\ [StoresNext]_storesVars => Inv'
  BY BarSteps, PresetNextKeeps, EnvSteps, EnvNextKeeps, ScrollSteps, ScrollNextKeeps, PaletteSteps,
     PaletteNextKeeps, RegistrySteps, RegistryNextKeeps
<1>3. Inv => ListsAreUsable
  <2>1. PaletteInv => Palette!TypeOK /\ Palette!PaletteIsUsable
    BY PaletteInvFacts
  <2>2. ScrollInv => Scroll!FollowingIsNearTheTop /\ Scroll!ViewportIsRendered
    BY RowsInSightAreRendered DEF ScrollInv
  <2>3. PresetInv => TypeOK /\ PresetsAreUsable
    BY PresetInvFacts
  <2>4. EnvInv => Env!TypeOK /\ Env!ActiveIsListed /\ Env!PreviewsHideSecrets
    BY EnvInvFacts, LabelsHideSecrets
  <2>5. PluginsInv => Registry!TypeOK /\ Registry!RegistryLaws
    BY PluginsInvFacts
  <2> QED
    BY <2>1, <2>2, <2>3, <2>4, <2>5 DEF ListsAreUsable
<1> QED
  BY <1>1, <1>2, <1>3, PTL DEF StoresSpec

----------------------------------------------------------------------------
(* Relations between packets: any contents, windows, gaps and bound        *)

(***************************************************************************)
(* Each packet has a number of its own, up to their count, and its time.   *)
(***************************************************************************)
TimelineInv ==
  /\ packets \in Seq(Members(packets))
  /\ \A i \in DOMAIN packets : packets[i].id \in 1 .. Len(packets) /\ packets[i].ts \in Int
  /\ \A i, j \in DOMAIN packets : packets[i].id = packets[j].id => i = j

LEMMA MembersAreMembers == \A list, i : i \in DOMAIN list => list[i] \in Members(list)
BY DEF Members

IsPutBelow(new, list, p, n) ==
  /\ Len(new) = Len(list) + 1
  /\ \A k \in 1 .. Len(list) + 1 : new[k] = IF k <= n THEN list[k] ELSE IF k = n + 1 THEN p ELSE list[k - 1]

LEMMA PutBelowFacts ==
  ASSUME NEW S, NEW list \in Seq(S), NEW n \in 0 .. Len(list), NEW p \in S
  PROVE  LET new == SubSeq(list, 1, n) \o <<p>> \o SubSeq(list, n + 1, Len(list))
         IN  new \in Seq(S) /\ IsPutBelow(new, list, p, n)
<1> DEFINE left == SubSeq(list, 1, n)
           right == SubSeq(list, n + 1, Len(list))
           put == left \o <<p>>
           new == put \o right
<1>1. Len(list) \in Nat /\ n \in Nat
  BY LenProperties
<1>2. left \in Seq(S) /\ Len(left) = n /\ \A k \in 1 .. n : left[k] = list[k]
  BY <1>1, SubSeqProperties
<1>3. /\ right \in Seq(S) /\ Len(right) = Len(list) - n
      /\ \A k \in 1 .. Len(list) - n : right[k] = list[n + k]
  <2>1. n + 1 \in 1 .. Len(list) + 1 /\ Len(list) \in n .. Len(list)
    BY <1>1
  <2>2. right \in Seq(S) /\ Len(right) = Len(list) - n
    BY <1>1, SubSeqProperties
  <2>3. \A k \in 1 .. Len(list) - n : right[k] = list[n + k]
    BY <1>1, SubSeqProperties
  <2> QED
    BY <2>2, <2>3
<1> HIDE DEF left, right
<1>4. <<p>> \in Seq(S) /\ Len(<<p>>) = 1 /\ <<p>>[1] = p
  OBVIOUS
<1>5. put \in Seq(S) /\ Len(put) = n + 1 /\ \A k \in 1 .. n + 1 : put[k] = IF k <= n THEN list[k] ELSE p
  BY <1>1, <1>2, <1>4, ConcatProperties
<1> HIDE DEF put
<1>6. /\ new \in Seq(S) /\ Len(new) = Len(list) + 1
      /\ \A k \in 1 .. Len(list) + 1 : new[k] = IF k <= n + 1 THEN put[k] ELSE right[k - (n + 1)]
  <2>1. new \in Seq(S) /\ Len(new) = Len(put) + Len(right)
    BY <1>3, <1>5, ConcatProperties
  <2>2. \A k \in 1 .. Len(put) + Len(right) : new[k] = IF k <= Len(put) THEN put[k] ELSE right[k - Len(put)]
    BY <1>3, <1>5, ConcatProperties
  <2> QED
    BY <1>1, <1>3, <1>5, <2>1, <2>2
<1> HIDE DEF new
<1>7. ASSUME NEW k \in 1 .. Len(list) + 1
      PROVE  new[k] = IF k <= n THEN list[k] ELSE IF k = n + 1 THEN p ELSE list[k - 1]
  <2>1. CASE k <= n + 1
    BY <1>1, <1>5, <1>6, <2>1
  <2>2. CASE ~ (k <= n + 1)
    <3>1. k - (n + 1) \in 1 .. Len(list) - n /\ n + (k - (n + 1)) = k - 1
      BY <1>1, <2>2
    <3>2. right[k - (n + 1)] = list[k - 1]
      BY <1>3, <3>1
    <3> QED
      BY <1>1, <1>6, <2>2, <3>2
  <2> QED
    BY <2>1, <2>2
<1> QED
  BY <1>6, <1>7 DEF IsPutBelow, new, put, left, right

LEMMA TimelineInitHolds == Relating!Init => TimelineInv
<1> SUFFICES ASSUME packets = << >> PROVE TimelineInv
  BY DEF Relating!Init
<1>1. packets \in Seq(Members(packets)) /\ DOMAIN packets = {}
  OBVIOUS
<1> QED
  BY <1>1 DEF TimelineInv

LEMMA ArriveKeeps == TimelineInv /\ [Relating!Next]_packets => TimelineInv'
<1> SUFFICES ASSUME TimelineInv, Relating!Arrive PROVE TimelineInv'
  BY DEF Relating!Next, TimelineInv, Members
<1> DEFINE last == IF packets = << >> THEN 1 ELSE packets[1].ts
           N == Len(packets)
<1>1. N \in Nat /\ DOMAIN packets = 1 .. N
  BY LenProperties DEF TimelineInv
<1>2. last \in Int
  <2>1. CASE packets = << >>
    BY <2>1
  <2>2. CASE packets # << >>
    <3>1. N # 0
      BY <2>2, EmptySeq DEF TimelineInv
    <3>2. 1 \in DOMAIN packets
      BY <1>1, <3>1
    <3> QED
      BY <2>2, <3>2 DEF TimelineInv
  <2> QED
    BY <2>1, <2>2
<1>3. PICK p, n :
        /\ p.id = N + 1 /\ p.ts \in Int /\ n \in 0 .. N
        /\ packets' = SubSeq(packets, 1, n) \o <<p>> \o SubSeq(packets, n + 1, N)
  <2>1. PICK s \in Sessions, c \in Contents, gap \in Gaps, source \in {Relating!Gone, Relating!NoPacket} \cup Relating!Indices :
          LET p == [id |-> N + 1, ts |-> last + gap, s |-> s, type |-> c.type,
                    summary |-> c.summary, request |-> c.request, message |-> c.message,
                    reply |-> c.reply, direction |-> c.direction, source |-> source]
              tied == {i \in Relating!Indices : packets[i].ts = p.ts}
          IN  packets' = Relating!PutBelow(p, 0) \/ packets' = Relating!PutBelow(p, Relating!Cardinality(tied))
    BY ZenonT(60) DEF Relating!Arrive
  <2> DEFINE p == [id |-> N + 1, ts |-> last + gap, s |-> s, type |-> c.type,
                   summary |-> c.summary, request |-> c.request, message |-> c.message,
                   reply |-> c.reply, direction |-> c.direction, source |-> source]
             tied == {i \in Relating!Indices : packets[i].ts = p.ts}
  <2>2. p.id = N + 1 /\ p.ts = last + gap /\ gap \in Int
    BY GapsAssumption
  <2>3. packets' = Relating!PutBelow(p, 0) \/ packets' = Relating!PutBelow(p, Relating!Cardinality(tied))
    BY <2>1
  <2>4. tied \subseteq 1 .. N
    BY <1>1 DEF Relating!Indices
  <2> HIDE DEF p, tied
  <2>5. Relating!Cardinality(tied) = Cardinality(tied)
    BY DEF Relating!Cardinality, Cardinality
  <2>6. Cardinality(tied) \in 0 .. N
    <3>1. IsFiniteSet(1 .. N) /\ Cardinality(1 .. N) = N
      <4> HIDE DEF N
      <4> QED
        BY <1>1, FS_Interval
    <3>2. IsFiniteSet(tied) /\ Cardinality(tied) <= N
      BY <2>4, <3>1, FS_Subset
    <3> QED
      BY <1>1, <3>2, FS_CardinalityType
  <2>7. p.ts \in Int
    BY <1>2, <2>2
  <2>8. \E n : n \in 0 .. N /\ packets' = SubSeq(packets, 1, n) \o <<p>> \o SubSeq(packets, n + 1, N)
    <3>1. \A n : Relating!PutBelow(p, n) = SubSeq(packets, 1, n) \o <<p>> \o SubSeq(packets, n + 1, N)
      BY DEF Relating!PutBelow
    <3>2. 0 \in 0 .. N
      BY <1>1
    <3> HIDE DEF N
    <3> QED
      BY <2>3, <2>5, <2>6, <3>1, <3>2
  <2> QED
    BY <2>2, <2>7, <2>8
<1> DEFINE S == Members(packets) \cup {p}
<1>4. /\ packets' \in Seq(S) /\ Len(packets') = N + 1
      /\ \A k \in 1 .. N + 1 : packets'[k] = IF k <= n THEN packets[k] ELSE IF k = n + 1 THEN p ELSE packets[k - 1]
  <2>1. packets \in Seq(S) /\ p \in S
    <3>1. packets \in [1 .. N -> Members(packets)]
      BY <1>1 DEF TimelineInv
    <3>2. packets \in [1 .. N -> S]
      BY <3>1
    <3> QED
      BY <1>1, <3>2, SeqDef
  <2> DEFINE new == SubSeq(packets, 1, n) \o <<p>> \o SubSeq(packets, n + 1, Len(packets))
  <2> HIDE DEF S
  <2>2. new \in Seq(S) /\ IsPutBelow(new, packets, p, n)
    <3>1. n \in 0 .. Len(packets)
      BY <1>3
    <3> QED
      BY <2>1, <3>1, PutBelowFacts
  <2>3. packets' = new
    BY <1>3
  <2> HIDE DEF new
  <2> QED
    BY <2>2, <2>3 DEF IsPutBelow
<1> HIDE DEF N, S
<1>11. N \in Nat /\ n \in Nat /\ p.id = N + 1 /\ p.ts \in Int
  BY <1>1, <1>3
<1>5. DOMAIN packets' = 1 .. N + 1
  BY <1>4, LenProperties
<1>6. packets' \in Seq(Members(packets'))
  <2>1. packets' \in [1 .. N + 1 -> S]
    BY <1>4, <1>5 DEF Members
  <2>2. packets' \in [1 .. N + 1 -> Members(packets')]
    BY <1>5, <2>1 DEF Members
  <2>3. N + 1 \in Nat
    BY <1>1
  <2> QED
    BY <2>2, <2>3, SeqDef
<1>7. \A i \in 1 .. N : packets[i].id \in 1 .. N /\ packets[i].ts \in Int
  BY <1>1 DEF TimelineInv, N
<1>8. \A i \in 1 .. N + 1 : (i <= n => i \in 1 .. N) /\ (~ (i <= n) /\ i # n + 1 => i - 1 \in 1 .. N)
  BY <1>1, <1>3
<1>9. ASSUME NEW i \in 1 .. N + 1 PROVE packets'[i].id \in 1 .. N + 1 /\ packets'[i].ts \in Int
  <2>1. CASE i = n + 1
    <3>1. packets'[i] = p
      BY <1>4, <1>11, <2>1
    <3> QED
      BY <1>11, <3>1
  <2>2. CASE i # n + 1
    <3>1. PICK k \in 1 .. N : packets'[i] = packets[k]
      BY <1>4, <1>8, <2>2
    <3> QED
      BY <1>1, <1>7, <3>1
  <2> QED
    BY <2>1, <2>2
<1>10. ASSUME NEW i \in 1 .. N + 1, NEW j \in 1 .. N + 1, packets'[i].id = packets'[j].id PROVE i = j
  <2>1. \A k, l \in 1 .. N : packets[k].id = packets[l].id => k = l
    BY <1>1 DEF TimelineInv
  <2> DEFINE old(k) == IF k <= n THEN k ELSE k - 1
  <2>2. ASSUME NEW k \in 1 .. N + 1
        PROVE  \/ k = n + 1 /\ packets'[k].id = N + 1
               \/ k # n + 1 /\ old(k) \in 1 .. N /\ packets'[k] = packets[old(k)]
    BY <1>3, <1>4, <1>8
  <2>3. (i = n + 1) <=> (j = n + 1)
    <3>1. \A k \in 1 .. N : packets[k].id # N + 1
      BY <1>1, <1>7
    <3> HIDE DEF old
    <3> QED
      BY <1>10, <2>2, <3>1
  <2>4. CASE i # n + 1 /\ j # n + 1
    <3>1. old(i) = old(j)
      BY <1>10, <2>1, <2>2, <2>4
    <3> QED
      BY <1>1, <1>3, <2>4, <3>1
  <2> QED
    BY <2>3, <2>4
<1> QED
  BY <1>4, <1>5, <1>6, <1>9, <1>10 DEF TimelineInv

(***************************************************************************)
(* Relations by what they were made of.                                    *)
(***************************************************************************)
LEMMA ByIdFacts ==
  ASSUME TimelineInv, NEW i \in DOMAIN packets
  PROVE  Relating!Present(packets[i].id) /\ Relating!ById(packets[i].id) = packets[i]
<1> DEFINE c == CHOOSE j \in DOMAIN packets : packets[j].id = packets[i].id
<1>1. c \in DOMAIN packets /\ packets[c].id = packets[i].id
  OBVIOUS
<1> HIDE DEF c
<1>2. c = i
  BY <1>1 DEF TimelineInv
<1> QED
  BY <1>2 DEF c, Relating!Present, Relating!ById, Relating!Indices

Joins(r, kind, reason, i, j) ==
  /\ i \in DOMAIN packets /\ j \in DOMAIN packets
  /\ r = [kind |-> kind, reason |-> reason, from |-> packets[i].id, to |-> packets[j].id]

Share(i, j) == packets[i].s = packets[j].s /\ packets[i].request = packets[j].request

IsPair(r, i, j) ==
  /\ Joins(r, "request-response", Relating!PairReason(i, j), i, j) /\ Relating!Before(i, j)
  /\ \A k \in DOMAIN packets : Share(k, i) <=> k \in {i, j}

IsReply(r, i, j) ==
  /\ Joins(r, "request-response", "reply-to", i, j) /\ packets[i].ts <= packets[j].ts
  /\ Relating!Answered(j) = {i}

IsNext(r, kind, reason) ==
  \E i, j : Joins(r, kind, reason, i, j) /\ Relating!Before(i, j)

IsReplay(r) == r.kind = "replay-source"

LEMMA ReplayFacts ==
  ASSUME NEW r \in Relating!Replays
  PROVE  IsReplay(r)
BY DEF IsReplay, Relating!Replays, Relating!Relation

LEMMA PairForms ==
  ASSUME NEW r \in Relating!Pairs
  PROVE  \E i, j : IsPair(r, i, j)
<1>1. PICK i \in DOMAIN packets, j \in DOMAIN packets :
        /\ Relating!Sharing(i) = {i, j} /\ Relating!Before(i, j)
        /\ r = Relating!Relation("request-response", Relating!PairReason(i, j), packets[i].id, packets[j].id)
  BY DEF Relating!Pairs, Relating!Related, Relating!Indices
<1>2. Joins(r, "request-response", Relating!PairReason(i, j), i, j)
  BY <1>1 DEF Joins, Relating!Relation
<1>3. \A k \in DOMAIN packets : Share(k, i) <=> k \in {i, j}
  BY <1>1 DEF Relating!Sharing, Relating!Indices, Share
<1> QED
  BY <1>1, <1>2, <1>3 DEF IsPair

LEMMA ReplyForms ==
  ASSUME NEW r \in Relating!Replies
  PROVE  \E i, j : IsReply(r, i, j)
<1>1. PICK i \in DOMAIN packets, j \in DOMAIN packets :
        /\ Relating!Answered(j) = {i}
        /\ r = Relating!Relation("request-response", "reply-to", packets[i].id, packets[j].id)
  BY DEF Relating!Replies, Relating!Related, Relating!Indices
<1>2. Joins(r, "request-response", "reply-to", i, j)
  BY <1>1 DEF Joins, Relating!Relation
<1>3. packets[i].ts <= packets[j].ts
  BY <1>1 DEF Relating!Answered
<1> QED
  BY <1>1, <1>2, <1>3 DEF IsReply

LEMMA SequenceForms ==
  ASSUME NEW mark, NEW window, NEW kind, NEW reason, NEW r \in Relating!Sequence(mark, window, kind, reason)
  PROVE  IsNext(r, kind, reason)
<1>1. PICK i \in DOMAIN packets, j \in DOMAIN packets :
        Relating!Before(i, j) /\ r = Relating!Relation(kind, reason, packets[i].id, packets[j].id)
  BY DEF Relating!Sequence, Relating!Related, Relating!Indices
<1> QED
  BY <1>1 DEF IsNext, Joins, Relating!Relation

IsRelation(r) ==
  \/ IsReplay(r)
  \/ \E i, j : IsPair(r, i, j) \/ IsReply(r, i, j)
  \/ IsNext(r, "auth-flow", "auth-sequence")
  \/ IsNext(r, "reconnect-flow", "reconnect-sequence")

LEMMA RelationForms ==
  ASSUME NEW r \in Relating!Relations
  PROVE  Relating!Relates(r) /\ IsRelation(r)
<1>1. /\ Relating!Relates(r)
      /\ \/ r \in Relating!Replays \/ r \in Relating!Pairs \/ r \in Relating!Replies
         \/ r \in Relating!Sequence("auth", AuthWindow, "auth-flow", "auth-sequence")
         \/ r \in Relating!Sequence("reconnect", ReconnectWindow, "reconnect-flow", "reconnect-sequence")
  BY DEF Relating!Relations
<1> QED
  BY <1>1, ReplayFacts, PairForms, ReplyForms, SequenceForms DEF IsRelation

LEMMA BeforeFacts ==
  ASSUME TimelineInv, NEW i \in DOMAIN packets, NEW j \in DOMAIN packets, Relating!Before(i, j)
  PROVE  packets[i].ts <= packets[j].ts /\ ~ Relating!Before(j, i)
<1>1. i \in Int /\ j \in Int /\ packets[i].ts \in Int /\ packets[j].ts \in Int
  BY LenProperties DEF TimelineInv
<1> QED
  BY <1>1 DEF Relating!Before

(***************************************************************************)
(* A relation made of two packets, but for a replay, names them in the     *)
(* order of their times.                                                   *)
(***************************************************************************)
LEMMA PointForward ==
  ASSUME TimelineInv
  PROVE  Relating!RelationsPointForward(Relating!Relations)
<1> SUFFICES ASSUME NEW r \in Relating!Relations
             PROVE  /\ Relating!Relates(r)
                    /\ r.kind # "replay-source" => Relating!ById(r.from).ts <= Relating!ById(r.to).ts
  BY DEF Relating!RelationsPointForward, Relating!Relates
<1>1. Relating!Relates(r) /\ IsRelation(r)
  BY RelationForms
<1>2. ASSUME NEW kind, NEW reason, NEW i, NEW j, Joins(r, kind, reason, i, j), packets[i].ts <= packets[j].ts
      PROVE  Relating!ById(r.from).ts <= Relating!ById(r.to).ts
  <2>1. r.from = packets[i].id /\ r.to = packets[j].id /\ i \in DOMAIN packets /\ j \in DOMAIN packets
    BY <1>2 DEF Joins
  <2>2. Relating!ById(r.from) = packets[i] /\ Relating!ById(r.to) = packets[j]
    BY <2>1, ByIdFacts
  <2> QED
    BY <1>2, <2>2
<1>3. ASSUME NEW kind, NEW reason, NEW i, NEW j, Joins(r, kind, reason, i, j), Relating!Before(i, j)
      PROVE  Relating!ById(r.from).ts <= Relating!ById(r.to).ts
  <2>1. packets[i].ts <= packets[j].ts
    BY <1>3, BeforeFacts DEF Joins
  <2> QED
    BY <1>2, <1>3, <2>1
<1>4. r.kind # "replay-source" => Relating!ById(r.from).ts <= Relating!ById(r.to).ts
  BY <1>1, <1>2, <1>3 DEF IsRelation, IsReplay, IsPair, IsReply, IsNext
<1> QED
  BY <1>1, <1>4

(***************************************************************************)
(* What kind and reason say of a relation.                                 *)
(***************************************************************************)
LEMMA KindsTell ==
  ASSUME NEW r, IsRelation(r)
  PROVE  /\ r.kind \in {"replay-source", "request-response", "auth-flow", "reconnect-flow"}
         /\ r.kind = "request-response" => \E i, j : IsPair(r, i, j) \/ IsReply(r, i, j)
         /\ r.kind = "auth-flow" => r.reason = "auth-sequence"
         /\ r.kind = "reconnect-flow" => r.reason = "reconnect-sequence"
<1>1. ASSUME NEW i, NEW j, IsPair(r, i, j) \/ IsReply(r, i, j) PROVE r.kind = "request-response"
  BY <1>1 DEF IsPair, IsReply, Joins
<1>2. ASSUME NEW kind, NEW reason, IsNext(r, kind, reason) PROVE r.kind = kind /\ r.reason = reason
  BY <1>2 DEF IsNext, Joins
<1> QED
  BY <1>1, <1>2 DEF IsRelation, IsReplay

LEMMA PairReasons ==
  ASSUME NEW r, NEW i, NEW j
  PROVE  (IsPair(r, i, j) => r.reason # "reply-to") /\ (IsReply(r, i, j) => r.reason = "reply-to")
BY DEF IsPair, IsReply, Joins, Relating!PairReason

(***************************************************************************)
(* Two pairs that meet in a packet share its request id with the same      *)
(* packets; two replies of one packet answer the only one it can answer.   *)
(***************************************************************************)
LEMMA OneAnswerEach ==
  ASSUME TimelineInv
  PROVE  Relating!OneAnswer(Relating!OfKind(Relating!Relations, "request-response"))
<1> SUFFICES ASSUME NEW r \in Relating!Relations, NEW t \in Relating!Relations,
                    r.kind = "request-response", t.kind = "request-response"
             PROVE  /\ r.reason = "reply-to" /\ t.reason = "reply-to" /\ r.to = t.to => r = t
                    /\ r.reason # "reply-to" /\ t.reason # "reply-to" /\ {r.from, r.to} \cap {t.from, t.to} # {}
                         => r = t
  BY DEF Relating!OneAnswer, Relating!OfKind
<1>1. \A i, j \in DOMAIN packets : packets[i].id = packets[j].id => i = j
  BY DEF TimelineInv
<1>2. PICK i, j : IsPair(r, i, j) \/ IsReply(r, i, j)
  BY RelationForms, KindsTell
<1>3. PICK k, l : IsPair(t, k, l) \/ IsReply(t, k, l)
  BY RelationForms, KindsTell
<1>4. ASSUME r.reason = "reply-to", t.reason = "reply-to", r.to = t.to PROVE r = t
  <2>1. IsReply(r, i, j) /\ IsReply(t, k, l)
    BY <1>2, <1>3, <1>4, PairReasons
  <2>2. j = l
    BY <1>1, <1>4, <2>1 DEF IsReply, Joins
  <2>3. i = k
    BY <2>1, <2>2 DEF IsReply
  <2> QED
    BY <2>1, <2>2, <2>3 DEF IsReply, Joins
<1>5. ASSUME r.reason # "reply-to", t.reason # "reply-to", {r.from, r.to} \cap {t.from, t.to} # {} PROVE r = t
  <2>1. IsPair(r, i, j) /\ IsPair(t, k, l)
    BY <1>2, <1>3, <1>5, PairReasons
  <2>2. /\ {i, j, k, l} \subseteq DOMAIN packets
        /\ r.from = packets[i].id /\ r.to = packets[j].id /\ t.from = packets[k].id /\ t.to = packets[l].id
    BY <2>1 DEF IsPair, Joins
  <2>3. {i, j} \cap {k, l} # {}
    BY <1>1, <1>5, <2>2
  <2>4. PICK m \in DOMAIN packets : m \in {i, j} /\ m \in {k, l}
    BY <2>2, <2>3
  <2>5. Share(m, i) /\ Share(m, k)
    BY <2>1, <2>4 DEF IsPair
  <2>6. \A x \in DOMAIN packets : Share(x, i) <=> Share(x, k)
    BY <2>5 DEF Share
  <2>7. {i, j} = {k, l}
    BY <2>1, <2>2, <2>6 DEF IsPair
  <2>8. Relating!Before(i, j) /\ Relating!Before(k, l) /\ ~ Relating!Before(j, i)
    BY <2>1, <2>2, BeforeFacts DEF IsPair
  <2>9. i = k /\ j = l
    BY <2>7, <2>8
  <2> QED
    BY <2>1, <2>9 DEF IsPair, Joins
<1> QED
  BY <1>4, <1>5

(***************************************************************************)
(* Components: what relations connect, and nothing they do not.            *)
(***************************************************************************)
EndsOf(rels) == {r.from : r \in rels} \cup {r.to : r \in rels}

Closed(c, rels) == \A r \in rels : r.from \in c <=> r.to \in c

LEMMA ConnectedIs ==
  ASSUME NEW rels, NEW id
  PROVE  Relating!Connected(id, rels) =
           {i \in EndsOf(rels) : \A c \in SUBSET EndsOf(rels) : id \in c /\ Closed(c, rels) => i \in c}
BY DEF Relating!Connected, EndsOf, Closed

LEMMA ConnectedFacts ==
  ASSUME NEW rels, NEW id \in EndsOf(rels)
  PROVE  LET c == Relating!Connected(id, rels)
         IN  id \in c /\ c \subseteq EndsOf(rels) /\ Closed(c, rels)
<1> DEFINE c == Relating!Connected(id, rels)
<1>1. \A i : i \in c <=> /\ i \in EndsOf(rels)
                         /\ \A d \in SUBSET EndsOf(rels) : id \in d /\ Closed(d, rels) => i \in d
  BY ConnectedIs
<1> HIDE DEF c
<1>2. id \in c /\ c \subseteq EndsOf(rels)
  BY <1>1
<1>3. \A r \in rels : r.from \in EndsOf(rels) /\ r.to \in EndsOf(rels)
  BY DEF EndsOf
<1>4. ASSUME NEW r \in rels PROVE r.from \in c <=> r.to \in c
  <2>1. \A d \in SUBSET EndsOf(rels) : Closed(d, rels) => (r.from \in d <=> r.to \in d)
    BY DEF Closed
  <2> QED
    BY <1>1, <1>3, <2>1
<1> QED
  BY <1>2, <1>4 DEF Closed, c

LEMMA ConnectedLeast ==
  ASSUME NEW rels, NEW id, NEW d, d \subseteq EndsOf(rels), id \in d, Closed(d, rels)
  PROVE  Relating!Connected(id, rels) \subseteq d
BY ConnectedIs

LEMMA SameComponent ==
  ASSUME NEW rels, NEW i \in EndsOf(rels), NEW j \in Relating!Connected(i, rels)
  PROVE  Relating!Connected(j, rels) = Relating!Connected(i, rels)
<1> DEFINE c == Relating!Connected(i, rels)
           d == Relating!Connected(j, rels)
           rest == c \ d
<1>1. i \in c /\ c \subseteq EndsOf(rels) /\ Closed(c, rels)
  BY ConnectedFacts
<1>2. j \in d /\ d \subseteq EndsOf(rels) /\ Closed(d, rels)
  <2>1. j \in EndsOf(rels)
    BY <1>1
  <2> QED
    BY <2>1, ConnectedFacts
<1>3. d \subseteq c
  BY <1>1, ConnectedLeast
<1>4. i \in d
  <2> SUFFICES ASSUME i \notin d PROVE FALSE
    OBVIOUS
  <2>1. Closed(rest, rels)
    BY <1>1, <1>2 DEF Closed
  <2>2. i \in rest /\ rest \subseteq EndsOf(rels)
    BY <1>1
  <2>3. c \subseteq rest
    BY <2>1, <2>2, ConnectedLeast
  <2> QED
    BY <1>2, <2>3
<1>5. c \subseteq d
  BY <1>2, <1>4, ConnectedLeast
<1> QED
  BY <1>3, <1>5

LEMMA ComponentsAreDisjoint ==
  ASSUME NEW rels, NEW c \in Relating!Components(rels), NEW d \in Relating!Components(rels), c \cap d # {}
  PROVE  c = d
<1>1. PICK i, j : i \in EndsOf(rels) /\ j \in EndsOf(rels)
                  /\ c = Relating!Connected(i, rels) /\ d = Relating!Connected(j, rels)
  BY DEF Relating!Components, EndsOf
<1>2. PICK k : k \in c /\ k \in d
  OBVIOUS
<1> QED
  BY <1>1, <1>2, SameComponent

LEMMA ComponentOf ==
  ASSUME NEW rels, NEW r \in rels
  PROVE  \E c \in Relating!Components(rels) : r.from \in c /\ r.to \in c
<1> DEFINE c == Relating!Connected(r.from, rels)
<1>1. r.from \in EndsOf(rels)
  BY DEF EndsOf
<1>2. r.from \in c /\ Closed(c, rels)
  BY <1>1, ConnectedFacts
<1>3. r.from \in c /\ r.to \in c
  BY <1>2 DEF Closed
<1>4. c \in Relating!Components(rels)
  BY DEF Relating!Components
<1> QED
  BY <1>3, <1>4

LEMMA ComponentsHoldEnds ==
  ASSUME NEW rels, NEW c \in Relating!Components(rels)
  PROVE  c \subseteq EndsOf(rels)
<1>1. PICK r \in rels : c = Relating!Connected(r.from, rels)
  BY DEF Relating!Components
<1>2. r.from \in EndsOf(rels)
  BY DEF EndsOf
<1> QED
  BY <1>1, <1>2, ConnectedFacts

(***************************************************************************)
(* The first and the last of some packets, by time and then by number.     *)
(***************************************************************************)
Earlier(a, b) ==
  Relating!ById(a).ts < Relating!ById(b).ts \/ (Relating!ById(a).ts = Relating!ById(b).ts /\ a < b)

PacketIds == {packets[i].id : i \in DOMAIN packets}

LEMMA PacketIdFacts ==
  ASSUME TimelineInv, NEW a \in PacketIds
  PROVE  a \in 1 .. Len(packets) /\ a \in Int /\ Relating!ById(a).ts \in Int
<1>1. PICK i \in DOMAIN packets : a = packets[i].id
  BY DEF PacketIds
<1>2. a \in 1 .. Len(packets) /\ Len(packets) \in Nat /\ packets[i].ts \in Int
  BY <1>1, LenProperties DEF TimelineInv
<1> QED
  BY <1>1, <1>2, ByIdFacts

LEMMA PresentIds == \A a : Relating!Present(a) <=> a \in PacketIds
BY DEF PacketIds, Relating!Present, Relating!Indices

LEMMA PacketIdsAreFinite == TimelineInv => \A I \in SUBSET PacketIds : IsFiniteSet(I) /\ Cardinality(I) \in Nat
<1> SUFFICES ASSUME TimelineInv, NEW I \in SUBSET PacketIds PROVE IsFiniteSet(I) /\ Cardinality(I) \in Nat
  OBVIOUS
<1>1. Len(packets) \in Nat
  BY LenProperties DEF TimelineInv
<1>2. IsFiniteSet(1 .. Len(packets))
  BY <1>1, FS_Interval
<1>3. I \subseteq 1 .. Len(packets)
  BY PacketIdFacts
<1>4. IsFiniteSet(I)
  BY <1>2, <1>3, FS_Subset
<1> QED
  BY <1>4, FS_CardinalityType

LEMMA FirstAndLast ==
  ASSUME TimelineInv, NEW I \in SUBSET PacketIds, I # {}
  PROVE  LET first == CHOOSE a \in I : \A b \in I \ {a} : Earlier(a, b)
             last  == CHOOSE b \in I : \A a \in I \ {b} : Earlier(a, b)
         IN  /\ first \in I /\ last \in I
             /\ first = last => I = {first}
<1> DEFINE R == {ab \in I \X I : Earlier(ab[1], ab[2])}
           N == Cardinality(I)
           o == Arranged(I, R)
           IsFirst(a) == a \in I /\ \A b \in I \ {a} : Earlier(a, b)
           IsLast(b) == b \in I /\ \A a \in I \ {b} : Earlier(a, b)
<1>1. IsFiniteSet(I) /\ N \in Nat
  BY PacketIdsAreFinite
<1>2. /\ \A a \in I : ~ Earlier(a, a)
      /\ \A a, b, c \in I : Earlier(a, b) /\ Earlier(b, c) => Earlier(a, c)
      /\ \A a, b \in I : a # b => Earlier(a, b) \/ Earlier(b, a)
  <2> DEFINE ts(a) == Relating!ById(a).ts
  <2>1. \A a \in I : a \in Int /\ ts(a) \in Int
    BY PacketIdFacts
  <2>2. \A a, b : Earlier(a, b) <=> ts(a) < ts(b) \/ (ts(a) = ts(b) /\ a < b)
    BY DEF Earlier
  <2> HIDE DEF ts
  <2>3. \A a \in I : ~ Earlier(a, a)
    BY <2>1, <2>2
  <2>4. \A a, b, c \in I : Earlier(a, b) /\ Earlier(b, c) => Earlier(a, c)
    BY <2>1, <2>2
  <2>5. \A a, b \in I : a # b => Earlier(a, b) \/ Earlier(b, a)
    BY <2>1, <2>2
  <2> QED
    BY <2>3, <2>4, <2>5
<1>3. StrictOrder(I, R)
  BY <1>2 DEF StrictOrder
<1>4. /\ o \in [1 .. N -> I] /\ \A k, l \in 1 .. N : k < l => <<o[k], o[l]>> \in R
      /\ \A x \in I : \E k \in 1 .. N : o[k] = x
  <2> HIDE DEF R
  <2> QED
    BY <1>1, <1>3, ArrangedFacts, SMTT(30)
<1>5. N # 0
  BY <1>1, FS_EmptySet
<1> HIDE DEF N, o
<1>6. \A k, l \in 1 .. N : k < l => Earlier(o[k], o[l])
  BY <1>4
<1>7. IsFirst(o[1])
  <2>1. 1 \in 1 .. N /\ o[1] \in I
    BY <1>1, <1>4, <1>5
  <2>2. ASSUME NEW b \in I, b # o[1] PROVE Earlier(o[1], b)
    <3>1. PICK k \in 1 .. N : o[k] = b
      BY <1>4
    <3>2. 1 < k
      BY <2>2, <3>1
    <3> QED
      BY <1>6, <2>1, <3>1, <3>2
  <2> QED
    BY <2>1, <2>2
<1>8. IsLast(o[N])
  <2>1. N \in 1 .. N /\ o[N] \in I
    BY <1>1, <1>4, <1>5
  <2>2. ASSUME NEW a \in I, a # o[N] PROVE Earlier(a, o[N])
    <3>1. PICK k \in 1 .. N : o[k] = a
      BY <1>4
    <3>2. k < N
      BY <2>1, <2>2, <3>1
    <3> QED
      BY <1>6, <2>1, <3>1, <3>2
  <2> QED
    BY <2>1, <2>2
<1> DEFINE first == CHOOSE a \in I : \A b \in I \ {a} : Earlier(a, b)
           last  == CHOOSE b \in I : \A a \in I \ {b} : Earlier(a, b)
<1>9. first \in I /\ \A b \in I \ {first} : Earlier(first, b)
  BY <1>7
<1>10. last \in I /\ \A a \in I \ {last} : Earlier(a, last)
  BY <1>8
<1> HIDE DEF first, last
<1>11. ASSUME first = last PROVE I = {first}
  <2>1. ASSUME NEW x \in I, x # first PROVE FALSE
    <3>1. Earlier(first, x) /\ Earlier(x, first)
      BY <1>9, <1>10, <1>11, <2>1
    <3> QED
      BY <1>2, <1>9, <3>1
  <2> QED
    BY <1>9, <2>1
<1> QED
  BY <1>9, <1>10, <1>11 DEF first, last

(***************************************************************************)
(* Drafts of flows by what they were made of: a component, two packets, or *)
(* three and more packets alike.                                           *)
(***************************************************************************)
Drafts == Relating!RelationDrafts(Relating!Relations) \cup Relating!RepeatedDrafts

ComponentsOf(kind) == Relating!Components(Relating!OfKind(Relating!Relations, kind))

FromComponent(d) ==
  \/ d.kind = "auth" /\ d.reason = "auth-sequence" /\ d.ids \in ComponentsOf("auth-flow")
  \/ d.kind = "reconnect" /\ d.reason = "reconnect-sequence" /\ d.ids \in ComponentsOf("reconnect-flow")

FromTwo(d) ==
  /\ \/ d.kind = "heartbeat" /\ d.reason = "heartbeat-sequence"
     \/ d.kind = "request-response" /\ d.reason = "request-response"
     \/ d.kind = "replay" /\ d.reason = "replay-source"
  /\ \E a, b \in PacketIds : a # b /\ d.ids = {a, b}

AlikeIds(i) == {packets[j].id : j \in {k \in DOMAIN packets : Relating!Alike(packets[i], packets[k])}}

FromAlike(d) ==
  /\ \/ d.kind = "heartbeat" /\ d.reason = "heartbeat-sequence"
     \/ d.kind = "repeated-event" /\ d.reason = "repeated-event"
  /\ \E i \in DOMAIN packets : d.ids = AlikeIds(i)
  /\ Cardinality(d.ids) >= 3

LEMMA RelationDraftForms ==
  ASSUME NEW d \in Relating!RelationDrafts(Relating!Relations)
  PROVE  FromComponent(d) \/ FromTwo(d)
<1>7. ASSUME NEW kind, NEW reason, NEW c, NEW title, d = Relating!Draft(kind, reason, c, title)
      PROVE  d.kind = kind /\ d.reason = reason /\ d.ids = c
  BY <1>7 DEF Relating!Draft
<1>1. CASE \E c \in ComponentsOf("auth-flow") : d = Relating!Draft("auth", "auth-sequence", c, "sequence")
  <2>1. d.kind = "auth" /\ d.reason = "auth-sequence" /\ d.ids \in ComponentsOf("auth-flow")
    BY <1>1, <1>7
  <2> QED
    BY <2>1 DEF FromComponent
<1>2. CASE \E c \in ComponentsOf("reconnect-flow") :
             d = Relating!Draft("reconnect", "reconnect-sequence", c, "sequence")
  <2>1. d.kind = "reconnect" /\ d.reason = "reconnect-sequence" /\ d.ids \in ComponentsOf("reconnect-flow")
    BY <1>2, <1>7
  <2> QED
    BY <2>1 DEF FromComponent
<1>3. ASSUME NEW r \in Relating!Relations
      PROVE  r.from # r.to /\ r.from \in PacketIds /\ r.to \in PacketIds
  <2>1. Relating!Relates(r)
    BY RelationForms
  <2> QED
    BY <2>1, PresentIds DEF Relating!Relates
<1>4. CASE \E r \in Relating!OfKind(Relating!Relations, "request-response") :
             d = IF r.reason = "ping-pong"
                 THEN Relating!Draft("heartbeat", "heartbeat-sequence", {r.from, r.to}, r.reason)
                 ELSE Relating!Draft("request-response", "request-response", {r.from, r.to}, r.reason)
  <2>1. PICK r \in Relating!Relations :
          d = IF r.reason = "ping-pong"
              THEN Relating!Draft("heartbeat", "heartbeat-sequence", {r.from, r.to}, r.reason)
              ELSE Relating!Draft("request-response", "request-response", {r.from, r.to}, r.reason)
    BY <1>4 DEF Relating!OfKind
  <2>2. /\ d.ids = {r.from, r.to}
        /\ \/ d.kind = "heartbeat" /\ d.reason = "heartbeat-sequence"
           \/ d.kind = "request-response" /\ d.reason = "request-response"
    BY <2>1 DEF Relating!Draft
  <2> QED
    BY <1>3, <2>2 DEF FromTwo
<1>5. CASE \E r \in Relating!OfKind(Relating!Relations, "replay-source") :
             d = Relating!Draft("replay", "replay-source", {r.from, r.to}, r.reason)
  <2>1. PICK r \in Relating!Relations : d = Relating!Draft("replay", "replay-source", {r.from, r.to}, r.reason)
    BY <1>5 DEF Relating!OfKind
  <2>2. d.ids = {r.from, r.to} /\ d.kind = "replay" /\ d.reason = "replay-source"
    BY <2>1 DEF Relating!Draft
  <2> QED
    BY <1>3, <2>2 DEF FromTwo
<1> QED
  BY <1>1, <1>2, <1>4, <1>5 DEF Relating!RelationDrafts, ComponentsOf

LEMMA RepeatedDraftForms ==
  ASSUME TimelineInv, NEW d \in Relating!RepeatedDrafts
  PROVE  FromAlike(d)
<1> DEFINE Group(p) == {q \in Relating!Range(packets) : Relating!Alike(p, q)}
           Ids(g) == {p.id : p \in g}
<1>1. PICK p \in Relating!Range(packets) :
        /\ Relating!Cardinality(Group(p)) >= 3
        /\ \/ d = Relating!Draft("heartbeat", "heartbeat-sequence", Ids(Group(p)), "repeated")
           \/ d = Relating!Draft("repeated-event", "repeated-event", Ids(Group(p)), "repeated")
  BY DEF Relating!RepeatedDrafts
<1>2. \A q : q \in Relating!Range(packets) <=> \E j \in DOMAIN packets : q = packets[j]
  BY DEF Relating!Range
<1>3. PICK i \in DOMAIN packets : p = packets[i]
  BY <1>2
<1> DEFINE g == Group(p)
           named == Ids(g)
<1>4. \A q : q \in g <=> \E j \in DOMAIN packets : q = packets[j] /\ Relating!Alike(packets[i], packets[j])
  BY <1>2, <1>3
<1>5. /\ d.ids = named
      /\ \/ d.kind = "heartbeat" /\ d.reason = "heartbeat-sequence"
         \/ d.kind = "repeated-event" /\ d.reason = "repeated-event"
  BY <1>1 DEF Relating!Draft
<1>6. Cardinality(g) >= 3
  <2>1. Relating!Cardinality(g) = Cardinality(g)
    BY DEF Relating!Cardinality, Cardinality
  <2> QED
    BY <1>1, <2>1
<1> HIDE DEF Group
<1>7. named = AlikeIds(i)
  BY <1>4 DEF AlikeIds
<1>8. named \subseteq PacketIds
  BY <1>4 DEF PacketIds
<1>9. IsFiniteSet(named) /\ Cardinality(named) \in Nat
  BY <1>8, PacketIdsAreFinite
<1>10. Cardinality(g) <= Cardinality(named) /\ Cardinality(g) \in Nat
  <2> DEFINE f == [q \in g |-> q.id]
  <2>1. f \in [g -> named]
    OBVIOUS
  <2>2. ASSUME NEW q \in g, NEW r \in g, q.id = r.id PROVE q = r
    <3>1. PICK j \in DOMAIN packets : q = packets[j]
      BY <1>4
    <3>2. PICK k \in DOMAIN packets : r = packets[k]
      BY <1>4
    <3> QED
      BY <2>2, <3>1, <3>2 DEF TimelineInv
  <2>3. f \in Injection(g, named)
    BY <2>1, <2>2 DEF Injection, IsInjective
  <2> HIDE DEF g, named, f
  <2>4. IsFiniteSet(g) /\ Cardinality(g) <= Cardinality(named)
    BY <1>9, <2>3, FS_Injection
  <2> QED
    BY <2>4, FS_CardinalityType
<1> HIDE DEF g, named
<1>11. Cardinality(d.ids) >= 3
  BY <1>5, <1>6, <1>9, <1>10
<1> QED
  BY <1>5, <1>7, <1>11 DEF FromAlike

LEMMA DraftForms ==
  ASSUME TimelineInv, NEW d \in Drafts
  PROVE  FromComponent(d) \/ FromTwo(d) \/ FromAlike(d)
BY RelationDraftForms, RepeatedDraftForms DEF Drafts

LEMMA ComponentIds ==
  ASSUME NEW kind, NEW c \in ComponentsOf(kind)
  PROVE  c \subseteq PacketIds
<1>1. c \subseteq EndsOf(Relating!OfKind(Relating!Relations, kind))
  BY ComponentsHoldEnds DEF ComponentsOf
<1>2. \A r \in Relating!OfKind(Relating!Relations, kind) : r.from \in PacketIds /\ r.to \in PacketIds
  <2>1. \A r \in Relating!Relations : Relating!Relates(r)
    BY RelationForms
  <2> QED
    BY <2>1, PresentIds DEF Relating!OfKind, Relating!Relates
<1> QED
  BY <1>1, <1>2 DEF EndsOf

LEMMA DraftIds ==
  ASSUME TimelineInv, NEW d \in Drafts
  PROVE  d.ids \in SUBSET PacketIds
<1>1. \A i \in DOMAIN packets : AlikeIds(i) \subseteq PacketIds
  BY DEF AlikeIds, PacketIds
<1> QED
  BY <1>1, DraftForms, ComponentIds DEF FromComponent, FromTwo, FromAlike

LEMMA TwoAreTwo ==
  ASSUME NEW a, NEW b, a # b
  PROVE  Cardinality({a, b}) = 2
<1>1. IsFiniteSet({a}) /\ Cardinality({a}) = 1 /\ {a} \cup {b} = {a, b} /\ b \notin {a}
  BY FS_Singleton
<1>2. Cardinality({a} \cup {b}) = Cardinality({a}) + 1
  BY <1>1, FS_AddElement
<1> QED
  BY <1>1, <1>2

(***************************************************************************)
(* Drafts of one kind and reason, with two packets in common that are the  *)
(* ends of both and as many in all, hold the same packets.                 *)
(***************************************************************************)
LEMMA SamePackets ==
  ASSUME TimelineInv, NEW d \in Drafts, NEW e \in Drafts, d.kind = e.kind, d.reason = e.reason,
         NEW x, NEW y, {x, y} \subseteq d.ids, {x, y} \subseteq e.ids, x = y => d.ids = {x},
         Cardinality(d.ids) = Cardinality(e.ids)
  PROVE  d.ids = e.ids
<1>1. (FromComponent(d) \/ FromTwo(d) \/ FromAlike(d)) /\ (FromComponent(e) \/ FromTwo(e) \/ FromAlike(e))
  BY DraftForms
<1>2. CASE FromComponent(d)
  <2>1. FromComponent(e)
    BY <1>1, <1>2 DEF FromComponent, FromTwo, FromAlike
  <2>2. \E kind : d.ids \in ComponentsOf(kind) /\ e.ids \in ComponentsOf(kind)
    BY <1>2, <2>1 DEF FromComponent
  <2>3. d.ids \cap e.ids # {}
    OBVIOUS
  <2> QED
    BY <2>2, <2>3, ComponentsAreDisjoint DEF ComponentsOf
<1>3. \A c : FromTwo(c) => Cardinality(c.ids) = 2
  <2> SUFFICES ASSUME NEW c, FromTwo(c) PROVE Cardinality(c.ids) = 2
    OBVIOUS
  <2>2. PICK a, b : a # b /\ c.ids = {a, b}
    BY DEF FromTwo
  <2>3. Cardinality({a, b}) = 2
    BY <2>2, TwoAreTwo
  <2> QED
    BY <2>2, <2>3, Zenon
<1>4. \A c : FromAlike(c) => Cardinality(c.ids) # 2
  <2> SUFFICES ASSUME NEW c, FromAlike(c), Cardinality(c.ids) = 2 PROVE FALSE
    OBVIOUS
  <2>1. Cardinality(c.ids) >= 3
    BY DEF FromAlike
  <2> QED
    BY <2>1
<1>5. CASE FromTwo(d) /\ FromTwo(e)
  <2>1. PICK a, b : a # b /\ d.ids = {a, b}
    BY <1>5 DEF FromTwo
  <2>2. PICK p, q : p # q /\ e.ids = {p, q}
    BY <1>5 DEF FromTwo
  <2>3. x # y
    BY <2>1
  <2> QED
    BY <2>1, <2>2, <2>3
<1>6. CASE FromAlike(d) /\ FromAlike(e)
  <2>1. PICK i \in DOMAIN packets : d.ids = AlikeIds(i)
    BY <1>6 DEF FromAlike
  <2>2. PICK j \in DOMAIN packets : e.ids = AlikeIds(j)
    BY <1>6 DEF FromAlike
  <2>3. PICK k \in DOMAIN packets : x = packets[k].id /\ Relating!Alike(packets[i], packets[k])
    BY <2>1 DEF AlikeIds
  <2>4. PICK l \in DOMAIN packets : x = packets[l].id /\ Relating!Alike(packets[j], packets[l])
    BY <2>2 DEF AlikeIds
  <2>5. k = l
    BY <2>3, <2>4 DEF TimelineInv
  <2>6. \A m \in DOMAIN packets : Relating!Alike(packets[i], packets[m]) <=> Relating!Alike(packets[j], packets[m])
    BY <2>3, <2>4, <2>5 DEF Relating!Alike
  <2> QED
    BY <2>1, <2>2, <2>6 DEF AlikeIds
<1>7. ~ FromComponent(d) => ~ FromComponent(e)
  BY <1>1 DEF FromComponent, FromTwo, FromAlike
<1> QED
  BY <1>1, <1>2, <1>3, <1>4, <1>5, <1>6, <1>7

(***************************************************************************)
(* Of drafts with the same packets, kind and reason one stands for all.    *)
(***************************************************************************)
Stands(kind, reason, packetIds) ==
  CHOOSE d \in Drafts : d.kind = kind /\ d.reason = reason /\ d.ids = packetIds

AllFlows == Relating!Flows(Relating!Relations)

LEMMA FlowFacts ==
  ASSUME NEW f \in AllFlows
  PROVE  f \in Drafts /\ f = Stands(f.kind, f.reason, f.ids) /\ Cardinality(f.ids) >= 2
<1>1. f \in Relating!Dedupe(Drafts) /\ Relating!Cardinality(f.ids) >= 2
  BY DEF AllFlows, Relating!Flows, Drafts
<1>2. Relating!Cardinality(f.ids) = Cardinality(f.ids)
  BY DEF Relating!Cardinality, Cardinality
<1>3. PICK e \in Drafts : f = Stands(e.kind, e.reason, e.ids)
  BY <1>1 DEF Relating!Dedupe, Stands
<1>4. f \in Drafts /\ f.kind = e.kind /\ f.reason = e.reason /\ f.ids = e.ids
  BY <1>3 DEF Stands
<1> QED
  BY <1>1, <1>2, <1>3, <1>4

LEMMA DraftsStand ==
  ASSUME NEW e \in Drafts, Cardinality(e.ids) >= 2
  PROVE  \E f \in AllFlows : f.kind = e.kind /\ f.reason = e.reason /\ f.ids = e.ids
<1> DEFINE f == CHOOSE d \in Drafts : d.kind = e.kind /\ d.reason = e.reason /\ d.ids = e.ids
<1>1. f \in Drafts /\ f.kind = e.kind /\ f.reason = e.reason /\ f.ids = e.ids
  OBVIOUS
<1>2. f \in Relating!Dedupe(Drafts)
  BY DEF Relating!Dedupe
<1> HIDE DEF f
<1>3. Relating!Cardinality(f.ids) = Cardinality(e.ids)
  BY <1>1 DEF Relating!Cardinality, Cardinality
<1>4. f \in AllFlows
  BY <1>2, <1>3 DEF AllFlows, Relating!Flows, Drafts
<1> QED
  BY <1>1, <1>4

LEMMA FlowIdIs ==
  ASSUME NEW f
  PROVE  Relating!FlowId(f) =
           <<f.kind, f.reason, CHOOSE a \in f.ids : \A b \in f.ids \ {a} : Earlier(a, b),
             CHOOSE b \in f.ids : \A a \in f.ids \ {b} : Earlier(a, b), Cardinality(f.ids)>>
<1>1. Relating!Cardinality(f.ids) = Cardinality(f.ids)
  BY DEF Relating!Cardinality, Cardinality
<1> QED
  BY <1>1 DEF Relating!FlowId, Earlier

LEMMA FlowIdsDiffer ==
  ASSUME TimelineInv, NEW f \in AllFlows, NEW g \in AllFlows, Relating!FlowId(f) = Relating!FlowId(g)
  PROVE  f = g
<1> DEFINE FirstOf(I) == CHOOSE a \in I : \A b \in I \ {a} : Earlier(a, b)
           LastOf(I) == CHOOSE b \in I : \A a \in I \ {b} : Earlier(a, b)
<1>1. /\ f.kind = g.kind /\ f.reason = g.reason
      /\ FirstOf(f.ids) = FirstOf(g.ids) /\ LastOf(f.ids) = LastOf(g.ids) /\ Cardinality(f.ids) = Cardinality(g.ids)
  BY FlowIdIs
<1>2. ASSUME NEW h \in AllFlows
      PROVE  /\ FirstOf(h.ids) \in h.ids /\ LastOf(h.ids) \in h.ids
             /\ (FirstOf(h.ids) = LastOf(h.ids) => h.ids = {FirstOf(h.ids)})
  <2>1. h.ids \in SUBSET PacketIds /\ Cardinality(h.ids) >= 2
    BY FlowFacts, DraftIds
  <2>2. h.ids # {}
    <3>1. Cardinality({}) = 0
      BY FS_EmptySet
    <3> QED
      BY <2>1, <3>1
  <2> QED
    BY <2>1, <2>2, FirstAndLast
<1> HIDE DEF FirstOf, LastOf
<1>3. f.ids = g.ids
  <2> DEFINE x == FirstOf(f.ids)
             y == LastOf(f.ids)
  <2>1. {x, y} \subseteq f.ids /\ (x = y => f.ids = {x})
    BY <1>2
  <2>2. {x, y} \subseteq g.ids
    BY <1>1, <1>2
  <2>3. f \in Drafts /\ g \in Drafts
    BY FlowFacts
  <2> HIDE DEF x, y
  <2> QED
    BY <1>1, <2>1, <2>2, <2>3, SamePackets
<1>4. f = Stands(f.kind, f.reason, f.ids) /\ g = Stands(g.kind, g.reason, g.ids)
  BY FlowFacts
<1> QED
  BY <1>1, <1>3, <1>4

(***************************************************************************)
(* A packet of a sequence is in the one component that holds it.           *)
(***************************************************************************)
LEMMA SequenceFlow ==
  ASSUME TimelineInv, NEW r \in Relating!Relations, NEW relation, NEW kind, NEW reason, r.kind = relation,
         <<relation, kind, reason>> \in {<<"auth-flow", "auth", "auth-sequence">>,
                                         <<"reconnect-flow", "reconnect", "reconnect-sequence">>}
  PROVE  \E f \in AllFlows : f.kind = kind /\ f.reason = reason /\ r.from \in f.ids
<1> DEFINE rels == Relating!OfKind(Relating!Relations, relation)
<1>1. r \in rels /\ Relating!Relates(r)
  BY RelationForms DEF Relating!OfKind
<1> HIDE DEF rels
<1>2. PICK c \in Relating!Components(rels) : r.from \in c /\ r.to \in c
  BY <1>1, ComponentOf
<1> DEFINE e == Relating!Draft(kind, reason, c, "sequence")
<1>3. e \in Drafts /\ e.kind = kind /\ e.reason = reason /\ e.ids = c
  <2>1. e \in Relating!RelationDrafts(Relating!Relations)
    BY <1>2 DEF Relating!RelationDrafts, rels
  <2> QED
    BY <2>1 DEF Drafts, Relating!Draft
<1>4. Cardinality(c) >= 2
  <2>1. r.from # r.to /\ {r.from, r.to} \subseteq c
    BY <1>1, <1>2 DEF Relating!Relates
  <2>2. c \in SUBSET PacketIds
    BY <1>2, ComponentIds DEF ComponentsOf, rels
  <2>3. IsFiniteSet(c) /\ Cardinality(c) \in Nat
    BY <2>2, PacketIdsAreFinite
  <2>4. Cardinality({r.from, r.to}) <= Cardinality(c)
    BY <2>1, <2>3, FS_Subset
  <2>5. Cardinality({r.from, r.to}) = 2
    BY <2>1, TwoAreTwo
  <2> QED
    BY <2>3, <2>4, <2>5
<1> HIDE DEF e
<1> QED
  BY <1>2, <1>3, <1>4, DraftsStand

LEMMA FlowsDiffer ==
  ASSUME TimelineInv
  PROVE  Relating!FlowsAreDistinct(Relating!Relations, AllFlows)
<1>1. \A f, g \in AllFlows : f # g => Relating!FlowId(f) # Relating!FlowId(g)
  BY FlowIdsDiffer
<1>2. ASSUME NEW r \in Relating!Relations, r.kind \in {"auth-flow", "reconnect-flow"}
      PROVE  Relating!Cardinality({f \in AllFlows : f.kind \in {"auth", "reconnect"} /\ r.from \in f.ids
                                                    /\ f.reason = r.reason}) = 1
  <2> DEFINE own == {f \in AllFlows : f.kind \in {"auth", "reconnect"} /\ r.from \in f.ids /\ f.reason = r.reason}
  <2>1. PICK f \in AllFlows : f.kind \in {"auth", "reconnect"} /\ f.reason = r.reason /\ r.from \in f.ids
    <3>1. /\ r.kind = "auth-flow" => r.reason = "auth-sequence"
          /\ r.kind = "reconnect-flow" => r.reason = "reconnect-sequence"
      BY RelationForms, KindsTell
    <3>2. r.kind = "auth-flow" => \E f \in AllFlows : f.kind = "auth" /\ f.reason = "auth-sequence" /\ r.from \in f.ids
      BY SequenceFlow
    <3>3. r.kind = "reconnect-flow" =>
            \E f \in AllFlows : f.kind = "reconnect" /\ f.reason = "reconnect-sequence" /\ r.from \in f.ids
      BY SequenceFlow
    <3> QED
      BY <1>2, <3>1, <3>2, <3>3
  <2>2. f \in own
    BY <2>1
  <2>3. ASSUME NEW g \in own PROVE g = f
    <3>1. f \in Drafts /\ g \in Drafts /\ f = Stands(f.kind, f.reason, f.ids) /\ g = Stands(g.kind, g.reason, g.ids)
      BY FlowFacts
    <3>2. FromComponent(f) /\ FromComponent(g)
      BY <2>1, <3>1, DraftForms DEF FromTwo, FromAlike
    <3>3. f.reason = g.reason /\ f.ids \cap g.ids # {}
      BY <2>1
    <3>4. f.kind = g.kind /\ \E kind : f.ids \in ComponentsOf(kind) /\ g.ids \in ComponentsOf(kind)
      BY <3>2, <3>3 DEF FromComponent
    <3>5. f.ids = g.ids
      BY <3>3, <3>4, ComponentsAreDisjoint DEF ComponentsOf
    <3> QED
      BY <3>1, <3>3, <3>4, <3>5
  <2>4. own = {f}
    BY <2>2, <2>3
  <2>5. Relating!Cardinality(own) = Cardinality(own)
    BY DEF Relating!Cardinality, Cardinality
  <2> HIDE DEF own
  <2>6. Cardinality(own) = 1
    BY <2>4, FS_Singleton
  <2> QED
    BY <2>5, <2>6 DEF own
<1> QED
  BY <1>1, <1>2 DEF Relating!FlowsAreDistinct

(***************************************************************************)
(* What a filter and a second one leave: of places 1 .. 2 * n, the first   *)
(* keeps every even one, which hold the packets, and the second only them. *)
(***************************************************************************)
EvenArePackets(offered, n) ==
  \A m \in 1 .. 2 * n : offered[m].type = "packet" <=> \E i \in 1 .. n : m = 2 * i

KeepsEven(kept, n) == \A i \in 1 .. n : 2 * i \in kept

PacketsAmong(rows) == Kept(rows, {k \in DOMAIN rows : rows[k].type = "packet"})

LEMMA PacketsOfRows ==
  ASSUME NEW S, NEW n \in Nat, NEW offered \in Seq(S), Len(offered) = 2 * n, EvenArePackets(offered, n),
         NEW kept, kept \subseteq 1 .. 2 * n, KeepsEven(kept, n)
  PROVE  PacketsAmong(Kept(offered, kept)) = [i \in 1 .. n |-> offered[2 * i]]
<1> DEFINE rows == Kept(offered, kept)
           shown == {k \in DOMAIN rows : rows[k].type = "packet"}
           left == Kept(rows, shown)
           M == Len(left)
<1>1. rows \in Seq(S) /\ IsFiltering(rows, offered, kept)
  <2>1. kept \subseteq DOMAIN offered
    BY LenProperties
  <2> QED
    BY <2>1, KeptFacts
<1> HIDE DEF rows
<1>2. left \in Seq(S) /\ IsFiltering(left, rows, shown)
  <2>1. shown \subseteq DOMAIN rows
    OBVIOUS
  <2> HIDE DEF shown
  <2> QED
    BY <1>1, <2>1, KeptFacts
<1>3. DOMAIN rows = 1 .. Len(rows) /\ Len(rows) \in Nat /\ M \in Nat /\ DOMAIN left = 1 .. M
  BY <1>1, <1>2, LenProperties
<1>4. \A k : k \in shown <=> k \in 1 .. Len(rows) /\ rows[k].type = "packet"
  BY <1>3
<1> HIDE DEF shown, left
<1>5. PICK q \in [1 .. Len(rows) -> kept] :
        /\ \A k \in 1 .. Len(rows) : rows[k] = offered[q[k]]
        /\ \A k, l \in 1 .. Len(rows) : k < l => q[k] < q[l]
        /\ \A i \in kept : \E k \in 1 .. Len(rows) : q[k] = i
  BY <1>1 DEF IsFiltering
<1>6. PICK p \in [1 .. M -> shown] :
        /\ \A k \in 1 .. M : left[k] = rows[p[k]]
        /\ \A k, l \in 1 .. M : k < l => p[k] < p[l]
        /\ \A i \in shown : \E k \in 1 .. M : p[k] = i
  BY <1>2 DEF IsFiltering
<1> HIDE DEF M
<1> DEFINE place == [k \in 1 .. M |-> CHOOSE i \in 1 .. n : q[p[k]] = 2 * i]
<1>7. ASSUME NEW k \in 1 .. M
      PROVE  /\ p[k] \in 1 .. Len(rows) /\ left[k] = offered[q[p[k]]]
             /\ place[k] \in 1 .. n /\ q[p[k]] = 2 * place[k]
  <2>1. p[k] \in 1 .. Len(rows) /\ left[k] = rows[p[k]] /\ rows[p[k]].type = "packet"
    BY <1>4, <1>6
  <2>2. q[p[k]] \in 1 .. 2 * n /\ rows[p[k]] = offered[q[p[k]]]
    BY <1>5, <2>1
  <2>3. \E i \in 1 .. n : q[p[k]] = 2 * i
    BY <2>1, <2>2 DEF EvenArePackets
  <2> QED
    BY <2>1, <2>2, <2>3
<1>8. place \in [1 .. M -> 1 .. n]
  BY <1>7
<1> HIDE DEF place
<1>9. Increases(place, M)
  <2>1. ASSUME NEW k \in 1 .. M, NEW l \in 1 .. M, k < l PROVE place[k] < place[l]
    <3>1. q[p[k]] < q[p[l]]
      BY <1>5, <1>6, <1>7, <2>1
    <3> QED
      BY <1>7, <3>1
  <2> QED
    BY <2>1 DEF Increases
<1>10. Covers(place, M, n)
  <2>1. ASSUME NEW i \in 1 .. n PROVE \E k \in 1 .. M : place[k] = i
    <3>1. PICK l \in 1 .. Len(rows) : q[l] = 2 * i
      BY <1>5 DEF KeepsEven
    <3>2. 2 * i \in 1 .. 2 * n /\ \E j \in 1 .. n : 2 * i = 2 * j
      OBVIOUS
    <3>3. offered[2 * i].type = "packet"
      BY <3>2 DEF EvenArePackets
    <3>6. rows[l].type = "packet"
      BY <1>5, <3>1, <3>3
    <3>4. PICK k \in 1 .. M : p[k] = l
      BY <1>4, <1>6, <3>6
    <3>5. 2 * place[k] = 2 * i /\ place[k] \in 1 .. n
      BY <1>7, <3>1, <3>4
    <3> QED
      BY <3>5
  <2> QED
    BY <2>1 DEF Covers
<1>11. M = n /\ \A k \in 1 .. M : place[k] = k
  <2>1. M = n /\ place = [k \in 1 .. M |-> k]
    BY <1>3, <1>8, <1>9, <1>10, IncreasingOnto
  <2> QED
    BY <2>1
<1>12. ASSUME NEW k \in 1 .. n PROVE left[k] = offered[2 * k]
  <2>1. k \in 1 .. M /\ place[k] = k
    BY <1>11
  <2>2. left[k] = offered[q[p[k]]] /\ q[p[k]] = 2 * place[k]
    BY <1>7, <2>1
  <2> QED
    BY <2>1, <2>2
<1>13. left = [k \in 1 .. n |-> left[k]]
  <2>1. left \in [1 .. n -> S]
    BY <1>2, <1>3, <1>11, ElementOfSeq DEF M
  <2> QED
    BY <2>1
<1> QED
  BY <1>12, <1>13 DEF PacketsAmong, left, shown, rows

LEMMA RelatingKept == \A list, kept : Relating!Kept(list, kept) = Kept(list, kept)
<1> TAKE list, kept
<1> DEFINE R == {ij \in kept \X kept : ij[1] < ij[2]}
<1>1. Relating!Cardinality(kept) = Cardinality(kept)
  BY DEF Relating!Cardinality, Cardinality
<1>2. Relating!Arranged(kept, R) = Arranged(kept, R)
  BY DEF Relating!Arranged, Arranged, Relating!Places, Places, Relating!Cardinality, Cardinality
<1> QED
  BY <1>1, <1>2 DEF Relating!Kept, Kept

LEMMA ExpandedShowsAll ==
  ASSUME NEW S, NEW list \in Seq(S)
  PROVE  LET rows == Relating!Rows(list, Relating!GroupIds(list))
         IN  Relating!Kept(rows, {k \in DOMAIN rows : rows[k].type = "packet"})
               = [i \in DOMAIN list |-> Relating!PacketItem(list[i])]
<1> DEFINE N == Len(list)
           groups == Relating!Groups(list)
           place(run) == 2 * run[1] - 1
           begun(k) == CHOOSE run \in groups : place(run) = k
           offered == [k \in 1 .. 2 * N |-> IF k % 2 = 0 THEN Relating!PacketItem(list[k \div 2])
                                          ELSE Relating!GroupItem(Relating!GroupId(list, begun(k)))]
           hidden == UNION {run[1] .. run[2] : run \in
                              {r \in groups : Relating!GroupId(list, r) \notin Relating!GroupIds(list)}}
           kept == {2 * i : i \in DOMAIN list \ hidden} \cup {place(run) : run \in groups}
<1>1. Relating!Rows(list, Relating!GroupIds(list)) = Kept(offered, kept)
  BY RelatingKept DEF Relating!Rows
<1>2. N \in Nat /\ DOMAIN list = 1 .. N
  BY LenProperties
<1>3. hidden = {}
  BY DEF Relating!GroupIds
<1>4. \A run \in groups : run[1] \in 1 .. N
  BY <1>2 DEF Relating!Groups, Relating!Runs
<1>5. kept \subseteq 1 .. 2 * N /\ KeepsEven(kept, N)
  <2>1. kept = {2 * i : i \in 1 .. N} \cup {place(run) : run \in groups}
    BY <1>2, <1>3
  <2>2. \A i \in 1 .. N : 2 * i \in 1 .. 2 * N /\ 2 * i - 1 \in 1 .. 2 * N
    BY <1>2
  <2> HIDE DEF kept, groups
  <2> QED
    BY <1>4, <2>1, <2>2 DEF KeepsEven
<1> HIDE DEF kept, groups, N
<1>6. ASSUME NEW m \in 1 .. 2 * N
      PROVE  offered[m].type = "packet" <=> \E i \in 1 .. N : m = 2 * i
  <2>1. m % 2 = 0 => m \div 2 \in 1 .. N /\ m = 2 * (m \div 2)
    BY <1>2
  <2>2. m % 2 # 0 => ~ \E i \in 1 .. N : m = 2 * i
    BY <1>2
  <2>3. m % 2 = 0 => offered[m] = Relating!PacketItem(list[m \div 2])
    OBVIOUS
  <2>4. m % 2 # 0 => offered[m] = Relating!GroupItem(Relating!GroupId(list, begun(m)))
    OBVIOUS
  <2>5. m % 2 = 0 <=> offered[m].type = "packet"
    BY <2>3, <2>4 DEF Relating!PacketItem, Relating!GroupItem
  <2> HIDE DEF offered
  <2> QED
    BY <2>1, <2>2, <2>5
<1>7. ASSUME NEW i \in 1 .. N
      PROVE  offered[2 * i] = Relating!PacketItem(list[i])
  <2>1. 2 * i \in 1 .. 2 * N /\ (2 * i) % 2 = 0 /\ (2 * i) \div 2 = i
    BY <1>2
  <2> QED
    BY <2>1
<1>8. offered \in Seq(Members(offered)) /\ Len(offered) = 2 * N
  <2>1. DOMAIN offered = 1 .. 2 * N /\ offered = [m \in DOMAIN offered |-> offered[m]]
    OBVIOUS
  <2>4. 2 * N \in Nat
    BY <1>2
  <2> HIDE DEF offered
  <2>5. offered \in [1 .. 2 * N -> Members(offered)]
    BY <2>1 DEF Members
  <2>2. offered \in Seq(Members(offered))
    BY <2>4, <2>5, SeqDef
  <2> QED
    BY <2>1, <2>2, <2>4, LenProperties
<1> HIDE DEF offered
<1>9. EvenArePackets(offered, N)
  BY <1>6 DEF EvenArePackets
<1>10. PacketsAmong(Kept(offered, kept)) = [i \in 1 .. N |-> offered[2 * i]]
  <2>1. N \in Nat
    BY <1>2
  <2> HIDE DEF N
  <2> QED
    BY <1>5, <1>8, <1>9, <2>1, PacketsOfRows
<1>11. [i \in 1 .. N |-> offered[2 * i]] = [i \in DOMAIN list |-> Relating!PacketItem(list[i])]
  BY <1>2, <1>7
<1> QED
  BY <1>1, <1>10, <1>11, RelatingKept DEF PacketsAmong

(***************************************************************************)
(* A run of a list that lost its first packet is, one place later, a run   *)
(* of the list, or all of one but its first packet.                        *)
(***************************************************************************)
SameKeys(list, i, j) == Relating!Key(list[i]) = Relating!Key(list[j])

IsRun(list, a, b) ==
  /\ a \in 1 .. Len(list) /\ b \in 1 .. Len(list) /\ a <= b
  /\ \A i \in a .. b : SameKeys(list, i, a)
  /\ a = 1 \/ ~SameKeys(list, a - 1, a)
  /\ b = Len(list) \/ ~SameKeys(list, b + 1, a)

LEMMA RunFacts ==
  ASSUME NEW S, NEW list \in Seq(S)
  PROVE  /\ \A run \in Relating!Runs(list) : IsRun(list, run[1], run[2])
         /\ \A a, b : IsRun(list, a, b) => <<a, b>> \in Relating!Runs(list)
<1>1. DOMAIN list = 1 .. Len(list)
  BY LenProperties
<1>2. ASSUME NEW run \in Relating!Runs(list) PROVE IsRun(list, run[1], run[2])
  BY <1>1 DEF Relating!Runs, IsRun, SameKeys
<1>3. ASSUME NEW a, NEW b, IsRun(list, a, b) PROVE <<a, b>> \in Relating!Runs(list)
  BY <1>1, <1>3 DEF Relating!Runs, IsRun, SameKeys
<1> QED
  BY <1>2, <1>3

LEMMA TailRuns ==
  ASSUME NEW S, NEW list \in Seq(S), list # <<>>, NEW a, NEW b, IsRun(Tail(list), a, b)
  PROVE  /\ SameKeys(list, 1, 2) /\ a = 1 => IsRun(list, 1, b + 1)
         /\ ~(SameKeys(list, 1, 2) /\ a = 1) => IsRun(list, a + 1, b + 1)
<1> DEFINE N == Len(list)
           T == Tail(list)
<1>1. /\ N \in Nat /\ N >= 1 /\ Len(T) = N - 1
      /\ \A i \in 1 .. N - 1 : T[i] = list[i + 1]
  BY HeadTailProperties, EmptySeq, LenProperties
<1> HIDE DEF N, T
<1>2. /\ a \in 1 .. N - 1 /\ b \in 1 .. N - 1 /\ a <= b
      /\ \A i \in a .. b : SameKeys(T, i, a)
      /\ a = 1 \/ ~SameKeys(T, a - 1, a)
      /\ b = N - 1 \/ ~SameKeys(T, b + 1, a)
  BY <1>1 DEF IsRun, T
<1>3. ASSUME NEW i \in 1 .. N - 1 PROVE SameKeys(T, i, a) <=> SameKeys(list, i + 1, a + 1)
  BY <1>1, <1>2 DEF SameKeys
<1>4. \A i \in a + 1 .. b + 1 : SameKeys(list, i, a + 1)
  <2>1. ASSUME NEW i \in a + 1 .. b + 1 PROVE SameKeys(list, i, a + 1)
    <3>1. i - 1 \in a .. b /\ i - 1 \in 1 .. N - 1 /\ (i - 1) + 1 = i
      BY <1>1, <1>2
    <3> QED
      BY <1>2, <1>3, <3>1
  <2> QED
    BY <2>1
<1>5. b + 1 = N \/ ~SameKeys(list, (b + 1) + 1, a + 1)
  <2>1. CASE b = N - 1
    BY <1>1, <2>1
  <2>2. CASE b # N - 1
    <3>1. b + 1 \in 1 .. N - 1
      BY <1>1, <1>2, <2>2
    <3> QED
      BY <1>2, <1>3, <2>2, <3>1
  <2> QED
    BY <2>1, <2>2
<1>6. ASSUME SameKeys(list, 1, 2), a = 1 PROVE IsRun(list, 1, b + 1)
  <2>1. ASSUME NEW i \in 1 .. b + 1 PROVE SameKeys(list, i, 1)
    <3>1. i = 1 \/ i \in a + 1 .. b + 1
      BY <1>2, <1>6
    <3> QED
      BY <1>4, <1>6, <3>1 DEF SameKeys
  <2>2. b + 1 = N \/ ~SameKeys(list, (b + 1) + 1, 1)
    BY <1>5, <1>6 DEF SameKeys
  <2>3. 1 \in 1 .. N /\ b + 1 \in 1 .. N /\ 1 <= b + 1
    BY <1>1, <1>2
  <2> QED
    BY <2>1, <2>2, <2>3 DEF IsRun, N
<1>7. ASSUME ~(SameKeys(list, 1, 2) /\ a = 1) PROVE IsRun(list, a + 1, b + 1)
  <2>1. ~SameKeys(list, (a + 1) - 1, a + 1)
    <3>1. CASE a = 1
      BY <1>7, <3>1
    <3>2. CASE a # 1
      <4>1. a - 1 \in 1 .. N - 1 /\ (a - 1) + 1 = (a + 1) - 1
        BY <1>1, <1>2, <3>2
      <4> QED
        BY <1>2, <1>3, <3>2, <4>1
    <3> QED
      BY <3>1, <3>2
  <2>2. a + 1 \in 1 .. N /\ b + 1 \in 1 .. N /\ a + 1 <= b + 1
    BY <1>1, <1>2
  <2> QED
    BY <1>4, <1>5, <2>1, <2>2 DEF IsRun, N
<1> QED
  BY <1>6, <1>7

LEMMA TailGroups ==
  ASSUME NEW S, NEW list \in Seq(S), list # <<>>
  PROVE  Relating!GroupIds(Tail(list)) \subseteq Relating!GroupIds(list)
<1> SUFFICES ASSUME NEW id \in Relating!GroupIds(Tail(list)) PROVE id \in Relating!GroupIds(list)
  OBVIOUS
<1> DEFINE T == Tail(list)
           least(kind) == IF kind = "repeated-event" THEN 3 ELSE 2
<1>1. /\ T \in Seq(S) /\ Len(T) = Len(list) - 1 /\ Len(list) \in Nat
      /\ \A i \in 1 .. Len(list) - 1 : T[i] = list[i + 1]
  BY HeadTailProperties, LenProperties
<1>2. PICK run \in Relating!Runs(T) : Relating!IsGroup(T, run) /\ id = Relating!GroupId(T, run)
  BY DEF Relating!GroupIds, Relating!Groups
<1> DEFINE a == run[1]
           b == run[2]
<1>3. IsRun(T, a, b)
  BY <1>1, <1>2, RunFacts
<1>4. /\ b - a + 1 >= least(Relating!Key(T[a])[1])
      /\ id = <<Relating!Key(T[a]), T[b].id>>
  BY <1>2 DEF Relating!IsGroup, Relating!GroupId
<1>5. a \in 1 .. Len(list) - 1 /\ b \in 1 .. Len(list) - 1
  BY <1>1, <1>3 DEF IsRun
<1> DEFINE c == IF SameKeys(list, 1, 2) /\ a = 1 THEN 1 ELSE a + 1
           longer == <<c, b + 1>>
<1>6. IsRun(list, c, b + 1)
  BY <1>3, TailRuns
<1>7. longer \in Relating!Runs(list) /\ longer[1] = c /\ longer[2] = b + 1
  BY <1>6, RunFacts
<1>8. T[a] = list[a + 1] /\ T[b] = list[b + 1] /\ Relating!Key(list[c]) = Relating!Key(list[a + 1])
  BY <1>1, <1>5 DEF SameKeys
<1>9. c \in Int /\ a \in Int /\ b \in Int /\ c <= a + 1 /\ least(Relating!Key(T[a])[1]) \in Int
  BY <1>5
<1> HIDE DEF T, a, b, c, longer
<1>10. (b + 1) - c + 1 >= least(Relating!Key(list[c])[1])
  BY <1>4, <1>8, <1>9
<1>11. Relating!IsGroup(list, longer)
  BY <1>7, <1>10 DEF Relating!IsGroup
<1>12. id = Relating!GroupId(list, longer)
  BY <1>4, <1>7, <1>8 DEF Relating!GroupId
<1> QED
  BY <1>7, <1>11, <1>12 DEF Relating!GroupIds, Relating!Groups

LEMMA GroupsStay ==
  ASSUME TimelineInv
  PROVE  Relating!GroupsAreStable(packets, Relating!GroupIds(packets))
<1>1. packets \in Seq(Members(packets))
  BY DEF TimelineInv
<1> QED
  BY <1>1, ExpandedShowsAll, TailGroups DEF Relating!GroupsAreStable

LEMMA RelatingSteps == [StoresNext]_storesVars => [Relating!Next]_packets
BY DEF StoresNext, StoresBut, storesVars

(***************************************************************************)
(* However the timeline grows, a relation joins two packets of a session   *)
(* and points forward, a request has one answer, flow ids are different, a *)
(* packet of a sequence is in one flow of its kind, expanded groups show   *)
(* every packet once and in order, and a new packet on top leaves every    *)
(* group its id (packet-relationships.ts, flow-analysis.ts,                *)
(* packet-grouping.ts).                                                    *)
(***************************************************************************)
THEOREM RelationsCorrect == StoresSpec => []RelationLaws
<1>1. StoresInit => TimelineInv
  BY TimelineInitHolds DEF StoresInit
<1>2. TimelineInv /\ [StoresNext]_storesVars => TimelineInv'
  BY RelatingSteps, ArriveKeeps
<1>3. TimelineInv => RelationLaws
  <2> SUFFICES ASSUME TimelineInv PROVE Relating!RelationLaws
    BY DEF RelationLaws
  <2>1. Relating!RelationsPointForward(Relating!Relations)
    BY PointForward
  <2>2. Relating!OneAnswer(Relating!OfKind(Relating!Relations, "request-response"))
    BY OneAnswerEach
  <2>3. Relating!FlowsAreDistinct(Relating!Relations, Relating!Flows(Relating!Relations))
    BY FlowsDiffer DEF AllFlows
  <2>4. Relating!GroupsAreStable(packets, Relating!GroupIds(packets))
    BY GroupsStay
  <2> QED
    BY <2>1, <2>2, <2>3, <2>4 DEF Relating!RelationLaws
<1> QED
  BY <1>1, <1>2, <1>3, PTL DEF StoresSpec

=============================================================================

--------------------------- MODULE Arrangements ---------------------------
(***************************************************************************)
(* What sorting by timestamp, filtering and joining make of lists          *)
(* (Array.prototype.sort, filter and flatMap).  The result of each is      *)
(* given by the places its members come from, so that facts about it can   *)
(* be proved.                                                              *)
(***************************************************************************)
EXTENDS Integers, Sequences, FiniteSets

(***************************************************************************)
(* The members of S in the strict order R, a set of pairs: each comes      *)
(* after as many members as R puts before it.                              *)
(***************************************************************************)
Places(S, R) == [x \in S |-> Cardinality({y \in S : <<y, x>> \in R}) + 1]

Arranged(S, R) ==
  LET place == Places(S, R)
  IN  [k \in 1 .. Cardinality(S) |-> CHOOSE x \in S : place[x] = k]

(***************************************************************************)
(* Newest timestamp first; the sort is stable, so packets with equal       *)
(* timestamps keep their order.                                            *)
(***************************************************************************)
NewerFirst(list) ==
  {ij \in (DOMAIN list) \X (DOMAIN list) :
     \/ list[ij[1]].t > list[ij[2]].t
     \/ list[ij[1]].t = list[ij[2]].t /\ ij[1] < ij[2]}

NewestFirst(list) ==
  LET order == Arranged(DOMAIN list, NewerFirst(list))
  IN  [k \in DOMAIN list |-> list[order[k]]]

(***************************************************************************)
(* What a filter leaves of list when it keeps the places in kept.          *)
(***************************************************************************)
Kept(list, kept) ==
  LET order == Arranged(kept, {ij \in kept \X kept : ij[1] < ij[2]})
  IN  [k \in 1 .. Cardinality(kept) |-> list[order[k]]]

(***************************************************************************)
(* The lists one after the other (flatMap): of two places <<list, index>>  *)
(* the one in the earlier list comes first.                                *)
(***************************************************************************)
Joined(lists) ==
  LET places == UNION {{i} \X DOMAIN lists[i] : i \in DOMAIN lists}
      before == {xy \in places \X places :
                   \/ xy[1][1] < xy[2][1]
                   \/ xy[1][1] = xy[2][1] /\ xy[1][2] < xy[2][2]}
      order == Arranged(places, before)
  IN  [k \in 1 .. Cardinality(places) |-> lists[order[k][1]][order[k][2]]]

=============================================================================

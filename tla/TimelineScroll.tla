--------------------------- MODULE TimelineScroll ---------------------------
(***************************************************************************)
(* The scrolled list of components/packet-timeline.tsx: following the      *)
(* newest packet, and rendering the rows near the viewport only.           *)
(* Distances are in half rows, so that a row can be cut by the edge.       *)
(***************************************************************************)
EXTENDS Integers, FiniteSets, FiniteSetsExt

CONSTANTS
  Overscan,       \* rows rendered above and below the viewport (8)
  Viewport,       \* height of the viewport
  MaxItems        \* bound: rows in the list

VARIABLES
  autoScroll,
  top,            \* scrollTop
  items,          \* rows of the list
  newest          \* newestPacketId changes: a toggling mark

scrollVars == <<autoScroll, top, items, newest>>

MaxTop(n) == Max({0, 2 * n - Viewport})

Ceil(n) == (n + 1) \div 2

Init ==
  /\ autoScroll \in BOOLEAN         \* autoScrollDefault
  /\ top = 0
  /\ items = 0
  /\ newest = FALSE

----------------------------------------------------------------------------
VisibleRange ==
  LET start == Max({top \div 2 - Overscan, 0})
  IN  start .. Min({start + Ceil(Viewport) + 2 * Overscan, items}) - 1

----------------------------------------------------------------------------
(***************************************************************************)
(* The layout effect: a change of the newest packet, or following being    *)
(* switched on, goes back to the top.                                      *)
(***************************************************************************)
Follow(auto, position) == IF auto THEN 0 ELSE position

(***************************************************************************)
(* The browser keeps the offset within the list.                           *)
(***************************************************************************)
NewestPacket ==
  /\ items < MaxItems
  /\ items' = items + 1
  /\ newest' = ~newest
  /\ top' = Follow(autoScroll, top)
  /\ UNCHANGED autoScroll

(***************************************************************************)
(* Another filter, a clear, or a group that folds; the newest packet may   *)
(* be another one.                                                         *)
(***************************************************************************)
ListChanges ==
  /\ items' \in 0 .. MaxItems
  /\ newest' \in BOOLEAN
  /\ LET kept == Min({top, MaxTop(items')})
     IN  top' = IF newest' # newest THEN Follow(autoScroll, kept) ELSE kept
  /\ UNCHANGED autoScroll

HandleScroll ==
  /\ top' \in 0 .. MaxTop(items)
  /\ autoScroll' = (autoScroll /\ top' <= 4)
  /\ UNCHANGED <<items, newest>>

Resume ==                     \* the button, or a new default
  /\ ~autoScroll
  /\ autoScroll' = TRUE
  /\ top' = Follow(TRUE, top)
  /\ UNCHANGED <<items, newest>>

Pause ==
  /\ autoScroll
  /\ autoScroll' = FALSE
  /\ UNCHANGED <<top, items, newest>>

JumpToLatestPacket ==
  /\ items > 0
  /\ autoScroll' = TRUE
  /\ top' = 0
  /\ UNCHANGED <<items, newest>>

Next ==
  \/ NewestPacket
  \/ ListChanges
  \/ HandleScroll
  \/ Resume
  \/ Pause
  \/ JumpToLatestPacket

----------------------------------------------------------------------------
(* Properties *)

(***************************************************************************)
(* While the timeline follows, the newest packets are in the viewport: it  *)
(* is never more than two rows down.                                       *)
(***************************************************************************)
FollowingIsNearTheTop == autoScroll => top <= 4

(***************************************************************************)
(* Every row that the viewport shows a part of is rendered.                *)
(***************************************************************************)
ViewportIsRendered ==
  {row \in 0 .. items - 1 : 2 * row < top + Viewport /\ 2 * row + 2 > top} \subseteq VisibleRange

=============================================================================

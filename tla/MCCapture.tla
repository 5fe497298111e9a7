----------------------------- MODULE MCCapture -----------------------------
(***************************************************************************)
(* Capture for TLC: the sessions are interchangeable.                      *)
(***************************************************************************)
EXTENDS Capture, TLC

Symmetry == Permutations(Sessions)

=============================================================================

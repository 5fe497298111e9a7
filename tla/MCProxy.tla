------------------------------ MODULE MCProxy ------------------------------
(***************************************************************************)
(* Proxy for TLC: the connections are interchangeable.                     *)
(***************************************************************************)
EXTENDS Proxy, TLC

Symmetry == Permutations(Conns)

=============================================================================

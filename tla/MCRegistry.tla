----------------------------- MODULE MCRegistry -----------------------------
(***************************************************************************)
(* Registry for TLC.                                                       *)
(***************************************************************************)
EXTENDS Registry, TLC

Symmetry == Permutations(Windows) \cup Permutations(Panes)

=============================================================================

--------------------------- MODULE MCPolicyReload ---------------------------
(***************************************************************************)
(* PolicyReload for TLC.                                                   *)
(***************************************************************************)
EXTENDS PolicyReload, TLC

Symmetry == Permutations(Tasks)

=============================================================================

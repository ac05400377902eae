----------------------------- MODULE MCPlatform ------------------------------
(***************************************************************************)
(* Instances of Platform for TLC.                                          *)
(***************************************************************************)
EXTENDS Platform, TLC

Symmetry == Permutations(Clients) \union Permutations(Workers) \union Permutations(Pairs)

=============================================================================

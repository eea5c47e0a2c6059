------------------------- MODULE MCSemanticMappings -------------------------
(* Small instances of SemanticMappings.                                     *)
EXTENDS SemanticMappings, TLC

Symmetric == Permutations(Writers) \cup Permutations(Keys)
=============================================================================

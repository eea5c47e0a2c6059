--------------------------- MODULE MCPublications ---------------------------
(* Small instances of Publications.                                         *)
EXTENDS Publications, TLC

CONSTANTS p1, p2, r1, r2

Symmetric == Permutations(Requests) \cup Permutations(Publications)
=============================================================================

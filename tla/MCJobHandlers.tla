---------------------------- MODULE MCJobHandlers ----------------------------
(* A small instance of JobHandlers.                                         *)
EXTENDS JobHandlers

\* Later uploads come first in a listing.
MCRank == [k \in Uploads |-> 10 - k]
=============================================================================

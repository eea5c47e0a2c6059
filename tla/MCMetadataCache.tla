--------------------------- MODULE MCMetadataCache ---------------------------
(* A small instance of MetadataCache.                                       *)
EXTENDS MetadataCache
=============================================================================

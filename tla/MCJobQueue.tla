----------------------------- MODULE MCJobQueue -----------------------------
(* Small instances of JobQueue: two cube_fetch keys of one product (two     *)
(* days) and, where a run needs it, the key of another kind of job.         *)
EXTENDS JobQueue, TLC

CONSTANTS k1, k2, product

MCProduct == (k1 :> product)
MCBothFetch == (k1 :> product) @@ (k2 :> product)

Symmetric == Permutations(Clients) \cup Permutations(Admins)
=============================================================================

---------------------------- MODULE MCLeadCapture ----------------------------
(* Small instances of LeadCapture.                                          *)
EXTENDS LeadCapture, TLC

Symmetric == Permutations(Requests) \cup Permutations(Downloads)
             \cup Permutations(IPs) \cup Permutations(Pairs)
=============================================================================

----------------------------- MODULE JobContract -----------------------------
(***************************************************************************)
(* What the job queue promises to the routers and to the operator who      *)
(* watches it: a job is accepted once, at most one job per dedupe key is   *)
(* active, an active job ends in success or failure, success is final and  *)
(* only a failed job can be made active again.  Claims, attempts, restarts *)
(* and the reaper do not show.                                             *)
(***************************************************************************)
CONSTANTS Ids, Keys, NoKey

VARIABLES phase, key

cvars == <<phase, key>>

Phases == {"absent", "active", "success", "failed"}

ContractInit ==
    /\ phase \in [Ids -> {"absent", "active"}]
    /\ key = [j \in Ids |-> NoKey]

\* No other active job has the key.
Free(j, k) == k = NoKey \/ \A i \in Ids \ {j} : ~(phase[i] = "active" /\ key[i] = k)

Accept(j, k) ==
    /\ phase[j] = "absent"
    /\ Free(j, k)
    /\ phase' = [phase EXCEPT ![j] = "active"]
    /\ key' = [key EXCEPT ![j] = k]

Settle(j, outcome) ==
    /\ phase[j] = "active"
    /\ phase' = [phase EXCEPT ![j] = outcome]
    /\ UNCHANGED key

Reopen(j) ==
    /\ phase[j] = "failed"
    /\ Free(j, key[j])
    /\ phase' = [phase EXCEPT ![j] = "active"]
    /\ UNCHANGED key

ContractNext == \E j \in Ids : \/ \E k \in Keys \cup {NoKey} : Accept(j, k)
                               \/ \E o \in {"success", "failed"} : Settle(j, o)
                               \/ Reopen(j)

ContractSpec == ContractInit /\ [][ContractNext]_cvars
=============================================================================

----------------------------- MODULE MCStaleness -----------------------------
(* Small instances of ValueCache and Staleness.                             *)
EXTENDS Staleness, TLC

\* One block shows the latest value, one a period of its own.
MCPinned == 1 :> Latest @@ 2 :> 1
\* The second revision changes what StatCan says of a value and not the value.
MCValueOf == [r \in 1 .. MaxRevision |-> 1]
MCMissingOf == [r \in 1 .. MaxRevision |-> FALSE]
=============================================================================

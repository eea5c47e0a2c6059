------------------------------ MODULE Staleness ------------------------------
(***************************************************************************)
(* PublicationStalenessService over the value cache: publishing captures a *)
(* snapshot of what every bound block resolves to, and POST /compare tells *)
(* later whether the cache still holds it.                                 *)
(*                                                                         *)
(* A capture is part of the publish request, which holds the lock on the   *)
(* publication's row: one at a time, its snapshots committed together.     *)
(* Every block is resolved by resolve_value, primes included, in sessions  *)
(* of its own; a block that fails is left out and keeps the snapshot of an *)
(* earlier publish.  A comparison reads the snapshots once and resolves    *)
(* them one after the other, from the cache only.                          *)
(***************************************************************************)
EXTENDS ValueCache

CONSTANTS
    Blocks,      \* the blocks of one publication: numbers, ordered like their ids
    Pinned,      \* the period each block is bound to, or Latest
    Publisher,   \* the task a publish resolves its blocks in
    Comparer,    \* the task a comparison resolves in
    ValueOf,     \* the value a revision carries; two revisions may carry one value
    MissingOf,   \* its `missing` flag
    MaxCalls     \* bound: publishes, comparisons and other calls of the API

ASSUME StalenessConstants ==
    /\ Blocks \subseteq Nat /\ Pinned \in [Blocks -> AskedPeriods]
    /\ Publisher \in Requests /\ Comparer \in Requests /\ Publisher # Comparer
    /\ MissingOf \in [1 .. MaxRevision -> BOOLEAN] /\ MaxCalls \in Nat

VARIABLES
    snapshots,    \* publication_block_snapshot
    publisher,    \* the local variables of the publish request's capture
    calls,        \* calls of the API so far
    comparer,     \* the local variables of compare_for_publication
    moved,        \* history: something was written since the comparison began
    overtaken,    \* history: the requests whose answer another one for the cell has overtaken
    lateRefresh   \* history: the same, of the refresh

svars == <<snapshots, publisher, calls, comparer, moved, overtaken, lateRefresh>>
vars == <<vvars, svars>>

NoSnapshot == [version |-> 0, coord |-> Idle.coord, period |-> NoDate, rev |-> 0, stale |-> FALSE]
NoBlock == 0
NoResult == [status |-> "none", reasons |-> {}, severity |-> 0]

Saved(snaps) == {b \in Blocks : snaps[b].version # 0}
First(S) == CHOOSE b \in S : \A d \in S : b <= d

-----------------------------------------------------------------------------
(* The comparison of one block: pure.                                       *)

\* What a resolve answered: the fingerprint of a snapshot, and of the cache.
FingerprintLate(task) == [version |-> mapping.version, coord |-> task.coord, period |-> task.out.period,
                          rev |-> task.out.rev, stale |-> task.out.stale]
Fingerprint(task) == [version |-> task.version, coord |-> task.coord, period |-> task.out.period,
                      rev |-> task.out.rev, stale |-> task.out.stale]

\* source_hash covers the cell, the period and everything StatCan says of it.
Hash(fp) == <<fp.coord, fp.period, fp.rev>>

DriftOfValues(snap, now) ==
    {reason \in {"mapping_version", "source_hash", "value", "missing", "is_stale"} :
        CASE reason = "mapping_version" -> snap.version # now.version
          [] reason = "source_hash" -> FALSE
          [] reason = "value" -> ValueOf[snap.rev] # ValueOf[now.rev]
          [] reason = "missing" -> MissingOf[snap.rev] # MissingOf[now.rev]
          [] reason = "is_stale" -> now.stale}

Drift(snap, now) ==
    {reason \in {"mapping_version", "source_hash", "value", "missing", "is_stale"} :
        CASE reason = "mapping_version" -> snap.version # now.version
          [] reason = "source_hash" -> Hash(snap) # Hash(now)
          [] reason = "value" -> ValueOf[snap.rev] # ValueOf[now.rev]
          [] reason = "missing" -> MissingOf[snap.rev] # MissingOf[now.rev]
          [] reason = "is_stale" -> now.stale}

\* _REASON_SEVERITY with _SEVERITY_ORDER: INFO is 0 and WARNING 1.
Severity(reasons) == IF reasons \cap {"value", "missing", "is_stale", "failed"} # {} THEN 1 ELSE 0

\* _compare_one_snapshot: what resolve_value answered, or the error it raised.
Result(snap, task) ==
    IF task.out.kind = "hit"
    THEN LET reasons == Drift(snap, Fingerprint(task))
         IN [status |-> IF reasons = {} THEN "fresh" ELSE "stale",
             reasons |-> reasons, severity |-> Severity(reasons)]
    ELSE [status |-> "unknown", reasons |-> {"failed"}, severity |-> Severity({"failed"})]

\* _aggregate_status; a publication without snapshots is unknown.
Overall(results) ==
    LET statuses == {results[b].status : b \in Blocks}
    IN IF "stale" \in statuses THEN "stale"
       ELSE IF "unknown" \in statuses \/ statuses = {"none"} THEN "unknown" ELSE "fresh"

-----------------------------------------------------------------------------
(* Capture.                                                                 *)

NotPublishing == [pc |-> "idle", todo |-> {}, block |-> NoBlock,
                  taken |-> [b \in Blocks |-> NoSnapshot]]

\* One more call of the API.
Called ==
    /\ calls < MaxCalls
    /\ calls' = calls + 1

Publish(bound) ==
    /\ publisher.pc = "idle"
    /\ Called
    /\ publisher' = [NotPublishing EXCEPT !.pc = "next", !.todo = bound]
    /\ UNCHANGED <<vvars, snapshots, comparer>>

\* The block's dims and members name a cell; malformed ones fail the shape check.
CaptureBlock(c) ==
    /\ publisher.pc = "next"
    /\ publisher.todo # {}
    /\ LET b == First(publisher.todo) IN
       \/ /\ publisher' = [publisher EXCEPT !.pc = "resolve", !.todo = @ \ {b}, !.block = b]
          /\ Ask(Publisher, "resolve", c, Pinned[b])
       \/ /\ publisher' = [publisher EXCEPT !.todo = @ \ {b}]
          /\ UNCHANGED vvars
    /\ UNCHANGED <<snapshots, calls, comparer>>

\* upsert_for_block: every field is replaced.
UpsertForBlock(snaps, b, fingerprint) == [snaps EXCEPT ![b] = fingerprint]

\* In the publish request's transaction; a block that did not resolve is logged and
\* left out.
CaptureStore ==
    /\ publisher.pc = "resolve"
    /\ publisher' = [publisher EXCEPT !.pc = "next", !.block = NoBlock,
          !.taken = IF req[Publisher].out.kind \in {"hit", "primed"}
                    THEN UpsertForBlock(@, publisher.block, Fingerprint(req[Publisher])) ELSE @]
    /\ Finish(Publisher)
    /\ UNCHANGED <<snapshots, calls, comparer>>

PublishCommit ==
    /\ publisher.pc = "next" /\ publisher.todo = {}
    /\ snapshots' = [b \in Blocks |->
          IF b \in Saved(publisher.taken) THEN publisher.taken[b] ELSE snapshots[b]]
    /\ publisher' = NotPublishing
    /\ UNCHANGED <<vvars, calls, comparer>>

\* A failed upsert or commit rolls the publish back with every snapshot it took; what
\* the primes stored stays.
PublishFails ==
    /\ publisher.pc = "next"
    /\ publisher' = NotPublishing
    /\ UNCHANGED <<vvars, snapshots, calls, comparer>>

-----------------------------------------------------------------------------
(* Comparison.                                                              *)

NotComparing == [pc |-> "idle", rows |-> [b \in Blocks |-> NoSnapshot], todo |-> {}, block |-> NoBlock,
                 results |-> [b \in Blocks |-> NoResult]]

Compare ==
    /\ comparer.pc = "idle"
    /\ Called
    /\ comparer' = [NotComparing EXCEPT !.rows = snapshots, !.todo = Saved(snapshots),
                      !.pc = IF Saved(snapshots) = {} THEN "done" ELSE "next"]
    /\ UNCHANGED <<vvars, snapshots, publisher>>

\* The snapshot keeps the dims and members it was taken with, and the block's period.
CompareBlock ==
    /\ comparer.pc = "next"
    /\ LET b == First(comparer.todo) IN
       /\ comparer' = [comparer EXCEPT !.pc = "resolve", !.todo = @ \ {b}, !.block = b]
       /\ Ask(Comparer, "compare", comparer.rows[b].coord, Pinned[b])
    /\ UNCHANGED <<snapshots, publisher, calls>>

CompareResult ==
    /\ comparer.pc = "resolve"
    /\ comparer' = [comparer EXCEPT !.pc = IF comparer.todo = {} THEN "done" ELSE "next", !.block = NoBlock,
          !.results = [@ EXCEPT ![comparer.block] = Result(comparer.rows[comparer.block], req[Comparer])]]
    /\ Finish(Comparer)
    /\ UNCHANGED <<snapshots, publisher, calls>>

CompareEnds ==
    /\ comparer.pc = "done"
    /\ comparer' = NotComparing
    /\ UNCHANGED <<vvars, snapshots, publisher, calls>>

-----------------------------------------------------------------------------
StaleInit ==
    /\ ValueInit
    /\ snapshots = [b \in Blocks |-> NoSnapshot]
    /\ publisher = NotPublishing
    /\ calls = 0
    /\ comparer = NotComparing
    /\ moved = FALSE
    /\ overtaken = {}
    /\ lateRefresh = FALSE

PublishStep ==
    \/ \E bound \in (SUBSET Blocks) \ {{}} : Publish(bound)
    \/ \E c \in Coords : CaptureBlock(c)
    \/ CaptureStore \/ PublishCommit \/ PublishFails

CompareStep == Compare \/ CompareBlock \/ CompareResult \/ CompareEnds

Waiting(r) ==
    \/ r = Publisher /\ publisher.pc = "resolve"
    \/ r = Comparer /\ comparer.pc = "resolve"

\* The rest of the system: other callers, the refresh, StatCan.
CacheStep ==
    /\ \/ /\ \/ StatCanStep \/ RefreshStep
             \/ \E r \in Requests : RequestStep(r) \/ (~Waiting(r) /\ Finish(r))
          /\ UNCHANGED calls
       \/ Called /\ SoftDelete
       \/ Called /\ \E r \in Requests \ {Publisher} : (r = Comparer => comparer.pc = "idle") /\ CallerStep(r)
    /\ UNCHANGED <<snapshots, publisher, comparer>>

\* The answers stored for a cell have changed.
Restored(c) == \E p \in Periods : cache'[c][p].rev # cache[c][p].rev

\* Who holds an answer while another one is stored for the same cell.
Overtake ==
    /\ overtaken' = {r \in Requests :
          /\ req[r].pc = "persist" /\ req'[r].pc = "persist"
          /\ r \in overtaken \/ Restored(req[r].coord)}
    /\ lateRefresh' = (/\ refresh.pc = "persist" /\ refresh'.pc = "persist"
                       /\ lateRefresh \/ Restored(refresh.coord))

Observe ==
    /\ moved' = (comparer.pc # "idle" /\ (moved \/ cache' # cache \/ mapping' # mapping \/ snapshots' # snapshots))
    /\ Overtake

StaleNext == (PublishStep \/ CompareStep \/ CacheStep) /\ Observe

StaleSpec == StaleInit /\ [][StaleNext]_vars

-----------------------------------------------------------------------------
(* Properties.                                                              *)

\* Every snapshot is one answer of resolve_value: the cell is the one pinned by the
\* mapping version recorded with it, the period is the one the block is bound to, and
\* StatCan has published the value (staleness.py:160).
SnapshotsGenuine ==
    \A b \in Saved(snapshots) :
        LET snap == snapshots[b] IN
        /\ snap.version <= mapping.version /\ snap.coord = pins[snap.version]
        /\ Pinned[b] \in {snap.period, Latest}
        /\ snap.rev \in 1 .. published[snap.coord][snap.period]

\* What a read of the cache would give for a snapshot's cell, and whether it is still it.
Unchanged(b) ==
    LET snap == snapshots[b]
        found == Found(snap.coord, Pinned[b])
    IN /\ mapping.active /\ mapping.version = snap.version
       /\ found # {}
       /\ PickRow(found) = snap.period
       /\ cache[snap.coord][snap.period] = [rev |-> snap.rev, stale |-> FALSE]

\* If nothing was written while it ran, a comparison calls a publication fresh only when
\* every snapshot is what the cache holds, and stale only when one is not
\* (staleness.py:203); what it could not resolve it calls unknown.
ReportTrue ==
    comparer.pc = "done" /\ ~moved =>
        /\ Overall(comparer.results) = "fresh" => \A b \in Saved(snapshots) : Unchanged(b)
        /\ Overall(comparer.results) = "stale" => \E b \in Saved(snapshots) : ~Unchanged(b)
        /\ Overall(comparer.results) = "unknown" =>
              Saved(snapshots) = {} \/ \E b \in Saved(snapshots) : comparer.results[b].reasons = {"failed"}

\* A cached value goes back to an older revision, or is lost, only when the answer that is
\* stored was overtaken: another one for the cell was stored since it was fetched
\* (value_cache.py:276, 161).  Resolves, saves and refreshes that do not overlap leave
\* every period of a cell as new as it was, those out of their own window included.
NoGoingBack ==
    [][\A c \in Coords, p \in Periods : cache'[c][p].rev < cache[c][p].rev =>
          \/ \E r \in overtaken : req[r].coord = c
          \/ lateRefresh /\ refresh.coord = c]_vars
=============================================================================

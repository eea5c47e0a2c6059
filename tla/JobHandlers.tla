----------------------------- MODULE JobHandlers -----------------------------
(***************************************************************************)
(* What the handlers of the job runner read and write in storage, stage by *)
(* stage: GraphicPipeline (graphics_generate, as far as its input goes),   *)
(* DataFetchService (cube_fetch) and CatalogSyncService (catalog_sync),    *)
(* for one cube on one day.  The runner executes one job at a time; the    *)
(* process may exit between two stages, and storage keeps what it has.     *)
(* The publications the pipeline makes are in GraphicPipeline.             *)
(***************************************************************************)
EXTENDS TempUploads

CONSTANTS
    MaxRevision  \* bound: revisions of the cube's table at StatCan

ASSUME HandlerConstants == MaxRevision \in Nat \ {0}

VARIABLES
    catalog,  \* cube_catalog has the cube
    raw,      \* the revision of statcan/raw/<cube>/<day>, 0 if there is none
    table,    \* the revision of statcan/processed/<cube>/<day>, 0 if there is none
    runner    \* the local variables of the runner and of its handler

hvars == <<catalog, raw, table, runner>>
vars == <<uvars, hvars>>

IdleRunner == [pc |-> "idle", job |-> 0, seen |-> 0, retryable |-> TRUE]
Dead == [IdleRunner EXCEPT !.pc = "dead"]

TableFirst == [load |-> "succeed", check |-> "download", download |-> "parse", parse |-> "table",
               table |-> "raw", raw |-> "succeed", list |-> "upsert", upsert |-> "succeed"]
\* The stages of the three handlers, in order.
NextStage == [load |-> "succeed", check |-> "download", download |-> "raw", raw |-> "parse",
              parse |-> "table", table |-> "succeed", list |-> "upsert", upsert |-> "succeed"]
FirstStage == [graphics |-> "load", fetch |-> "check", sync |-> "list"]

RunnerAt(pc) == runner.pc = pc
Advanced == [runner EXCEPT !.pc = NextStage[runner.pc]]
Failing(retryable) == [runner EXCEPT !.pc = "fail", !.retryable = retryable]

-----------------------------------------------------------------------------
(* The runner: the statuses of JobQueue.                                    *)

Claim(j) ==
    /\ up
    /\ RunnerAt("idle")
    /\ jobs[j].status = "queued" /\ \A i \in Jobs : i < j => jobs[i].status # "queued"
    /\ jobs' = [jobs EXCEPT ![j] = [@ EXCEPT !.status = "running"]]
    /\ runner' = [IdleRunner EXCEPT !.pc = FirstStage[jobs[j].kind], !.job = j]
    /\ UNCHANGED <<upload, cleaner, up, exits, catalog, raw, table>>

Succeed ==
    /\ RunnerAt("succeed")
    /\ SetStatus(runner.job, "success")
    /\ runner' = IdleRunner
    /\ UNCHANGED <<upload, cleaner, up, exits, catalog, raw, table>>

\* The same row is queued again while its budget lasts.
Fail ==
    /\ RunnerAt("fail")
    /\ \/ runner.retryable /\ SetStatus(runner.job, "queued")
       \/ SetStatus(runner.job, "failed")
    /\ runner' = IdleRunner
    /\ UNCHANGED <<upload, cleaner, up, exits, catalog, raw, table>>

\* Any stage raises before it has done anything, and so may the writing of the success.
Raise ==
    /\ runner.pc \in DOMAIN NextStage \cup {"succeed"}
    /\ runner' = Failing(TRUE)
    /\ UNCHANGED <<uvars, catalog, raw, table>>

-----------------------------------------------------------------------------
(* GraphicPipeline.generate reads its data.                                *)

\* Stage 1: the Parquet object must be there; what follows does not come back to it.
Available(d) == IF d \in Uploads THEN upload[d] \in {"fresh", "expired"} ELSE table # 0

Load ==
    /\ RunnerAt("load")
    /\ runner' = IF Available(jobs[runner.job].data) THEN Advanced ELSE Failing(TRUE)
    /\ UNCHANGED <<uvars, catalog, raw, table>>

-----------------------------------------------------------------------------
(* handle_cube_fetch and DataFetchService.fetch_cube_data.                  *)

\* The cube must be in the catalog: CUBE_NOT_FOUND is retried like any other failure.
CheckCube ==
    /\ RunnerAt("check")
    /\ runner' = IF catalog THEN Advanced ELSE Failing(TRUE)
    /\ UNCHANGED <<uvars, catalog, raw, table>>

\* Stage 2: the table is downloaded as StatCan has it by then.
DownloadCsv ==
    /\ RunnerAt("download")
    /\ \E r \in 1 .. MaxRevision : r >= raw /\ runner' = [Advanced EXCEPT !.seen = r]
    /\ UNCHANGED <<uvars, catalog, raw, table>>

\* Stage 3: the archive copy comes before the data is looked at.
SaveRaw ==
    /\ RunnerAt("raw")
    /\ raw' = runner.seen
    /\ runner' = Advanced
    /\ UNCHANGED <<uvars, catalog, table>>

\* Stages 4 and 5: a file that cannot be read breaks the data contract, and so does a
\* table without the required columns; such a failure is never retried.
ParseAndValidate ==
    /\ RunnerAt("parse")
    /\ \E readable, complete \in BOOLEAN :
          runner' = IF readable /\ complete THEN Advanced ELSE Failing(FALSE)
    /\ UNCHANGED <<uvars, catalog, raw, table>>

\* Stage 6.
SaveParquet ==
    /\ RunnerAt("table")
    /\ table' = runner.seen
    /\ runner' = Advanced
    /\ UNCHANGED <<uvars, catalog, raw>>

-----------------------------------------------------------------------------
(* CatalogSyncService.sync_full_catalog: one transaction after the download. *)

\* A list of an unexpected form is taken as empty, and an item that does not parse is
\* passed over: `seen` says whether the cube is among the items.
FetchCubeList ==
    /\ RunnerAt("list")
    /\ \E found \in {0, 1} : runner' = [Advanced EXCEPT !.seen = found]
    /\ UNCHANGED <<uvars, catalog, raw, table>>

\* ON CONFLICT DO UPDATE: a cube is added or replaced, never removed.
UpsertChunk == catalog \/ runner.seen = 1

UpsertBatch ==
    /\ RunnerAt("upsert")
    /\ catalog' = UpsertChunk
    /\ runner' = Advanced
    /\ UNCHANGED <<uvars, raw, table>>

-----------------------------------------------------------------------------
(* The process.                                                             *)

Crash ==
    /\ up
    /\ exits < MaxExits
    /\ exits' = exits + 1
    /\ up' = FALSE
    /\ cleaner' = NotCleaning
    /\ runner' = Dead
    /\ UNCHANGED <<upload, jobs, catalog, raw, table>>

\* The reaper queues the running jobs that are old enough and have attempts left.
Boot(S) ==
    /\ ~up
    /\ \A j \in S : jobs[j].status = "running"
    /\ up' = TRUE
    /\ jobs' = [j \in Jobs |-> IF j \in S THEN [jobs[j] EXCEPT !.status = "queued"]
                                          ELSE jobs[j]]
    /\ runner' = IdleRunner
    /\ UNCHANGED <<upload, cleaner, exits, catalog, raw, table>>

-----------------------------------------------------------------------------
Init ==
    /\ UploadInit
    /\ catalog \in BOOLEAN
    /\ raw = 0 /\ table = 0
    /\ runner = IdleRunner

FetchStep == CheckCube \/ DownloadCsv \/ SaveRaw \/ ParseAndValidate \/ SaveParquet
SyncStep == FetchCubeList \/ UpsertBatch
RunnerStep == (\E j \in Jobs : Claim(j)) \/ Load \/ FetchStep \/ SyncStep \/ Raise \/ Succeed \/ Fail

Next ==
    \/ RequestStep /\ UNCHANGED hvars
    \/ CleanStep /\ UNCHANGED hvars
    \/ \E k \in Uploads : Expire(k) /\ UNCHANGED hvars
    \/ RunnerStep
    \/ Crash \/ (\E S \in SUBSET Jobs : Boot(S))

Spec == Init /\ [][Next]_vars

Deleted(k) == CleanDelete(k, TRUE) /\ UNCHANGED hvars
Listing == CleanList(MaxList) /\ cleaner'.pc = "delete" /\ UNCHANGED hvars

\* The process is started again and the cleaner runs every hour; the database and
\* storage do not refuse for ever.
Fairness ==
    /\ WF_vars(\E S \in SUBSET Jobs : Boot(S))
    /\ WF_vars(CleanStep /\ UNCHANGED hvars)
    /\ SF_vars(Listing)
    /\ \A k \in Uploads : SF_vars(Deleted(k))

FairSpec == Spec /\ Fairness

-----------------------------------------------------------------------------
(* Properties.                                                              *)

TypeOK ==
    /\ UploadTypeOK
    /\ catalog \in BOOLEAN
    /\ raw \in 0 .. MaxRevision /\ table \in 0 .. MaxRevision
    /\ runner \in [pc : DOMAIN NextStage \cup {"idle", "dead", "succeed", "fail"},
                   job : Jobs \cup {0}, seen : 0 .. MaxRevision, retryable : BOOLEAN]

\* A processed table always has its raw copy, of its revision or a later one, wherever a
\* fetch was interrupted (data_fetch.py:160).
TableHasRaw == table <= raw

StoreInv == TypeOK /\ TableHasRaw

\* An expired upload goes once no job refers to it, however many are kept for jobs that
\* are stuck: "no starvation when oldest expired are locked" (temp_cleanup.py:124).
UploadsGo == \A k \in Uploads : []<>(upload[k] # "expired" \/ k \in Referenced)
=============================================================================

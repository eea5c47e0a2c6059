----------------------------- MODULE TempUploads -----------------------------
(***************************************************************************)
(* Data an administrator uploads for one graphic: generate_from_data puts  *)
(* a Parquet object under temp/uploads/ and enqueues a graphics job that   *)
(* names it; cleanup_temp_uploads deletes objects past their TTL that no   *)
(* queued or running job names.                                            *)
(*                                                                         *)
(* The requests, the runner of the jobs and the cleaner run concurrently,  *)
(* and object storage takes part in no transaction: an upload may be left  *)
(* without a job, and a job without its upload.  Of the job queue (JobQueue) *)
(* only the statuses are kept: with no budget, any failure may be the last. *)
(* What the handlers do is in JobHandlers.                                 *)
(***************************************************************************)
EXTENDS Naturals, FiniteSets

CONSTANTS
    Uploads,      \* the uuids of uploads: numbers, in the order they are made
    Rank,         \* upload |-> its place in a listing, which is by key
    Table,        \* the data_key of a cube's processed table
    NoData,       \* a job that reads no data
    Jobs,         \* ids of jobs, in order
    MaxDelete,    \* temp_cleanup_max_delete_keys_per_cycle
    MaxList,      \* temp_cleanup_max_list_keys_per_cycle
    MaxExits      \* bound: exits of the process

ASSUME UploadConstants ==
    /\ Uploads \subseteq Nat /\ Jobs \subseteq Nat \ {0}
    /\ Rank \in [Uploads -> Nat]
    /\ Table \notin Uploads /\ NoData \notin Uploads \cup {Table}
    /\ MaxDelete \in Nat \ {0} /\ MaxList \in Nat \ {0}
    /\ MaxExits \in Nat

VARIABLES
    upload,   \* the objects under temp/uploads/: "none" yet, "fresh", "expired" or "gone"
    jobs,     \* the jobs table; `late` is a history: active only since its upload expired
    cleaner,  \* the local variables of cleanup_temp_uploads
    up,       \* the process is running
    exits

uvars == <<upload, jobs, cleaner, up, exits>>

Kinds == {"graphics", "fetch", "sync"}
NoJob == [kind |-> "none", data |-> NoData, status |-> "absent", late |-> FALSE]

Active(j) == jobs[j].status \in {"queued", "running"}
SetStatus(j, status) == jobs' = [jobs EXCEPT ![j] = [@ EXCEPT !.status = status]]

\* A job that becomes active now comes too late for its upload.
TooLate(d) == d \in Uploads /\ upload[d] \in {"expired", "gone"}

-----------------------------------------------------------------------------
(* Requests.                                                                *)

\* The next id of the table, as long as there is one.
NewJob(j, kind, d) ==
    /\ jobs[j] = NoJob /\ \A i \in Jobs : i < j => jobs[i] # NoJob
    /\ jobs' = [jobs EXCEPT ![j] = [kind |-> kind, data |-> d, status |-> "queued",
                                    late |-> TooLate(d)]]

\* put_object and delete_object of the bucket, each of which may raise instead.
UploadBytes(k) == [upload EXCEPT ![k] = "fresh"]
DeleteObject(k) == [upload EXCEPT ![k] = "gone"]

\* generate_from_data: the object comes first, then its job.  When the insert or the
\* commit fails the object stays without one; until then it is not old enough to expire.
UploadData(k) ==
    /\ up
    /\ upload[k] = "none" /\ \A i \in Uploads : i < k => upload[i] # "none"
    /\ upload' = UploadBytes(k)
    /\ \/ \E j \in Jobs : NewJob(j, "graphics", k)
       \/ UNCHANGED jobs
    /\ UNCHANGED <<cleaner, up, exits>>

\* generate_graphic names any data_key there is; its dedupe key is left out, as every
\* request may differ in its title.
GenerateGraphic(j, d) ==
    /\ up
    /\ d \in Uploads => upload[d] # "none"
    /\ NewJob(j, "graphics", d)
    /\ UNCHANGED <<upload, cleaner, up, exits>>

\* The dedupe key of the other two is the cube and the day: the active job is returned.
AlreadyActive(kind) == \E j \in Jobs : Active(j) /\ jobs[j].kind = kind

TriggerCubeFetch(j) ==
    /\ up
    /\ ~AlreadyActive("fetch")
    /\ NewJob(j, "fetch", NoData)
    /\ UNCHANGED <<upload, cleaner, up, exits>>

TriggerCatalogSync(j) ==
    /\ up
    /\ ~AlreadyActive("sync")
    /\ NewJob(j, "sync", NoData)
    /\ UNCHANGED <<upload, cleaner, up, exits>>

\* POST /jobs/{id}/retry.
Retry(j) ==
    /\ up
    /\ jobs[j].status = "failed"
    /\ jobs' = [jobs EXCEPT ![j] = [@ EXCEPT !.status = "queued", !.late = jobs[j].late \/ TooLate(jobs[j].data)]]
    /\ UNCHANGED <<upload, cleaner, up, exits>>

\* The TTL passes: uploads expire in the order they were made.
Expire(k) ==
    /\ upload[k] = "fresh"
    /\ \A i \in Uploads : i < k => upload[i] # "fresh"
    /\ upload' = [upload EXCEPT ![k] = "expired"]
    /\ UNCHANGED <<jobs, cleaner, up, exits>>

-----------------------------------------------------------------------------
(* cleanup_temp_uploads, one at a time (max_instances=1).                   *)

NotCleaning == [pc |-> "idle", cutoff |-> {}, referenced |-> {}, doomed |-> {}]

ReferencedByQueued == {jobs[j].data : j \in {i \in Jobs : jobs[i].status = "queued" /\ jobs[i].kind = "graphics"}}
\* collect_all_referenced_temp_keys.
Referenced == {jobs[j].data : j \in {i \in Jobs : Active(i) /\ jobs[i].kind = "graphics"}}

\* The first n keys of the listing: objects of any age count.
Objects == {k \in Uploads : upload[k] \in {"fresh", "expired"}}
FirstListed(n) == {k \in Objects : Cardinality({i \in Objects : Rank[i] < Rank[k]}) < n}

Oldest(S, n) == {k \in S : Cardinality({i \in S : i < k}) < n}

CappedFirst(listed) == Oldest(listed \cap cleaner.cutoff, MaxDelete) \ cleaner.referenced
\* The heap: of the listed objects past the cutoff, those that are referenced are passed
\* over, and the oldest of the others kept.
Deletable(listed) == Oldest((listed \cap cleaner.cutoff) \ cleaner.referenced, MaxDelete)

\* run_once: the cutoff, then the references; an error in the query ends the cycle.
CleanStart ==
    /\ up
    /\ cleaner.pc = "idle"
    /\ \E k \in Uploads : upload[k] = "expired"
    /\ cleaner' = [pc |-> "list", cutoff |-> {k \in Uploads : upload[k] = "expired"},
                   referenced |-> Referenced \cap Uploads, doomed |-> {}]
    /\ UNCHANGED <<upload, jobs, up, exits>>

\* The pages of one prefix, n objects of them: an error ends the listing after any page,
\* and what it has found counts; without one n is the cap.
CleanList(n) ==
    /\ cleaner.pc = "list"
    /\ LET doomed == Deletable(FirstListed(n))
       IN  cleaner' = IF doomed = {} THEN NotCleaning
                      ELSE [NotCleaning EXCEPT !.pc = "delete", !.doomed = doomed]
    /\ UNCHANGED <<upload, jobs, up, exits>>

\* An object that fails to go is reported and left to the next cycle.
CleanDelete(k, gone) ==
    /\ cleaner.pc = "delete"
    /\ k \in cleaner.doomed
    /\ \A i \in cleaner.doomed : Rank[k] <= Rank[i]
    /\ upload' = IF gone THEN DeleteObject(k) ELSE upload
    /\ cleaner' = IF cleaner.doomed = {k} THEN NotCleaning ELSE [cleaner EXCEPT !.doomed = @ \ {k}]
    /\ UNCHANGED <<jobs, up, exits>>

-----------------------------------------------------------------------------
UploadInit ==
    /\ upload = [k \in Uploads |-> "none"]
    /\ jobs = [j \in Jobs |-> NoJob]
    /\ cleaner = NotCleaning
    /\ up = TRUE
    /\ exits = 0

RequestStep ==
    \/ \E k \in Uploads : UploadData(k)
    \/ \E j \in Jobs : \/ Retry(j) \/ TriggerCubeFetch(j) \/ TriggerCatalogSync(j)
                       \/ \E d \in Uploads \cup {Table} : GenerateGraphic(j, d)

CleanStep ==
    \/ CleanStart
    \/ \E n \in 0 .. MaxList : CleanList(n)
    \/ \E k \in Uploads, gone \in BOOLEAN : CleanDelete(k, gone)

UploadTypeOK ==
    /\ upload \in [Uploads -> {"none", "fresh", "expired", "gone"}]
    /\ jobs \in [Jobs -> [kind : Kinds \cup {"none"}, data : Uploads \cup {Table, NoData},
                          status : {"absent", "queued", "running", "success", "failed"},
                          late : BOOLEAN]]
    /\ cleaner \in [pc : {"idle", "list", "delete"}, cutoff : SUBSET Uploads,
                    referenced : SUBSET Uploads, doomed : SUBSET Uploads]
    /\ up \in BOOLEAN
    /\ exits \in 0 .. MaxExits

\* A job that became active before its upload expired keeps it as long as it is queued
\* or running, retries, restarts and the reaper included (temp_cleanup.py:59).
UploadsKept ==
    \A j \in Jobs :
        Active(j) /\ jobs[j].data \in Uploads /\ ~jobs[j].late => upload[jobs[j].data] # "gone"
=============================================================================

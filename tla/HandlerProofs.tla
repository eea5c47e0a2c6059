---------------------------- MODULE HandlerProofs ----------------------------
(***************************************************************************)
(* What the handlers of the job runner keep.  First JobHandlers: the       *)
(* copies a fetch makes and the uploads of graphics jobs, for any number   *)
(* of jobs and uploads.  Then GraphicPipeline: the publications, for any   *)
(* number of requests, publications, headlines and products.               *)
(***************************************************************************)
EXTENDS GraphicPipeline, JobHandlers, TLAPS, FiniteSetTheorems, WellFoundedInduction

-----------------------------------------------------------------------------
(* The handlers of the jobs: what they and the cleanup keep in storage.     *)

USE UploadConstants, HandlerConstants

\* A job that keeps its upload.
Keeps(j, k) == Active(j) /\ jobs[j].data = k /\ ~jobs[j].late
Past(k) == upload[k] \in {"expired", "gone"}

JobRecord == [kind : Kinds \cup {"none"}, data : Uploads \cup {Table, NoData},
              status : {"absent", "queued", "running", "success", "failed"}, late : BOOLEAN]
KindsOK ==
    \A j \in Jobs : /\ jobs[j].data \in Uploads => jobs[j].kind = "graphics"
                    /\ jobs[j].status # "absent" => jobs[j].kind \in Kinds
UploadsOK ==
    /\ upload \in [Uploads -> {"none", "fresh", "expired", "gone"}]
    /\ jobs \in [Jobs -> JobRecord]
    /\ up \in BOOLEAN /\ exits \in 0 .. MaxExits
    /\ KindsOK
    /\ \A j \in Jobs, k \in Uploads : Keeps(j, k) => upload[k] # "gone"

\* What the cleanup has found is past its time, and no job can come to keep it.
CleanerOK ==
    /\ cleaner \in [pc : {"idle", "list", "delete"}, cutoff : SUBSET Uploads,
                    referenced : SUBSET Uploads, doomed : SUBSET Uploads]
    /\ \A k \in cleaner.cutoff \cup cleaner.doomed : Past(k)
    /\ \A j \in Jobs : \A k \in (cleaner.cutoff \ cleaner.referenced) \cup cleaner.doomed : ~Keeps(j, k)

\* The job in hand is running, and a fetch is where its copies say.
RunnerOK ==
    /\ runner \in [pc : DOMAIN NextStage \cup {"idle", "dead", "succeed", "fail"},
                   job : Jobs \cup {0}, seen : 0 .. MaxRevision, retryable : BOOLEAN]
    /\ RunnerAt("dead") <=> ~up
    /\ runner.pc \notin {"idle", "dead"} => runner.job \in Jobs /\ jobs[runner.job].status = "running"
CopiesOK ==
    /\ catalog \in BOOLEAN /\ raw \in 0 .. MaxRevision /\ table \in 0 .. MaxRevision
    /\ table <= raw
    /\ RunnerAt("raw") => raw <= runner.seen
    /\ runner.pc \in {"parse", "table"} => runner.seen = raw

HandlerInv == UploadsOK /\ CleanerOK /\ RunnerOK /\ CopiesOK

-----------------------------------------------------------------------------
(* Jobs and uploads change, and the cleanup stays where it is.              *)

\* Nothing that is past its time comes to be kept.
NoneLate == \A j \in Jobs, k \in Uploads : Keeps(j, k)' => Keeps(j, k) \/ ~Past(k)

LEMMA CleanerWaits ==
    ASSUME CleanerOK, cleaner' = cleaner, NoneLate, \A k \in Uploads : Past(k) => Past(k)'
    PROVE  CleanerOK'
<1>1. cleaner.cutoff \subseteq Uploads /\ cleaner.doomed \subseteq Uploads
  BY DEF CleanerOK
<1>2. \A k \in cleaner.cutoff \cup cleaner.doomed : Past(k) /\ Past(k)'
  BY <1>1 DEF CleanerOK
<1>3. \A j \in Jobs : \A k \in (cleaner.cutoff \ cleaner.referenced) \cup cleaner.doomed : ~Keeps(j, k)'
  BY <1>1, <1>2 DEF CleanerOK, NoneLate
<1> QED
  BY <1>2, <1>3 DEF CleanerOK

LEMMA NewJobs ==
    ASSUME UploadsOK, NEW j \in Jobs, NEW kind \in Kinds, NEW d \in Uploads \cup {Table, NoData}, NewJob(j, kind, d),
           d \in Uploads => kind = "graphics"
    PROVE  /\ jobs' \in [Jobs -> JobRecord] /\ NoneLate
           /\ KindsOK'
           /\ \A i \in Jobs : jobs[i].status = "running" => jobs'[i].status = "running"
<1> DEFINE r == [kind |-> kind, data |-> d, status |-> "queued", late |-> TooLate(d)]
<1>1. jobs' = [jobs EXCEPT ![j] = r] /\ jobs[j] = NoJob
  BY DEF NewJob
<1>2. r \in JobRecord /\ r.data = d /\ r.kind = kind /\ r.late = TooLate(d)
  <2>1. TooLate(d) \in BOOLEAN
    BY DEF TooLate
  <2> QED
    BY <2>1 DEF JobRecord
<1> HIDE DEF r
<1>3. jobs'[j] = r /\ \A i \in Jobs \ {j} : jobs'[i] = jobs[i]
  BY <1>1 DEF UploadsOK
<1>4. jobs' \in [Jobs -> JobRecord]
  BY <1>1, <1>2 DEF UploadsOK
<1>5. NoneLate
  <2> SUFFICES ASSUME NEW i \in Jobs, NEW k \in Uploads, Keeps(i, k)', Past(k) PROVE Keeps(i, k)
    BY DEF NoneLate
  <2>1. CASE i = j
    <3>1. d = k /\ ~TooLate(d)
      BY <1>2, <1>3, <2>1 DEF Keeps
    <3> QED
      BY <3>1 DEF TooLate, Past
  <2>2. CASE i # j
    BY <1>3, <2>2 DEF Keeps, Active
  <2> QED
    BY <2>1, <2>2
<1>6. KindsOK'
  BY <1>2, <1>3 DEF UploadsOK, KindsOK
<1>7. \A i \in Jobs : jobs[i].status = "running" => jobs'[i].status = "running"
  BY <1>1, <1>3 DEF NoJob
<1> QED
  BY <1>4, <1>5, <1>6, <1>7

\* A job moves while its upload stays, whatever its status becomes.
LEMMA JobMoves ==
    ASSUME UploadsOK, NEW j \in Jobs, NEW status \in {"queued", "running", "success", "failed"}, NEW late \in BOOLEAN,
           jobs' = [jobs EXCEPT ![j] = [@ EXCEPT !.status = status, !.late = late]], jobs[j].status # "absent",
           \/ Active(j) /\ (jobs[j].late => late)
           \/ status \in {"success", "failed"}
           \/ late = (jobs[j].late \/ TooLate(jobs[j].data))
    PROVE  /\ jobs' \in [Jobs -> JobRecord] /\ NoneLate
           /\ KindsOK'
           /\ jobs'[j].status = status /\ \A i \in Jobs \ {j} : jobs'[i] = jobs[i]
<1>1. PICK r \in JobRecord : r = jobs[j]
  BY DEF UploadsOK
<1> DEFINE s == [r EXCEPT !.status = status, !.late = late]
<1>2. s \in JobRecord /\ s.status = status /\ s.late = late /\ s.data = r.data /\ s.kind = r.kind
  BY <1>1 DEF JobRecord
<1>3. jobs' = [jobs EXCEPT ![j] = s]
  BY <1>1
<1> HIDE DEF s
<1>4. jobs'[j] = s /\ \A i \in Jobs \ {j} : jobs'[i] = jobs[i]
  BY <1>3 DEF UploadsOK
<1>5. jobs' \in [Jobs -> JobRecord]
  BY <1>2, <1>3 DEF UploadsOK
<1>6. NoneLate
  <2> SUFFICES ASSUME NEW i \in Jobs, NEW k \in Uploads, Keeps(i, k)', Past(k) PROVE Keeps(i, k)
    BY DEF NoneLate
  <2>1. CASE i = j
    <3>1. ~late /\ r.data = k /\ status \in {"queued", "running"}
      BY <1>2, <1>4, <2>1 DEF Keeps, Active
    <3>2. TooLate(k)
      BY DEF TooLate, Past
    <3> QED
      BY <1>1, <2>1, <3>1, <3>2 DEF Keeps
  <2>2. CASE i # j
    BY <1>4, <2>2 DEF Keeps, Active
  <2> QED
    BY <2>1, <2>2
<1>7. KindsOK'
  BY <1>1, <1>2, <1>4 DEF UploadsOK, KindsOK
<1> QED
  BY <1>2, <1>4, <1>5, <1>6, <1>7

LEMMA StatusSet ==
    ASSUME UploadsOK, NEW j \in Jobs, NEW status, SetStatus(j, status)
    PROVE  jobs' = [jobs EXCEPT ![j] = [@ EXCEPT !.status = status, !.late = jobs[j].late]]
<1>1. PICK r \in JobRecord : r = jobs[j]
  BY DEF UploadsOK
<1>2. [r EXCEPT !.status = status] = [r EXCEPT !.status = status, !.late = r.late]
  BY <1>1 DEF JobRecord
<1> QED
  BY <1>1, <1>2 DEF SetStatus

\* Uploads are as they were, or new, or older.
LEMMA UploadsKeepOK ==
    ASSUME UploadsOK, CleanerOK, NoneLate, jobs' \in [Jobs -> JobRecord],
           KindsOK',
           upload' \in [Uploads -> {"none", "fresh", "expired", "gone"}],
           \A k \in Uploads : (Past(k) => Past(k)') /\ (upload'[k] = "gone" => upload[k] = "gone"),
           up' \in BOOLEAN, exits' \in 0 .. MaxExits, cleaner' = cleaner
    PROVE  UploadsOK' /\ CleanerOK'
<1>1. ASSUME NEW j \in Jobs, NEW k \in Uploads, Keeps(j, k)' PROVE upload'[k] # "gone"
  BY <1>1 DEF NoneLate, UploadsOK, Past
<1> QED
  BY <1>1, CleanerWaits DEF UploadsOK

\* A request, or the passing of time.
LEMMA RequestKeeps ==
    ASSUME HandlerInv, UploadsOK', CleanerOK', UNCHANGED hvars, up' = up,
           \A i \in Jobs : jobs[i].status = "running" => jobs'[i].status = "running"
    PROVE  HandlerInv'
<1>1. runner' = runner /\ catalog' = catalog /\ raw' = raw /\ table' = table
  BY DEF hvars
<1>2. RunnerOK'
  BY <1>1 DEF HandlerInv, RunnerOK, RunnerAt
<1>3. CopiesOK'
  BY <1>1 DEF HandlerInv, CopiesOK, RunnerAt
<1> QED
  BY <1>2, <1>3 DEF HandlerInv

LEMMA NothingLate == ASSUME jobs' = jobs PROVE NoneLate
BY DEF NoneLate, Keeps, Active

LEMMA DataUploaded == ASSUME HandlerInv, NEW k \in Uploads, UploadData(k), UNCHANGED hvars PROVE HandlerInv'
<1>1. /\ upload' = [upload EXCEPT ![k] = "fresh"] /\ upload[k] = "none"
      /\ cleaner' = cleaner /\ up' = up /\ exits' = exits
  BY DEF UploadData, UploadBytes
<1>2. /\ jobs' \in [Jobs -> JobRecord] /\ NoneLate
      /\ KindsOK'
      /\ \A i \in Jobs : jobs[i].status = "running" => jobs'[i].status = "running"
  <2>1. CASE jobs' = jobs
    BY <2>1, NothingLate DEF HandlerInv, UploadsOK, KindsOK
  <2>2. ASSUME NEW j \in Jobs, NewJob(j, "graphics", k)
        PROVE  /\ jobs' \in [Jobs -> JobRecord] /\ NoneLate
               /\ KindsOK'
               /\ \A i \in Jobs : jobs[i].status = "running" => jobs'[i].status = "running"
    <3>1. PICK kind \in Kinds : kind = "graphics"
      BY DEF Kinds
    <3>2. k \in Uploads \cup {Table, NoData}
      OBVIOUS
    <3> QED
      BY <2>2, <3>1, <3>2, NewJobs DEF HandlerInv
  <2> QED
    BY <2>1, <2>2 DEF UploadData
<1>3. \A i \in Uploads : (Past(i) => Past(i)') /\ (upload'[i] = "gone" => upload[i] = "gone")
  BY <1>1 DEF HandlerInv, UploadsOK, Past
<1>4. upload' \in [Uploads -> {"none", "fresh", "expired", "gone"}] /\ up' \in BOOLEAN /\ exits' \in 0 .. MaxExits
  BY <1>1 DEF HandlerInv, UploadsOK
<1>5. UploadsOK' /\ CleanerOK'
  BY <1>1, <1>2, <1>3, <1>4, UploadsKeepOK DEF HandlerInv
<1> QED
  BY <1>1, <1>2, <1>5, RequestKeeps

\* The other requests touch the jobs alone.
LEMMA JobsMove ==
    ASSUME HandlerInv, UNCHANGED <<upload, cleaner, up, exits>>, UNCHANGED hvars, NoneLate, jobs' \in [Jobs -> JobRecord],
           KindsOK',
           \A i \in Jobs : jobs[i].status = "running" => jobs'[i].status = "running"
    PROVE  HandlerInv'
<1>1. \A i \in Uploads : (Past(i) => Past(i)') /\ (upload'[i] = "gone" => upload[i] = "gone")
  BY DEF Past
<1>2. /\ upload' \in [Uploads -> {"none", "fresh", "expired", "gone"}] /\ up' \in BOOLEAN
      /\ exits' \in 0 .. MaxExits /\ cleaner' = cleaner
  BY DEF HandlerInv, UploadsOK
<1>3. UploadsOK' /\ CleanerOK'
  BY <1>1, <1>2, UploadsKeepOK DEF HandlerInv
<1> QED
  BY <1>3, RequestKeeps

LEMMA Enqueued ==
    ASSUME HandlerInv, NEW j \in Jobs, UNCHANGED hvars,
           \/ \E d \in Uploads \cup {Table} : GenerateGraphic(j, d)
           \/ TriggerCubeFetch(j) \/ TriggerCatalogSync(j)
    PROVE  HandlerInv'
<1>1. PICK kind \in Kinds, d \in Uploads \cup {Table, NoData} :
        NewJob(j, kind, d) /\ (d \in Uploads => kind = "graphics") /\ UNCHANGED <<upload, cleaner, up, exits>>
  <2>1. ASSUME NEW d \in Uploads \cup {Table}, GenerateGraphic(j, d)
        PROVE  NewJob(j, "graphics", d) /\ UNCHANGED <<upload, cleaner, up, exits>>
    BY <2>1 DEF GenerateGraphic
  <2>2. ASSUME TriggerCubeFetch(j) PROVE NewJob(j, "fetch", NoData) /\ UNCHANGED <<upload, cleaner, up, exits>>
    BY <2>2 DEF TriggerCubeFetch
  <2>3. ASSUME TriggerCatalogSync(j) PROVE NewJob(j, "sync", NoData) /\ UNCHANGED <<upload, cleaner, up, exits>>
    BY <2>3 DEF TriggerCatalogSync
  <2>4. {"graphics", "fetch", "sync"} = Kinds /\ NoData \notin Uploads
    BY DEF Kinds
  <2> QED
    BY <2>1, <2>2, <2>3, <2>4
<1>2. /\ jobs' \in [Jobs -> JobRecord] /\ NoneLate
      /\ KindsOK'
      /\ \A i \in Jobs : jobs[i].status = "running" => jobs'[i].status = "running"
  BY <1>1, NewJobs DEF HandlerInv
<1> QED
  BY <1>1, <1>2, JobsMove

LEMMA Retried == ASSUME HandlerInv, NEW j \in Jobs, Retry(j), UNCHANGED hvars PROVE HandlerInv'
<1>1. PICK late \in BOOLEAN : late = (jobs[j].late \/ TooLate(jobs[j].data))
  <2>1. jobs[j].late \in BOOLEAN
    BY DEF HandlerInv, UploadsOK, JobRecord
  <2> QED
    BY <2>1
<1>2. PICK status \in {"queued", "running", "success", "failed"} : status = "queued"
  OBVIOUS
<1>3. /\ jobs' = [jobs EXCEPT ![j] = [@ EXCEPT !.status = status, !.late = late]]
      /\ UNCHANGED <<upload, cleaner, up, exits>> /\ jobs[j].status = "failed"
  BY <1>1, <1>2 DEF Retry
<1>4. /\ jobs' \in [Jobs -> JobRecord] /\ NoneLate
      /\ KindsOK'
      /\ \A i \in Jobs \ {j} : jobs'[i] = jobs[i]
  BY <1>1, <1>3, JobMoves DEF HandlerInv
<1>5. \A i \in Jobs : jobs[i].status = "running" => jobs'[i].status = "running"
  BY <1>3, <1>4
<1> QED
  BY <1>3, <1>4, <1>5, JobsMove

LEMMA Expires == ASSUME HandlerInv, NEW k \in Uploads, Expire(k), UNCHANGED hvars PROVE HandlerInv'
<1>1. /\ upload' = [upload EXCEPT ![k] = "expired"] /\ upload[k] = "fresh" /\ jobs' = jobs
      /\ cleaner' = cleaner /\ up' = up /\ exits' = exits
  BY DEF Expire
<1>2. \A i \in Uploads : (Past(i) => Past(i)') /\ (upload'[i] = "gone" => upload[i] = "gone")
  BY <1>1 DEF HandlerInv, UploadsOK, Past
<1>3. /\ upload' \in [Uploads -> {"none", "fresh", "expired", "gone"}] /\ up' \in BOOLEAN /\ exits' \in 0 .. MaxExits
      /\ jobs' \in [Jobs -> JobRecord] /\ KindsOK'
  BY <1>1 DEF HandlerInv, UploadsOK, KindsOK
<1>4. UploadsOK' /\ CleanerOK'
  BY <1>1, <1>2, <1>3, NothingLate, UploadsKeepOK DEF HandlerInv
<1> QED
  BY <1>1, <1>4, RequestKeeps

-----------------------------------------------------------------------------
(* The cleanup.                                                             *)

LEMMA CleanerMoves ==
    ASSUME HandlerInv, CleanerOK', UNCHANGED <<upload, jobs, up, exits>>, UNCHANGED hvars
    PROVE  HandlerInv'
<1>1. UploadsOK'
  BY DEF HandlerInv, UploadsOK, KindsOK, Keeps, Active
<1> QED
  BY <1>1, RequestKeeps

\* The references are read with the cutoff.
LEMMA CleanStarts == ASSUME HandlerInv, CleanStart, UNCHANGED hvars PROVE HandlerInv'
<1>1. PICK cutoff : cutoff = {k \in Uploads : upload[k] = "expired"}
  OBVIOUS
<1>2. PICK referenced : referenced = Referenced \cap Uploads
  OBVIOUS
<1>3. /\ cleaner' = [pc |-> "list", cutoff |-> cutoff, referenced |-> referenced, doomed |-> {}]
      /\ UNCHANGED <<upload, jobs, up, exits>>
  BY <1>1, <1>2 DEF CleanStart
<1>4. cutoff \subseteq Uploads /\ referenced \subseteq Uploads
  BY <1>1, <1>2
<1>5. ASSUME NEW j \in Jobs, NEW k \in cutoff \ referenced PROVE ~Keeps(j, k)
  <2> SUFFICES ASSUME Active(j), jobs[j].data = k PROVE FALSE
    BY DEF Keeps
  <2>1. k \in Uploads /\ jobs[j].kind = "graphics"
    BY <1>4 DEF HandlerInv, UploadsOK, KindsOK
  <2>2. k \in Referenced
    BY <2>1 DEF Referenced
  <2> QED
    BY <1>2, <1>5, <2>1, <2>2
<1>6. CleanerOK'
  <2>1. cleaner'.cutoff = cutoff /\ cleaner'.referenced = referenced /\ cleaner'.doomed = {}
    BY <1>3
  <2>2. \A k \in cutoff : Past(k)'
    BY <1>1, <1>3 DEF Past
  <2>3. \A j \in Jobs : \A k \in cutoff \ referenced : ~Keeps(j, k)'
    BY <1>3, <1>5 DEF Keeps, Active
  <2> QED
    BY <1>3, <1>4, <2>1, <2>2, <2>3 DEF CleanerOK
<1> QED
  BY <1>3, <1>6, CleanerMoves

LEMMA Cleaned == /\ NotCleaning.cutoff = {} /\ NotCleaning.doomed = {} /\ NotCleaning.referenced = {}
                 /\ NotCleaning = [pc |-> "idle", cutoff |-> {}, referenced |-> {}, doomed |-> {}]
BY DEF NotCleaning

LEMMA CleanLists == ASSUME HandlerInv, NEW n, CleanList(n), UNCHANGED hvars PROVE HandlerInv'
<1>1. PICK listed :
        cleaner' = IF Deletable(listed) = {} THEN NotCleaning
                   ELSE [NotCleaning EXCEPT !.pc = "delete", !.doomed = Deletable(listed)]
  BY DEF CleanList
<1>2. PICK doomed : doomed = Deletable(listed)
  OBVIOUS
<1>3. doomed \subseteq cleaner.cutoff \ cleaner.referenced /\ cleaner.cutoff \subseteq Uploads
  BY <1>2 DEF Deletable, Oldest, HandlerInv, CleanerOK
<1>4. UNCHANGED <<upload, jobs, up, exits>>
  BY DEF CleanList
<1>5. \E pc \in {"idle", "delete"} :
        cleaner' = [pc |-> pc, cutoff |-> {}, referenced |-> {}, doomed |-> doomed]
  <2>1. CASE doomed = {}
    BY <1>1, <1>2, <2>1, Cleaned
  <2>2. CASE doomed # {}
    BY <1>1, <1>2, <2>2, Cleaned
  <2> QED
    BY <2>1, <2>2
<1>6. cleaner'.cutoff = {} /\ cleaner'.referenced = {} /\ cleaner'.doomed = doomed
  BY <1>5
<1>7. CleanerOK'
  <2>1. \A k \in doomed : Past(k)'
    BY <1>3, <1>4 DEF Past, HandlerInv, CleanerOK
  <2>2. \A j \in Jobs : \A k \in doomed : ~Keeps(j, k)'
    BY <1>3, <1>4 DEF Keeps, Active, HandlerInv, CleanerOK
  <2> QED
    BY <1>3, <1>5, <1>6, <2>1, <2>2 DEF CleanerOK
<1> QED
  BY <1>4, <1>7, CleanerMoves

\* What goes is kept by no job.
LEMMA CleanDeletes ==
    ASSUME HandlerInv, NEW k \in Uploads, NEW gone \in BOOLEAN, CleanDelete(k, gone), UNCHANGED hvars
    PROVE  HandlerInv'
<1>1. k \in cleaner.doomed /\ jobs' = jobs /\ up' = up /\ exits' = exits
  BY DEF CleanDelete
<1>2. upload' = upload \/ upload' = [upload EXCEPT ![k] = "gone"]
  BY DEF CleanDelete, DeleteObject
<1>3. Past(k) /\ \A j \in Jobs : ~Keeps(j, k)
  BY <1>1 DEF HandlerInv, CleanerOK
<1>4. upload' \in [Uploads -> {"none", "fresh", "expired", "gone"}] /\ \A i \in Uploads : Past(i) => Past(i)'
  BY <1>2 DEF HandlerInv, UploadsOK, Past
<1>5. UploadsOK'
  <2>1. \A j \in Jobs, i \in Uploads : Keeps(j, i)' => upload'[i] # "gone"
    <3> SUFFICES ASSUME NEW j \in Jobs, NEW i \in Uploads, Keeps(j, i)' PROVE upload'[i] # "gone"
      OBVIOUS
    <3>1. Keeps(j, i) /\ i # k
      BY <1>1, <1>3 DEF Keeps, Active
    <3> QED
      BY <1>2, <3>1 DEF HandlerInv, UploadsOK
  <2> QED
    BY <1>1, <1>4, <2>1 DEF HandlerInv, UploadsOK, KindsOK
<1>6. CleanerOK'
  <2>1. PICK c : c = cleaner
    OBVIOUS
  <2>2. c \in [pc : {"idle", "list", "delete"}, cutoff : SUBSET Uploads,
               referenced : SUBSET Uploads, doomed : SUBSET Uploads]
    BY <2>1 DEF HandlerInv, CleanerOK
  <2>3. cleaner' = NotCleaning \/ cleaner' = [c EXCEPT !.doomed = c.doomed \ {k}]
    BY <2>1 DEF CleanDelete
  <2>4. /\ cleaner' \in [pc : {"idle", "list", "delete"}, cutoff : SUBSET Uploads,
                         referenced : SUBSET Uploads, doomed : SUBSET Uploads]
        /\ cleaner'.doomed \subseteq c.doomed
        /\ \/ cleaner'.cutoff = {}
           \/ cleaner'.cutoff = c.cutoff /\ cleaner'.referenced = c.referenced
    BY <2>2, <2>3, Cleaned
  <2>5. \A i \in cleaner'.cutoff \cup cleaner'.doomed : Past(i)'
    BY <1>4, <2>1, <2>2, <2>4 DEF HandlerInv, CleanerOK
  <2>6. \A j \in Jobs : \A i \in (cleaner'.cutoff \ cleaner'.referenced) \cup cleaner'.doomed : ~Keeps(j, i)'
    BY <1>1, <2>1, <2>4 DEF Keeps, Active, HandlerInv, CleanerOK
  <2> QED
    BY <2>4, <2>5, <2>6 DEF CleanerOK
<1> QED
  BY <1>1, <1>5, <1>6, RequestKeeps

-----------------------------------------------------------------------------
(* The runner and its handlers.                                             *)

RunnerRecord == [pc : DOMAIN NextStage \cup {"idle", "dead", "succeed", "fail"},
                 job : Jobs \cup {0}, seen : 0 .. MaxRevision, retryable : BOOLEAN]

Hand(pc, seen, retryable) == [pc |-> pc, job |-> runner.job, seen |-> seen, retryable |-> retryable]

LEMMA Stages ==
    /\ DOMAIN NextStage = {"load", "check", "download", "raw", "parse", "table", "list", "upsert"}
    /\ NextStage["load"] = "succeed" /\ NextStage["check"] = "download" /\ NextStage["download"] = "raw"
    /\ NextStage["raw"] = "parse" /\ NextStage["parse"] = "table" /\ NextStage["table"] = "succeed"
    /\ NextStage["list"] = "upsert" /\ NextStage["upsert"] = "succeed"
BY DEF NextStage

LEMMA InHand ==
    ASSUME HandlerInv
    PROVE  /\ runner = Hand(runner.pc, runner.seen, runner.retryable)
           /\ runner.seen \in 0 .. MaxRevision /\ runner.retryable \in BOOLEAN
           /\ Advanced = Hand(NextStage[runner.pc], runner.seen, runner.retryable)
           /\ \A n : [Advanced EXCEPT !.seen = n] = Hand(NextStage[runner.pc], n, runner.retryable)
           /\ \A b \in BOOLEAN : Failing(b) = Hand("fail", runner.seen, b)
<1>1. PICK r \in RunnerRecord : r = runner
  BY DEF HandlerInv, RunnerOK, RunnerRecord
<1>2. PICK next : next = NextStage[runner.pc]
  OBVIOUS
<1>3. r = [pc |-> r.pc, job |-> r.job, seen |-> r.seen, retryable |-> r.retryable]
      /\ r.seen \in 0 .. MaxRevision /\ r.retryable \in BOOLEAN
  BY DEF RunnerRecord
<1>4. [r EXCEPT !.pc = next] = [pc |-> next, job |-> r.job, seen |-> r.seen, retryable |-> r.retryable]
  BY <1>3
<1>5. ASSUME NEW n PROVE [Advanced EXCEPT !.seen = n] = Hand(NextStage[runner.pc], n, runner.retryable)
  <2>1. Advanced = [pc |-> next, job |-> r.job, seen |-> r.seen, retryable |-> r.retryable]
    BY <1>1, <1>2, <1>4 DEF Advanced
  <2> QED
    BY <1>1, <1>2, <2>1 DEF Hand
<1>6. ASSUME NEW b \in BOOLEAN PROVE Failing(b) = Hand("fail", runner.seen, b)
  <2>1. PICK fail \in DOMAIN NextStage \cup {"idle", "dead", "succeed", "fail"} : fail = "fail"
    OBVIOUS
  <2>2. [r EXCEPT !.pc = fail, !.retryable = b] = [pc |-> fail, job |-> r.job, seen |-> r.seen, retryable |-> b]
    <3>1. PICK w : w = [r EXCEPT !.pc = fail, !.retryable = b]
      OBVIOUS
    <3>2. w \in RunnerRecord /\ w.pc = fail /\ w.job = r.job /\ w.seen = r.seen /\ w.retryable = b
      BY <3>1 DEF RunnerRecord
    <3>3. w = [pc |-> w.pc, job |-> w.job, seen |-> w.seen, retryable |-> w.retryable]
      BY <3>2 DEF RunnerRecord
    <3> QED
      BY <3>1, <3>2, <3>3
  <2> QED
    BY <1>1, <2>1, <2>2 DEF Failing, Hand
<1> QED
  BY <1>1, <1>2, <1>3, <1>4, <1>5, <1>6 DEF Advanced, Hand

\* A stage of the job in hand.
LEMMA StageKeeps ==
    ASSUME HandlerInv, UNCHANGED uvars, runner.pc \notin {"idle", "dead"}, CopiesOK',
           NEW pc \in DOMAIN NextStage \cup {"succeed", "fail"}, NEW n \in 0 .. MaxRevision, NEW b \in BOOLEAN,
           runner' = Hand(pc, n, b)
    PROVE  HandlerInv'
<1>1. upload' = upload /\ jobs' = jobs /\ cleaner' = cleaner /\ up' = up /\ exits' = exits
  BY DEF uvars
<1>2. UploadsOK'
  BY <1>1 DEF HandlerInv, UploadsOK, KindsOK, Keeps, Active
<1>3. CleanerOK'
  BY <1>1 DEF HandlerInv, CleanerOK, Keeps, Active, Past
<1>4. runner'.pc = pc /\ runner'.job = runner.job /\ pc \notin {"idle", "dead"}
  BY Stages DEF Hand
<1>5. runner' \in RunnerRecord
  BY DEF HandlerInv, RunnerOK, Hand, RunnerRecord
<1>6. RunnerOK'
  BY <1>1, <1>4, <1>5 DEF HandlerInv, RunnerOK, RunnerAt, RunnerRecord
<1> QED
  BY <1>2, <1>3, <1>6 DEF HandlerInv

\* One that does not touch the copies.
LEMMA ReadingStage ==
    ASSUME HandlerInv, UNCHANGED uvars, UNCHANGED <<catalog, raw, table>>, runner.pc \notin {"idle", "dead"},
           NEW pc \in DOMAIN NextStage \cup {"succeed", "fail"}, NEW n \in 0 .. MaxRevision, NEW b \in BOOLEAN,
           runner' = Hand(pc, n, b),
           pc = "raw" => raw <= n,
           pc \in {"parse", "table"} => n = raw
    PROVE  HandlerInv'
<1>1. runner'.pc = pc /\ runner'.seen = n
  BY DEF Hand
<1>2. CopiesOK'
  BY <1>1 DEF HandlerInv, CopiesOK, RunnerAt
<1> QED
  BY <1>2, StageKeeps

LEMMA Fails ==
    ASSUME HandlerInv, UNCHANGED uvars, UNCHANGED <<catalog, raw, table>>, runner.pc \notin {"idle", "dead"},
           NEW b \in BOOLEAN, runner' = Failing(b)
    PROVE  HandlerInv'
<1>1. PICK pc \in DOMAIN NextStage \cup {"succeed", "fail"} : pc = "fail"
  OBVIOUS
<1>2. runner' = Hand(pc, runner.seen, b) /\ runner.seen \in 0 .. MaxRevision
  BY <1>1, InHand
<1>3. PICK n \in 0 .. MaxRevision : n = runner.seen
  BY <1>2
<1> QED
  BY <1>1, <1>2, <1>3, ReadingStage

\* Any stage but those about the copies.
LEMMA GoesOn ==
    ASSUME HandlerInv, UNCHANGED uvars, UNCHANGED <<catalog, raw, table>>,
           runner.pc \in {"load", "check", "parse", "table", "list", "upsert"}, runner' = Advanced
    PROVE  HandlerInv'
<1>1. PICK pc : pc = NextStage[runner.pc]
  OBVIOUS
<1>2. /\ pc \in DOMAIN NextStage \cup {"succeed", "fail"} /\ pc # "raw"
      /\ pc \in {"parse", "table"} => runner.pc = "parse"
  BY <1>1, Stages
<1>3. PICK n \in 0 .. MaxRevision, b \in BOOLEAN : n = runner.seen /\ b = runner.retryable
  BY InHand
<1>4. runner' = Hand(pc, n, b)
  BY <1>1, <1>3, InHand
<1>5. pc \in {"parse", "table"} => n = raw
  BY <1>2, <1>3 DEF HandlerInv, CopiesOK
<1> QED
  BY <1>2, <1>4, <1>5, ReadingStage

LEMMA ReadSteps ==
    ASSUME HandlerInv, Load \/ CheckCube \/ ParseAndValidate \/ Raise
    PROVE  HandlerInv'
<1>1. ASSUME Load PROVE HandlerInv'
  <2>1. RunnerAt("load") /\ UNCHANGED uvars /\ UNCHANGED <<catalog, raw, table>> /\ (runner' = Advanced \/ runner' = Failing(TRUE))
    BY <1>1 DEF Load
  <2> QED
    BY <2>1, GoesOn, Fails DEF RunnerAt
<1>2. ASSUME CheckCube PROVE HandlerInv'
  <2>1. RunnerAt("check") /\ UNCHANGED uvars /\ UNCHANGED <<catalog, raw, table>> /\ (runner' = Advanced \/ runner' = Failing(TRUE))
    BY <1>2 DEF CheckCube
  <2> QED
    BY <2>1, GoesOn, Fails DEF RunnerAt
<1>3. ASSUME ParseAndValidate PROVE HandlerInv'
  <2>1. RunnerAt("parse") /\ UNCHANGED uvars /\ UNCHANGED <<catalog, raw, table>> /\ (runner' = Advanced \/ runner' = Failing(FALSE))
    BY <1>3 DEF ParseAndValidate
  <2> QED
    BY <2>1, GoesOn, Fails DEF RunnerAt
<1>4. ASSUME Raise PROVE HandlerInv'
  <2>1. runner.pc \in DOMAIN NextStage \cup {"succeed"} /\ UNCHANGED uvars /\ UNCHANGED <<catalog, raw, table>> /\ runner' = Failing(TRUE)
    BY <1>4 DEF Raise
  <2> QED
    BY <2>1, Stages, Fails
<1> QED
  BY <1>1, <1>2, <1>3, <1>4

\* What is downloaded is no older than the copy there is.
LEMMA Downloads == ASSUME HandlerInv, DownloadCsv PROVE HandlerInv'
<1>1. PICK n \in 1 .. MaxRevision : n >= raw /\ runner' = [Advanced EXCEPT !.seen = n]
  BY DEF DownloadCsv
<1>2. runner.pc = "download" /\ UNCHANGED uvars /\ UNCHANGED <<catalog, raw, table>>
  BY DEF DownloadCsv, RunnerAt
<1>3. PICK pc : pc = "raw"
  OBVIOUS
<1>4. PICK b \in BOOLEAN : b = runner.retryable
  BY InHand
<1>5. runner' = Hand(pc, n, b)
  BY <1>1, <1>2, <1>3, <1>4, InHand, Stages
<1>6. n \in 0 .. MaxRevision /\ raw <= n /\ pc \in DOMAIN NextStage \cup {"succeed", "fail"} /\ pc \notin {"parse", "table"}
  BY <1>1, <1>3, Stages DEF HandlerInv, CopiesOK
<1> QED
  BY <1>2, <1>5, <1>6, ReadingStage

\* The raw copy is of the revision in hand, and no table is newer.
LEMMA SavesRaw == ASSUME HandlerInv, SaveRaw PROVE HandlerInv'
<1>1. runner.pc = "raw" /\ UNCHANGED uvars /\ catalog' = catalog /\ table' = table /\ raw' = runner.seen /\ runner' = Advanced
  BY DEF SaveRaw, RunnerAt
<1>2. PICK n \in 0 .. MaxRevision, b \in BOOLEAN : n = runner.seen /\ b = runner.retryable
  BY InHand
<1>3. PICK pc : pc = "parse"
  OBVIOUS
<1>4. runner' = Hand(pc, n, b)
  BY <1>1, <1>2, <1>3, InHand, Stages
<1>5. runner'.pc = "parse" /\ runner'.seen = n
  BY <1>3, <1>4 DEF Hand
<1>6. table <= raw /\ raw <= n /\ table \in Nat /\ raw \in Nat /\ catalog \in BOOLEAN /\ table \in 0 .. MaxRevision
  BY <1>1, <1>2 DEF HandlerInv, CopiesOK, RunnerAt
<1>7. CopiesOK'
  BY <1>1, <1>2, <1>5, <1>6 DEF CopiesOK, RunnerAt
<1>8. pc \in DOMAIN NextStage \cup {"succeed", "fail"}
  BY <1>3, Stages
<1> QED
  BY <1>1, <1>4, <1>7, <1>8, StageKeeps

LEMMA SavesTable == ASSUME HandlerInv, SaveParquet PROVE HandlerInv'
<1>1. runner.pc = "table" /\ UNCHANGED uvars /\ catalog' = catalog /\ raw' = raw /\ table' = runner.seen /\ runner' = Advanced
  BY DEF SaveParquet, RunnerAt
<1>2. PICK n \in 0 .. MaxRevision, b \in BOOLEAN : n = runner.seen /\ b = runner.retryable
  BY InHand
<1>3. PICK pc : pc = "succeed"
  OBVIOUS
<1>4. runner' = Hand(pc, n, b)
  BY <1>1, <1>2, <1>3, InHand, Stages
<1>5. runner'.pc = "succeed" /\ runner'.seen = n
  BY <1>3, <1>4 DEF Hand
<1>6. n = raw /\ raw \in 0 .. MaxRevision /\ catalog \in BOOLEAN
  BY <1>1, <1>2 DEF HandlerInv, CopiesOK
<1>7. CopiesOK'
  BY <1>1, <1>2, <1>5, <1>6 DEF CopiesOK, RunnerAt
<1> QED
  BY <1>1, <1>3, <1>4, <1>7, StageKeeps

LEMMA Syncs == ASSUME HandlerInv, SyncStep PROVE HandlerInv'
<1>1. ASSUME FetchCubeList PROVE HandlerInv'
  <2>1. PICK n \in {0, 1} : runner' = [Advanced EXCEPT !.seen = n]
    BY <1>1 DEF FetchCubeList
  <2>2. runner.pc = "list" /\ UNCHANGED uvars /\ UNCHANGED <<catalog, raw, table>>
    BY <1>1 DEF FetchCubeList, RunnerAt
  <2>3. PICK pc : pc = "upsert"
    OBVIOUS
  <2>4. PICK b \in BOOLEAN : b = runner.retryable
    BY InHand
  <2>5. runner' = Hand(pc, n, b)
    BY <2>1, <2>2, <2>3, <2>4, InHand, Stages
  <2>6. n \in 0 .. MaxRevision /\ pc \in DOMAIN NextStage \cup {"succeed", "fail"} /\ pc \notin {"raw", "parse", "table"}
    BY <2>1, <2>3, Stages
  <2> QED
    BY <2>2, <2>5, <2>6, ReadingStage
<1>2. ASSUME UpsertBatch PROVE HandlerInv'
  <2>1. runner.pc = "upsert" /\ UNCHANGED uvars /\ raw' = raw /\ table' = table /\ runner' = Advanced
    BY <1>2 DEF UpsertBatch, RunnerAt
  <2>2. catalog' \in BOOLEAN
    BY <1>2 DEF UpsertBatch, UpsertChunk, HandlerInv, CopiesOK
  <2>3. PICK n \in 0 .. MaxRevision, b \in BOOLEAN : n = runner.seen /\ b = runner.retryable
    BY InHand
  <2>4. PICK pc : pc = "succeed"
    OBVIOUS
  <2>5. runner' = Hand(pc, n, b)
    BY <2>1, <2>3, <2>4, InHand, Stages
  <2>6. runner'.pc = "succeed"
    BY <2>4, <2>5 DEF Hand
  <2>7. CopiesOK'
    BY <2>1, <2>2, <2>6 DEF HandlerInv, CopiesOK, RunnerAt
  <2> QED
    BY <2>1, <2>4, <2>5, <2>7, StageKeeps
<1> QED
  BY <1>1, <1>2 DEF SyncStep

\* The runner takes a job or gives it up.
LEMMA RunnerTakes ==
    ASSUME HandlerInv, UNCHANGED <<upload, cleaner, up, exits, catalog, raw, table>>,
           jobs' \in [Jobs -> JobRecord], NoneLate,
           KindsOK',
           runner' \in RunnerRecord, runner'.pc \notin {"dead", "raw", "parse", "table"}, ~RunnerAt("dead"),
           runner'.pc # "idle" => runner'.job \in Jobs /\ jobs'[runner'.job].status = "running"
    PROVE  HandlerInv'
<1>1. \A i \in Uploads : (Past(i) => Past(i)') /\ (upload'[i] = "gone" => upload[i] = "gone")
  BY DEF Past
<1>2. /\ upload' \in [Uploads -> {"none", "fresh", "expired", "gone"}] /\ up' \in BOOLEAN
      /\ exits' \in 0 .. MaxExits /\ cleaner' = cleaner
  BY DEF HandlerInv, UploadsOK
<1>3. UploadsOK' /\ CleanerOK'
  BY <1>1, <1>2, UploadsKeepOK DEF HandlerInv
<1>4. RunnerOK'
  BY DEF HandlerInv, RunnerOK, RunnerAt, RunnerRecord
<1>5. CopiesOK'
  BY DEF HandlerInv, CopiesOK, RunnerAt
<1> QED
  BY <1>3, <1>4, <1>5 DEF HandlerInv

LEMMA Idles == IdleRunner \in RunnerRecord /\ IdleRunner.pc = "idle" /\ Dead \in RunnerRecord /\ Dead.pc = "dead"
<1>1. 0 \in 0 .. MaxRevision
  OBVIOUS
<1>2. IdleRunner \in RunnerRecord /\ IdleRunner.pc = "idle"
  BY <1>1 DEF IdleRunner, RunnerRecord
<1>3. PICK r \in RunnerRecord : r = IdleRunner
  BY <1>2
<1>4. [r EXCEPT !.pc = "dead"] \in RunnerRecord /\ [r EXCEPT !.pc = "dead"].pc = "dead"
  BY DEF RunnerRecord
<1> QED
  BY <1>2, <1>3, <1>4 DEF Dead

LEMMA Claims == ASSUME HandlerInv, NEW j \in Jobs, Claim(j) PROVE HandlerInv'
<1>1. /\ UNCHANGED <<upload, cleaner, up, exits, catalog, raw, table>> /\ RunnerAt("idle") /\ jobs[j].status = "queued"
      /\ SetStatus(j, "running") /\ runner' = [IdleRunner EXCEPT !.pc = FirstStage[jobs[j].kind], !.job = j]
  BY DEF Claim, SetStatus
<1>2. PICK status \in {"queued", "running", "success", "failed"} : status = "running"
  OBVIOUS
<1>3. PICK late \in BOOLEAN : late = jobs[j].late
  BY DEF HandlerInv, UploadsOK, JobRecord
<1>4. jobs' = [jobs EXCEPT ![j] = [@ EXCEPT !.status = status, !.late = late]] /\ Active(j)
  BY <1>1, <1>2, <1>3, StatusSet DEF HandlerInv, Active
<1>5. /\ jobs' \in [Jobs -> JobRecord] /\ NoneLate
      /\ KindsOK'
      /\ jobs'[j].status = "running"
  BY <1>1, <1>2, <1>3, <1>4, JobMoves DEF HandlerInv
<1>6. jobs[j].kind \in Kinds
  <2>1. jobs[j].status # "absent"
    BY <1>1
  <2> QED
    BY <2>1 DEF HandlerInv, UploadsOK, KindsOK
<1>7. PICK pc : pc = FirstStage[jobs[j].kind]
  OBVIOUS
<1>8. pc \in {"load", "check", "list"}
  BY <1>6, <1>7 DEF FirstStage, Kinds
<1>9. runner' = [pc |-> pc, job |-> j, seen |-> 0, retryable |-> TRUE]
  BY <1>1, <1>7 DEF IdleRunner
<1>10. 0 \in 0 .. MaxRevision
  OBVIOUS
<1>11. runner' \in RunnerRecord /\ runner'.pc = pc /\ runner'.job = j
  BY <1>8, <1>9, <1>10, Stages DEF RunnerRecord
<1> QED
  BY <1>1, <1>5, <1>8, <1>11, RunnerTakes DEF RunnerAt

LEMMA Ends == ASSUME HandlerInv, Succeed \/ Fail PROVE HandlerInv'
<1>1. PICK status \in {"queued", "running", "success", "failed"} :
        /\ runner.pc \in {"succeed", "fail"} /\ SetStatus(runner.job, status) /\ runner' = IdleRunner
        /\ UNCHANGED <<upload, cleaner, up, exits, catalog, raw, table>>
  BY DEF Succeed, Fail, RunnerAt
<1>2. PICK j \in Jobs : j = runner.job /\ jobs[j].status = "running"
  BY <1>1 DEF HandlerInv, RunnerOK
<1>3. PICK late \in BOOLEAN : late = jobs[j].late
  BY DEF HandlerInv, UploadsOK, JobRecord
<1>4. jobs' = [jobs EXCEPT ![j] = [@ EXCEPT !.status = status, !.late = late]] /\ Active(j)
  BY <1>1, <1>2, <1>3, StatusSet DEF HandlerInv, Active
<1>5. jobs' \in [Jobs -> JobRecord] /\ NoneLate /\ KindsOK'
  BY <1>2, <1>3, <1>4, JobMoves DEF HandlerInv
<1> QED
  BY <1>1, <1>5, Idles, RunnerTakes DEF RunnerAt

-----------------------------------------------------------------------------
(* The process.                                                             *)

LEMMA Crashes == ASSUME HandlerInv, Crash PROVE HandlerInv'
<1>1. /\ up /\ up' = FALSE /\ exits < MaxExits /\ exits' = exits + 1 /\ cleaner' = NotCleaning /\ runner' = Dead
      /\ UNCHANGED <<upload, jobs, catalog, raw, table>>
  BY DEF Crash
<1>2. exits' \in 0 .. MaxExits
  BY <1>1 DEF HandlerInv, UploadsOK
<1>3. UploadsOK'
  BY <1>1, <1>2 DEF HandlerInv, UploadsOK, KindsOK, Keeps, Active
<1>4. CleanerOK'
  BY <1>1, Cleaned DEF CleanerOK
<1>5. RunnerOK'
  BY <1>1, Idles DEF RunnerOK, RunnerAt, RunnerRecord
<1>6. CopiesOK'
  BY <1>1, Idles DEF HandlerInv, CopiesOK, RunnerAt
<1> QED
  BY <1>3, <1>4, <1>5, <1>6 DEF HandlerInv

\* The reaper queues what is running, and so what keeps its upload.
LEMMA Boots == ASSUME HandlerInv, NEW S \in SUBSET Jobs, Boot(S) PROVE HandlerInv'
<1>1. /\ ~up /\ up' = TRUE /\ runner' = IdleRunner /\ UNCHANGED <<upload, cleaner, exits, catalog, raw, table>>
      /\ \A j \in S : jobs[j].status = "running"
      /\ jobs' = [j \in Jobs |-> IF j \in S THEN [jobs[j] EXCEPT !.status = "queued"] ELSE jobs[j]]
  BY DEF Boot
<1>2. ASSUME NEW j \in Jobs
      PROVE  /\ jobs'[j] \in JobRecord /\ jobs'[j].data = jobs[j].data /\ jobs'[j].late = jobs[j].late
             /\ jobs'[j].kind = jobs[j].kind /\ (Active(j)' => Active(j))
             /\ jobs'[j].status # "absent" => jobs[j].status # "absent"
  <2>1. PICK r \in JobRecord : r = jobs[j]
    BY DEF HandlerInv, UploadsOK
  <2>2. CASE j \in S
    <3>1. PICK s : s = [r EXCEPT !.status = "queued"]
      OBVIOUS
    <3>2. s \in JobRecord /\ s.data = r.data /\ s.late = r.late /\ s.kind = r.kind
      BY <3>1 DEF JobRecord
    <3>3. jobs'[j] = s
      BY <1>1, <2>1, <2>2, <3>1
    <3> QED
      BY <1>1, <2>1, <2>2, <3>2, <3>3 DEF Active
  <2>3. CASE j \notin S
    BY <1>1, <2>1, <2>3 DEF Active
  <2> QED
    BY <2>2, <2>3
<1>3. jobs' \in [Jobs -> JobRecord]
  BY <1>1, <1>2
<1>4. KindsOK'
  BY <1>2 DEF HandlerInv, UploadsOK, KindsOK
<1>5. NoneLate
  BY <1>2 DEF NoneLate, Keeps
<1>6. \A i \in Uploads : (Past(i) => Past(i)') /\ (upload'[i] = "gone" => upload[i] = "gone")
  BY <1>1 DEF Past
<1>7. /\ upload' \in [Uploads -> {"none", "fresh", "expired", "gone"}] /\ up' \in BOOLEAN
      /\ exits' \in 0 .. MaxExits /\ cleaner' = cleaner
  BY <1>1 DEF HandlerInv, UploadsOK
<1>8. UploadsOK' /\ CleanerOK'
  BY <1>3, <1>4, <1>5, <1>6, <1>7, UploadsKeepOK DEF HandlerInv
<1>9. RunnerOK'
  BY <1>1, Idles DEF RunnerOK, RunnerAt, RunnerRecord
<1>10. CopiesOK'
  BY <1>1, Idles DEF HandlerInv, CopiesOK, RunnerAt
<1> QED
  BY <1>8, <1>9, <1>10 DEF HandlerInv

LEMMA HandlersInitial == Init => HandlerInv
<1> SUFFICES ASSUME Init PROVE HandlerInv
  OBVIOUS
<1>1. /\ upload = [k \in Uploads |-> "none"] /\ jobs = [j \in Jobs |-> NoJob] /\ cleaner = NotCleaning
      /\ up = TRUE /\ exits = 0 /\ catalog \in BOOLEAN /\ raw = 0 /\ table = 0 /\ runner = IdleRunner
  BY DEF Init, UploadInit
<1>2. NoJob \in JobRecord /\ NoJob.data = NoData /\ NoJob.status = "absent"
  BY DEF NoJob, JobRecord
<1>3. UploadsOK
  BY <1>1, <1>2 DEF UploadsOK, KindsOK, Keeps
<1>4. CleanerOK
  BY <1>1, Cleaned DEF CleanerOK
<1>5. RunnerOK
  BY <1>1, Idles DEF RunnerOK, RunnerAt, RunnerRecord
<1>6. CopiesOK
  BY <1>1, Idles DEF CopiesOK, RunnerAt
<1> QED
  BY <1>3, <1>4, <1>5, <1>6 DEF HandlerInv

LEMMA HandlersStep == ASSUME HandlerInv, [Next]_vars PROVE HandlerInv'
<1>1. ASSUME RequestStep, UNCHANGED hvars PROVE HandlerInv'
  BY <1>1, DataUploaded, Retried, Enqueued DEF RequestStep
<1>2. ASSUME CleanStep, UNCHANGED hvars PROVE HandlerInv'
  BY <1>2, CleanStarts, CleanLists, CleanDeletes DEF CleanStep
<1>3. ASSUME NEW k \in Uploads, Expire(k), UNCHANGED hvars PROVE HandlerInv'
  BY <1>3, Expires
<1>4. ASSUME RunnerStep PROVE HandlerInv'
  BY <1>4, Claims, ReadSteps, Downloads, SavesRaw, SavesTable, Syncs, Ends DEF RunnerStep, FetchStep
<1>5. ASSUME UNCHANGED vars PROVE HandlerInv'
  <2>1. UNCHANGED <<upload, jobs, up, exits>> /\ UNCHANGED hvars /\ cleaner' = cleaner
    BY <1>5 DEF vars, uvars
  <2>2. CleanerOK'
    BY <2>1 DEF HandlerInv, CleanerOK, Past, Keeps, Active
  <2> QED
    BY <2>1, <2>2, CleanerMoves
<1> QED
  BY <1>1, <1>2, <1>3, <1>4, <1>5, Crashes, Boots DEF Next

THEOREM HandlerInvariant == Spec => []HandlerInv
<1>1. HandlerInv /\ [Next]_vars => HandlerInv'
  BY HandlersStep
<1> QED
  BY <1>1, HandlersInitial, PTL DEF Spec

\* A processed table always has its raw copy, of its revision or a later one, wherever a
\* fetch stops, raises or is retried.
THEOREM CopiesHold == Spec => []StoreInv
<1>1. HandlerInv => StoreInv
  BY DEF HandlerInv, StoreInv, TypeOK, UploadTypeOK, TableHasRaw, UploadsOK, CleanerOK, RunnerOK, CopiesOK, JobRecord
<1> QED
  BY <1>1, HandlerInvariant, PTL

\* A job that became active before its upload expired keeps it while it is queued or
\* running, whatever is retried, reaped or cleaned up meanwhile.
THEOREM UploadsStay == Spec => []UploadsKept
<1>1. HandlerInv => UploadsKept
  BY DEF HandlerInv, UploadsKept, UploadsOK, Keeps
<1> QED
  BY <1>1, HandlerInvariant, PTL

-----------------------------------------------------------------------------
(* Publications: the creations and the graphics pipeline.                   *)

USE LineageConstants, PipelineConstants

-----------------------------------------------------------------------------
(* The invariant.                                                           *)

\* What the unique constraints look at; the rest of a row may change.
SameKey(r, s) ==
    /\ r.head = s.head /\ r.slug = s.slug /\ r.product = s.product
    /\ r.config = s.config /\ r.version = s.version

Taken == Ids \ Free
InLineage(row) == row.product # NoProduct /\ row.config # "null"

\* Every version below v is there for the lineage of the row.
Below(row, v) ==
    \A k \in 1 .. v - 1 : \E q \in Stored : SameLineage(rows[q], row) /\ rows[q].version = k
Clash(r, s) == Slug(r) = Slug(s) \/ (SameLineage(r, s) /\ r.version = s.version)
SlugGone(row) == \E q \in Stored : Slug(rows[q]) = Slug(row)

\* Versions of a lineage are distinct, and each comes after all those below it.
RowsOK ==
    /\ rows \in [Ids -> RowType]
    /\ \A p \in Taken : rows[p].slug # 0 /\ rows[p].version # 0
    /\ SlugsUnique
    /\ \A p, q \in Taken : SameLineage(rows[p], rows[q]) /\ rows[p].version = rows[q].version => p = q
    /\ \A p \in Taken : InLineage(rows[p]) => Below(rows[p], rows[p].version)

Local == [pc : {"idle", "version", "slugs", "insert", "commit", "refused", "lowres", "highres",
                "zip", "publish", "undo", "audit"},
          kind : {"none", "create", "clone", "pipeline"}, row : RowType, attempt : 0 .. 2,
          pub : Ids \cup {0}, left : SUBSET Parts]

\* A maker tries a version when all those below it are there, and goes on to the next one
\* after a rival has taken it; or its slug is gone, and it will be refused.
LocalOK(v) ==
    /\ v \in Local
    /\ v.row.owner = Nobody /\ ~v.row.keys
    /\ v.pc \in {"version", "slugs"} => v.attempt = 0
    /\ v.pc \in {"slugs", "insert"} =>
          /\ v.row.version \in 1 .. Cardinality(Ids) + 1 + v.attempt
          /\ InLineage(v.row) => Below(v.row, v.row.version) \/ (v.pc = "insert" /\ SlugGone(v.row))
    /\ v.pc = "insert" => v.row.slug # 0
    /\ v.pc = "refused" =>
          FreeSuffixes(v.row.head) = {} \/ \E p \in Stored : Clash(rows[p], v.row)

MakersOK ==
    /\ maker = [m \in Makers |-> maker[m]]
    /\ \A m \in Makers : LocalOK(maker[m])

\* A row that is flushed belongs to a maker about to commit it, and to nobody else.
Owned ==
    \A m \in Makers :
        /\ ~At(m, "commit") => Mine(m) = {}
        /\ At(m, "commit") => \E p \in Ids : Mine(m) = {p} /\ ~rows[p].keys

RoomLeft == Cardinality(Busy) <= Cardinality(Free)

\* The objects the pipeline has put where it stands; the row names none before the end.
Uploaded == [lowres |-> {}, highres |-> {"lowres"}, zip |-> {"lowres", "highres"}, publish |-> Parts, undo |-> {}]
Uploading == {"lowres", "highres", "zip", "publish", "undo"}
FilesOK ==
    /\ files \in [Ids -> SUBSET Parts]
    /\ FilesBehindKeys
    /\ maker[Runner].pc \in Uploading =>
         /\ pub \in Stored /\ ~rows[pub].keys
         /\ Uploaded[maker[Runner].pc] \subseteq files[pub]

PipelineInv == RowsOK /\ MakersOK /\ Owned /\ RoomLeft /\ FilesOK

-----------------------------------------------------------------------------
(* Rows and headlines.                                                      *)

LEMMA Bound == Cardinality(Ids) \in Nat
BY FS_CardinalityType

LEMMA NoRowOK ==
    /\ NoRow \in RowType /\ NoRow.owner = Nobody /\ ~NoRow.keys /\ NoRow.slug = 0
    /\ NoRow.product = NoProduct /\ NoRow.config = "null" /\ NoRow.version = 0
    /\ Idle \in Local /\ Idle.pc = "idle" /\ Idle.row = NoRow /\ Idle.attempt = 0 /\ Idle.pub = 0
<1>1. Original(CHOOSE t \in Titles : TRUE) \in Headlines
  BY DEF Original, Headlines
<1>2. /\ NoRow \in RowType /\ NoRow.owner = Nobody /\ ~NoRow.keys /\ NoRow.slug = 0
      /\ NoRow.product = NoProduct /\ NoRow.config = "null" /\ NoRow.version = 0
  BY <1>1, Bound DEF NoRow, RowType, Configs
<1> HIDE DEF NoRow
<1> QED
  BY <1>2 DEF Idle, Local

\* Two rows with one key are one to the constraints.
LEMMA KeyEnough ==
    ASSUME NEW r, NEW s, SameKey(r, s), NEW t
    PROVE  /\ Slug(r) = Slug(s) /\ InLineage(r) = InLineage(s)
           /\ SameLineage(r, t) = SameLineage(s, t) /\ SameLineage(t, r) = SameLineage(t, s)
           /\ r.version = s.version
BY DEF SameKey, Slug, InLineage, SameLineage

LEMMA LineageFacts ==
    /\ \A r, s : SameLineage(r, s) => SameLineage(s, r) /\ InLineage(r) /\ InLineage(s)
    /\ \A r, s, t : SameLineage(r, s) /\ SameLineage(s, t) => SameLineage(r, t)
    /\ \A r : InLineage(r) => SameLineage(r, r)
BY DEF SameLineage, InLineage

\* What a row keeps when it is flushed, committed or published.
LEMMA RowWith ==
    ASSUME NEW r \in RowType
    PROVE  /\ \A o \in Makers \cup {Nobody} :
                /\ [r EXCEPT !.owner = o] \in RowType /\ SameKey([r EXCEPT !.owner = o], r)
                /\ [r EXCEPT !.owner = o].owner = o /\ [r EXCEPT !.owner = o].keys = r.keys
           /\ [r EXCEPT !.published = TRUE] \in RowType /\ SameKey([r EXCEPT !.published = TRUE], r)
           /\ [r EXCEPT !.published = TRUE].owner = r.owner /\ [r EXCEPT !.published = TRUE].keys = r.keys
           /\ [r EXCEPT !.published = TRUE, !.keys = TRUE] \in RowType
           /\ SameKey([r EXCEPT !.published = TRUE, !.keys = TRUE], r)
           /\ [r EXCEPT !.published = TRUE, !.keys = TRUE].owner = r.owner
BY DEF RowType, SameKey

\* The least of a set of numbers.
LEMMA LeastOf == ASSUME NEW T, T \subseteq Nat, T # {} PROVE Min(T) \in T /\ \A y \in T : Min(T) <= y
<1> DEFINE Smaller == {p \in Nat \X Nat : p[1] < p[2]}
<1>1. IsWellFoundedOn(OpToRel(<, Nat), Nat)
  BY NatLessThanWellFounded
<1>2. OpToRel(<, Nat) = Smaller
  BY DEF OpToRel
<1>3. IsWellFoundedOn(Smaller, Nat)
  BY <1>1, <1>2
<1>4. PICK x \in T : \A y \in T : ~(<<y, x>> \in Smaller)
  BY <1>3, WFMin
<1>5. \A y \in T : x =< y
  <2> SUFFICES ASSUME NEW y \in T, y < x PROVE FALSE
    OBVIOUS
  <2>1. <<y, x>> \in Nat \X Nat /\ <<y, x>>[1] = y /\ <<y, x>>[2] = x
    OBVIOUS
  <2> QED
    BY <1>4, <2>1
<1>6. Min(T) \in T /\ \A y \in T : Min(T) =< y
  BY <1>5 DEF Min
<1> QED
  BY <1>6

\* Committed and flushed rows are taken, and a taken row that is nobody's is committed.
LEMMA Rows ==
    ASSUME RowsOK
    PROVE  /\ Stored \subseteq Taken /\ Taken \subseteq Ids
           /\ \A p \in Ids : p \in Taken <=> rows[p] # NoRow
           /\ \A p \in Ids : p \in Stored <=> rows[p].slug # 0 /\ rows[p].owner = Nobody
           /\ \A p \in Ids : rows[p].owner # Nobody => p \in Taken
           /\ \A p \in Ids : rows[p] \in RowType /\ rows[p].version \in Nat
<1>1. \A p \in Ids : p \in Taken <=> rows[p] # NoRow
  BY DEF Taken, Free
<1>2. \A p \in Ids : rows[p].slug # 0 => rows[p] # NoRow
  BY NoRowOK
<1>3. \A p \in Taken : rows[p].slug # 0
  BY DEF RowsOK
<1>4. \A p \in Ids : rows[p] \in RowType /\ rows[p].version \in Nat
  BY Bound DEF RowsOK, RowType
<1>5. Taken \subseteq Ids
  BY DEF Taken
<1> QED
  BY <1>1, <1>2, <1>3, <1>4, <1>5, NoRowOK DEF Stored

-----------------------------------------------------------------------------
(* What is committed stays.                                                 *)

Grows == \A p \in Stored : p \in Stored' /\ SameKey(rows'[p], rows[p])

LEMMA StillThere ==
    ASSUME Grows
    PROVE  /\ \A row, v : Below(row, v) => Below(row, v)'
           /\ \A row : SlugGone(row) => SlugGone(row)'
           /\ \A h : FreeSuffixes(h)' \subseteq FreeSuffixes(h)
<1>1. ASSUME NEW row, NEW v, Below(row, v) PROVE Below(row, v)'
  <2> SUFFICES ASSUME NEW k \in 1 .. v - 1
               PROVE  \E q \in Stored' : SameLineage(rows'[q], row) /\ rows'[q].version = k
    BY DEF Below
  <2>1. PICK q \in Stored : SameLineage(rows[q], row) /\ rows[q].version = k
    BY <1>1 DEF Below
  <2> QED
    BY <2>1, KeyEnough DEF Grows
<1>2. ASSUME NEW row, SlugGone(row) PROVE SlugGone(row)'
  BY <1>2, KeyEnough DEF Grows, SlugGone
<1>3. ASSUME NEW h PROVE FreeSuffixes(h)' \subseteq FreeSuffixes(h)
  <2>1. \A p \in Stored : p \in Stored' /\ Slug(rows'[p]) = Slug(rows[p])
    BY KeyEnough DEF Grows
  <2> QED
    BY <2>1 DEF FreeSuffixes
<1> QED
  BY <1>1, <1>2, <1>3

LEMMA LocalKept == ASSUME Grows, NEW v, LocalOK(v) PROVE LocalOK(v)'
<1>1. /\ Below(v.row, v.row.version) => Below(v.row, v.row.version)'
      /\ SlugGone(v.row) => SlugGone(v.row)'
      /\ FreeSuffixes(v.row.head)' \subseteq FreeSuffixes(v.row.head)
  BY StillThere
<1>2. \A p \in Stored : Clash(rows[p], v.row) => p \in Stored' /\ Clash(rows'[p], v.row)
  BY KeyEnough DEF Grows, Clash
<1>3. /\ v \in Local
      /\ v.row.owner = Nobody /\ ~v.row.keys
      /\ v.pc \in {"version", "slugs"} => v.attempt = 0
      /\ v.pc \in {"slugs", "insert"} => v.row.version \in 1 .. Cardinality(Ids) + 1 + v.attempt
      /\ v.pc = "insert" => v.row.slug # 0
  BY DEF LocalOK
<1>4. v.pc \in {"slugs", "insert"} /\ InLineage(v.row) =>
        Below(v.row, v.row.version)' \/ (v.pc = "insert" /\ SlugGone(v.row)')
  BY <1>1 DEF LocalOK
<1>5. v.pc = "refused" =>
        FreeSuffixes(v.row.head)' = {} \/ \E p \in Stored' : Clash(rows'[p], v.row)
  BY <1>1, <1>2 DEF LocalOK
<1> QED
  BY <1>3, <1>4, <1>5 DEF LocalOK

\* One maker moves, whatever becomes of the rows that are not committed.
LEMMA OneMaker ==
    ASSUME MakersOK, Grows, NEW m \in Makers, NEW w, maker' = [maker EXCEPT ![m] = w], LocalOK(w)'
    PROVE  MakersOK' /\ maker'[m] = w /\ \A n \in Makers \ {m} : maker'[n] = maker[n]
<1>1. maker'[m] = w /\ \A n \in Makers \ {m} : maker'[n] = maker[n]
  BY DEF MakersOK
<1>2. maker' = [n \in Makers |-> maker'[n]]
  BY DEF MakersOK
<1>3. \A n \in Makers : LocalOK(maker[n])'
  <2> SUFFICES ASSUME NEW n \in Makers PROVE LocalOK(maker[n])'
    OBVIOUS
  <2>1. CASE n = m
    BY <1>1, <2>1 DEF LocalOK
  <2>2. CASE n # m
    <3> PICK v : v = maker[n]
      OBVIOUS
    <3>1. LocalOK(v)' /\ maker'[n] = v
      BY <1>1, <2>2, LocalKept DEF MakersOK
    <3> QED
      BY <3>1 DEF LocalOK
  <2> QED
    BY <2>1, <2>2
<1> QED
  BY <1>1, <1>2, <1>3 DEF MakersOK

\* Rows keep their keys or go, and what is committed stays: the constraints still hold.
LEMMA RowsKept ==
    ASSUME RowsOK, rows' \in [Ids -> RowType],
           \A p \in Ids : rows'[p] # NoRow => rows[p] # NoRow /\ SameKey(rows'[p], rows[p]),
           \A p \in Stored : rows'[p] # NoRow /\ rows'[p].owner = Nobody
    PROVE  RowsOK' /\ Grows /\ Free \subseteq Free'
<1>1. Grows
  BY Rows DEF Grows, Stored
<1>2. Taken' \subseteq Taken /\ \A p \in Taken' : SameKey(rows'[p], rows[p])
  BY DEF Taken, Free
<1>3. Free \subseteq Free'
  BY DEF Free
<1>4. \A p \in Taken' : rows'[p].slug # 0 /\ rows'[p].version # 0
  BY <1>2 DEF RowsOK, SameKey
<1>5. SlugsUnique'
  <2>1. \A p, q \in Taken' : Slug(rows'[p]) = Slug(rows'[q]) => p = q
    BY <1>2, KeyEnough DEF RowsOK, SlugsUnique, Taken
  <2> QED
    BY <2>1 DEF SlugsUnique, Taken
<1>6. ASSUME NEW p \in Taken', NEW q \in Taken', SameLineage(rows'[p], rows'[q]), rows'[p].version = rows'[q].version
      PROVE  p = q
  <2>1. SameLineage(rows[p], rows'[q]) /\ SameLineage(rows[p], rows[q])
    BY <1>2, <1>6, KeyEnough
  <2>2. rows[p].version = rows[q].version
    BY <1>2, <1>6 DEF SameKey
  <2> QED
    BY <1>2, <2>1, <2>2 DEF RowsOK
<1>7. ASSUME NEW p \in Taken', InLineage(rows'[p]) PROVE Below(rows[p], rows[p].version)'
  <2> PICK r : r = rows[p]
    OBVIOUS
  <2>1. InLineage(r) /\ Below(r, r.version)
    BY <1>2, <1>7, KeyEnough DEF RowsOK
  <2>2. Below(r, r.version)'
    BY <1>1, <2>1, StillThere
  <2>3. SameKey(rows'[p], r)
    BY <1>2
  <2>4. \A q : SameLineage(rows'[q], rows'[p]) = SameLineage(rows'[q], r)
    BY <2>3, KeyEnough
  <2>5. rows'[p].version = r.version
    BY <2>3 DEF SameKey
  <2> QED
    BY <2>2, <2>4, <2>5 DEF Below
<1>8. RowsOK'
  BY <1>4, <1>5, <1>6, <1>7 DEF RowsOK
<1> QED
  BY <1>1, <1>3, <1>8

-----------------------------------------------------------------------------
(* The version that is tried.                                               *)

\* The greatest of a set of numbers below a bound.
LEMMA GreatestOf ==
    ASSUME NEW b \in Nat, NEW T, T \subseteq 0 .. b, T # {}
    PROVE  Max(T) \in T /\ \A x \in T : x <= Max(T)
<1> DEFINE U == {b - x : x \in T}
<1>1. U \subseteq Nat /\ U # {}
  <2>1. \A x \in T : b - x \in Nat
    OBVIOUS
  <2>2. U \subseteq Nat
    BY <2>1
  <2>3. PICK x \in T : TRUE
    OBVIOUS
  <2>4. b - x \in U
    OBVIOUS
  <2> QED
    BY <2>2, <2>4
<1>2. PICK x \in T : \A y \in T : b - x <= b - y
  <2>1. PICK u \in U : \A w \in U : u <= w
    <3> HIDE DEF U
    <3> QED
      BY <1>1, LeastOf
  <2>2. PICK x \in T : u = b - x
    BY <2>1
  <2>3. \A y \in T : b - y \in U
    OBVIOUS
  <2> QED
    BY <2>1, <2>2, <2>3
<1>3. \A y \in T : x >= y
  BY <1>2
<1>4. Max(T) \in T /\ \A y \in T : Max(T) >= y
  BY <1>3 DEF Max
<1> QED
  BY <1>4

\* One version of a lineage for each row at most.
LEMMA VersionBound ==
    ASSUME NEW row, NEW v \in Nat, Below(row, v + 1)
    PROVE  v <= Cardinality(Ids)
<1> DEFINE Has(k, q) == q \in Stored /\ SameLineage(rows[q], row) /\ rows[q].version = k
           f == [k \in 1 .. v |-> CHOOSE q : Has(k, q)]
<1>1. \A k \in 1 .. v : \E q : Has(k, q)
  BY DEF Below
<1>2. \A k \in 1 .. v : Has(k, f[k])
  <2> SUFFICES ASSUME NEW k \in 1 .. v PROVE Has(k, CHOOSE q : Has(k, q))
    OBVIOUS
  <2> HIDE DEF Has
  <2> QED
    BY <1>1
<1>3. f \in [1 .. v -> Ids]
  BY <1>2 DEF Stored
<1>4. \A j, k \in 1 .. v : f[j] = f[k] => j = k
  <2> HIDE DEF f
  <2> QED
    BY <1>2
<1> HIDE DEF f
<1>5. f \in Injection(1 .. v, Ids)
  BY <1>3, <1>4 DEF Injection, IsInjective
<1>6. Cardinality(1 .. v) <= Cardinality(Ids)
  BY <1>5, FS_Injection
<1> QED
  BY <1>6, FS_Interval, Bound

LEMMA NextVersionOK ==
    ASSUME RowsOK, NEW row
    PROVE  /\ NextVersion(row) \in 1 .. Cardinality(Ids) + 1
           /\ row.product # NoProduct => Below(row, NextVersion(row))
<1> DEFINE Family == {q \in Stored : SameLineage(rows[q], row)}
           T == {0} \cup {rows[p].version : p \in Family}
           b == Cardinality(Ids) + 3
<1>1. b \in Nat
  BY Bound
<1>2. T \subseteq 0 .. b /\ T # {}
  <2>1. \A p \in Family : rows[p].version \in 0 .. b
    BY Rows DEF RowType
  <2> QED
    BY <2>1, <1>1
<1>3. Max(T) \in T
  BY <1>1, <1>2, GreatestOf
<1>4. PICK l : l = Latest(row)
  OBVIOUS
<1>5. l = 0 \/ \E p \in Family : rows[p].version = l
  BY <1>3, <1>4 DEF Latest
<1>6. l \in Nat /\ Below(row, l + 1)
  <2>1. CASE l = 0
    BY <2>1 DEF Below
  <2>2. CASE l # 0
    <3>1. PICK p \in Stored : SameLineage(rows[p], row) /\ rows[p].version = l
      BY <1>5, <2>2
    <3>2. l \in Nat /\ Below(rows[p], l)
      BY <3>1, Rows, LineageFacts DEF RowsOK
    <3>3. ASSUME NEW k \in 1 .. l PROVE \E q \in Stored : SameLineage(rows[q], row) /\ rows[q].version = k
      <4>1. CASE k = l
        BY <3>1, <4>1
      <4>2. CASE k # l
        <5>1. k \in 1 .. l - 1
          BY <3>2, <3>3, <4>2
        <5>2. PICK q \in Stored : SameLineage(rows[q], rows[p]) /\ rows[q].version = k
          BY <3>2, <5>1 DEF Below
        <5> QED
          BY <3>1, <5>2, LineageFacts
      <4> QED
        BY <4>1, <4>2
    <3>4. Below(row, l + 1)
      BY <3>2, <3>3 DEF Below
    <3> QED
      BY <3>2, <3>4
  <2> QED
    BY <2>1, <2>2
<1>7. l <= Cardinality(Ids)
  BY <1>6, VersionBound
<1> QED
  BY <1>4, <1>6, <1>7, Bound DEF NextVersion

-----------------------------------------------------------------------------
(* Steps of a maker that leave the table alone.                             *)

LEMMA FilesKept ==
    ASSUME FilesOK, files' = files, Grows, \A p \in Ids : rows'[p].keys => rows[p].keys,
           maker'[Runner] = maker[Runner] \/ maker'[Runner].pc \notin Uploading
    PROVE  FilesOK'
<1>1. files' \in [Ids -> SUBSET Parts] /\ FilesBehindKeys'
  BY DEF FilesOK, FilesBehindKeys
<1>2. ASSUME maker'[Runner].pc \in Uploading
      PROVE  /\ pub' \in Stored' /\ ~rows'[pub'].keys
             /\ Uploaded[maker'[Runner].pc] \subseteq files'[pub']
  <2>1. maker'[Runner] = maker[Runner] /\ pub' = pub
    BY <1>2 DEF pub
  <2>2. pub \in Stored /\ ~rows[pub].keys /\ Uploaded[maker[Runner].pc] \subseteq files[pub]
    BY <1>2, <2>1 DEF FilesOK
  <2>3. pub \in Ids
    BY <2>2 DEF Stored
  <2> QED
    BY <2>1, <2>2, <2>3 DEF Grows
<1> QED
  BY <1>1, <1>2 DEF FilesOK, Uploaded

LEMMA RoomKept ==
    ASSUME RoomLeft, Busy' \subseteq Busy, Free \subseteq Free'
    PROVE  RoomLeft'
<1>1. IsFiniteSet(Busy) /\ IsFiniteSet(Free')
  <2>1. Busy \subseteq Makers /\ Free' \subseteq Ids
    BY DEF Busy, Free
  <2> QED
    BY <2>1, FS_Subset
<1>2. Cardinality(Busy') <= Cardinality(Busy) /\ Cardinality(Free) <= Cardinality(Free')
  BY <1>1, FS_Subset
<1>3. /\ Cardinality(Busy) \in Nat /\ Cardinality(Busy') \in Nat
      /\ Cardinality(Free) \in Nat /\ Cardinality(Free') \in Nat
  BY <1>1, FS_Subset, FS_CardinalityType
<1> QED
  BY <1>2, <1>3 DEF RoomLeft

Quietly == {"idle", "version", "slugs", "insert", "refused"}

LEMMA Quiet ==
    ASSUME PipelineInv, rows' = rows, files' = files, NEW m \in Makers, NEW w,
           maker' = [maker EXCEPT ![m] = w], LocalOK(w), w.pc \in Quietly, ~At(m, "commit"), RoomLeft'
    PROVE  PipelineInv'
<1>1. Grows
  BY DEF Grows, SameKey, Stored
<1>2. LocalOK(w)'
  BY <1>1, LocalKept
<1>3. MakersOK' /\ maker'[m] = w /\ \A n \in Makers \ {m} : maker'[n] = maker[n]
  BY <1>1, <1>2, OneMaker DEF PipelineInv
<1>4. RowsOK'
  BY DEF PipelineInv, RowsOK, Taken, Free, SlugsUnique, Below, Stored
<1>5. Owned'
  <2>1. \A n \in Makers : Mine(n)' = Mine(n)
    BY DEF Mine
  <2>2. \A n \in Makers : At(n, "commit")' <=> At(n, "commit")
    BY <1>3 DEF At, Quietly
  <2> QED
    BY <2>1, <2>2 DEF PipelineInv, Owned
<1>6. FilesOK'
  <2>1. maker'[Runner] = maker[Runner] \/ maker'[Runner].pc \notin Uploading
    BY <1>3 DEF Quietly, Uploading
  <2> QED
    BY <1>1, <2>1, FilesKept DEF PipelineInv
<1> QED
  BY <1>3, <1>4, <1>5, <1>6 DEF PipelineInv

\* It has not begun on its row, or is done with it.
LEMMA RoomQuiet ==
    ASSUME PipelineInv, rows' = rows, NEW m \in Makers, NEW w, maker' = [maker EXCEPT ![m] = w],
           w.pc \in Quietly, maker[m].pc \in {"version", "slugs", "insert"} \/ w.pc \in {"idle", "refused"}
    PROVE  RoomLeft'
<1>1. maker'[m] = w /\ \A n \in Makers \ {m} : maker'[n] = maker[n]
  BY DEF PipelineInv, MakersOK
<1>2. Busy' \subseteq Busy
  BY <1>1 DEF Busy
<1>3. Free \subseteq Free'
  BY DEF Free
<1> QED
  BY <1>2, <1>3, RoomKept DEF PipelineInv

\* A creation begins with a row of its own to come.
LEMMA BeginsRight ==
    ASSUME PipelineInv, NEW m \in Makers, NEW kind \in {"create", "clone", "pipeline"}, NEW row \in RowType,
           row.owner = Nobody, ~row.keys, NEW pc \in {"version", "slugs"}, Begins(m, kind, row, pc), files' = files,
           pc = "slugs" => row.version = 1
    PROVE  PipelineInv'
<1> DEFINE w == [Idle EXCEPT !.pc = pc, !.kind = kind, !.row = row]
<1>1. /\ w \in Local /\ w.pc = pc /\ w.row = row /\ w.attempt = 0
  BY NoRowOK DEF Local
<1>2. /\ At(m, "idle") /\ Cardinality(Busy) < Cardinality(Free)
      /\ maker' = [maker EXCEPT ![m] = w] /\ rows' = rows
  BY DEF Begins
<1> HIDE DEF w
<1>3. LocalOK(w)
  <2>1. pc = "slugs" => row.version \in 1 .. Cardinality(Ids) + 1 + 0 /\ Below(row, row.version)
    BY Bound DEF Below
  <2> QED
    BY <1>1, <2>1 DEF LocalOK
<1>4. RoomLeft'
  <2>1. maker'[m] = w /\ \A n \in Makers \ {m} : maker'[n] = maker[n]
    BY <1>2 DEF PipelineInv, MakersOK
  <2>2. Busy' = Busy \cup {m} /\ Busy \subseteq Makers /\ m \notin Busy
    BY <1>1, <1>2, <2>1 DEF Busy, At
  <2>3. Cardinality(Busy') = Cardinality(Busy) + 1
    BY <2>2, FS_Subset, FS_AddElement
  <2>4. Free' = Free /\ Free \subseteq Ids
    BY <1>2 DEF Free
  <2>5. Cardinality(Busy) \in Nat /\ Cardinality(Free) \in Nat
    BY <2>2, <2>4, FS_Subset, FS_CardinalityType
  <2> QED
    BY <1>2, <2>3, <2>4, <2>5 DEF RoomLeft
<1>5. w.pc \in Quietly /\ ~At(m, "commit")
  BY <1>1, <1>2 DEF Quietly, At
<1> QED
  BY <1>2, <1>3, <1>4, <1>5, Quiet

LEMMA Creates ==
    ASSUME PipelineInv, NEW m \in Makers, NEW title \in Titles, Create(m, title), files' = files
    PROVE  PipelineInv'
<1> DEFINE row == [NoRow EXCEPT !.head = Original(title), !.version = 1]
<1>1. Original(title) \in Headlines
  BY DEF Original, Headlines
<1>2. row \in RowType /\ row.owner = Nobody /\ ~row.keys /\ row.version = 1
  <2>1. 1 \in 0 .. Cardinality(Ids) + 3
    BY Bound
  <2> QED
    BY <1>1, <2>1, NoRowOK DEF RowType
<1>3. Begins(m, "create", row, "slugs")
  BY DEF Create
<1> HIDE DEF row
<1> QED
  BY <1>2, <1>3, BeginsRight

LEMMA Clones ==
    ASSUME PipelineInv, NEW m \in Makers, NEW p \in Ids, Clone(m, p), files' = files
    PROVE  PipelineInv'
<1> DEFINE row == [NoRow EXCEPT !.head = CopyOf(rows[p].head), !.product = rows[p].product, !.config = "sliced"]
<1>1. rows[p] \in RowType
  BY DEF PipelineInv, RowsOK
<1>2. CopyOf(rows[p].head) \in Headlines /\ rows[p].product \in Products \cup {NoProduct}
  BY <1>1 DEF RowType, CopyOf, Headlines
<1>3. row \in RowType /\ row.owner = Nobody /\ ~row.keys
  BY <1>2, NoRowOK DEF RowType, Configs
<1>4. Begins(m, "clone", row, "version")
  BY DEF Clone
<1>5. PICK r : r = row
  OBVIOUS
<1> HIDE DEF row
<1> QED
  BY <1>3, <1>4, <1>5, BeginsRight

LEMMA Generates ==
    ASSUME PipelineInv, NEW title \in Titles, NEW product \in Products \cup {NoProduct},
           Generate(title, product), files' = files
    PROVE  PipelineInv'
<1> DEFINE row == [NoRow EXCEPT !.head = Original(title), !.product = product, !.config = "full"]
<1>1. Original(title) \in Headlines
  BY DEF Original, Headlines
<1>2. row \in RowType /\ row.owner = Nobody /\ ~row.keys
  BY <1>1, NoRowOK DEF RowType, Configs
<1>3. Begins(Runner, "pipeline", row, "version")
  BY DEF Generate
<1> HIDE DEF row
<1> QED
  BY <1>2, <1>3, BeginsRight

LEMMA ReadsVersion ==
    ASSUME PipelineInv, NEW m \in Makers, ReadVersion(m), files' = files
    PROVE  PipelineInv'
<1>1. PICK v : v = maker[m]
  OBVIOUS
<1>2. PICK n : n = NextVersion(v.row)
  OBVIOUS
<1> DEFINE row == [v.row EXCEPT !.version = n]
           w == [v EXCEPT !.pc = "slugs", !.row = row]
<1>3. LocalOK(v) /\ v \in Local
  BY <1>1 DEF PipelineInv, MakersOK, LocalOK
<1>4. /\ v.pc = "version" /\ rows' = rows /\ maker' = [maker EXCEPT ![m] = w]
  BY <1>1, <1>2 DEF ReadVersion, At, Goes
<1>5. n \in 1 .. Cardinality(Ids) + 1 /\ (v.row.product # NoProduct => Below(v.row, n))
  BY <1>2, NextVersionOK DEF PipelineInv
<1>6. /\ row \in RowType /\ row.version = n /\ row.owner = v.row.owner /\ row.keys = v.row.keys
      /\ row.head = v.row.head /\ row.product = v.row.product /\ row.config = v.row.config
  BY <1>3, <1>5, Bound DEF Local, RowType
<1> HIDE DEF row
<1>7. w \in Local /\ w.pc = "slugs" /\ w.row = row /\ w.attempt = v.attempt
  BY <1>3, <1>6 DEF Local
<1> HIDE DEF w
<1>8. LocalOK(w)
  <2>1. v.row.owner = Nobody /\ ~v.row.keys /\ v.attempt = 0
    BY <1>3, <1>4 DEF LocalOK
  <2>2. InLineage(row) => Below(row, n)
    BY <1>5, <1>6 DEF InLineage, Below, SameLineage
  <2>3. n \in 1 .. Cardinality(Ids) + 1 + 0
    BY <1>5, Bound
  <2> QED
    BY <1>6, <1>7, <2>1, <2>2, <2>3 DEF LocalOK
<1>9. w.pc \in Quietly /\ ~At(m, "commit")
  BY <1>1, <1>4, <1>7 DEF Quietly, At
<1>10. RoomLeft'
  BY <1>1, <1>4, <1>9, RoomQuiet
<1> QED
  BY <1>4, <1>8, <1>9, <1>10, Quiet

\* What is refused had a reason.
LEMMA Refuses ==
    ASSUME PipelineInv, NEW m \in Makers, rows' = rows, files' = files, Refused(m),
           maker[m].pc \in {"version", "slugs", "insert"},
           FreeSuffixes(maker[m].row.head) = {} \/ \E p \in Stored : Clash(rows[p], maker[m].row)
    PROVE  PipelineInv'
<1>1. PICK v : v = maker[m]
  OBVIOUS
<1> DEFINE w == [v EXCEPT !.pc = "refused"]
<1>2. LocalOK(v) /\ v \in Local
  BY <1>1 DEF PipelineInv, MakersOK, LocalOK
<1>3. w \in Local /\ w.pc = "refused" /\ w.row = v.row
  BY <1>2 DEF Local
<1>4. maker' = [maker EXCEPT ![m] = w]
  BY <1>1 DEF Refused
<1> HIDE DEF w
<1>5. LocalOK(w)
  BY <1>1, <1>2, <1>3 DEF LocalOK
<1>6. w.pc \in Quietly /\ ~At(m, "commit") /\ w.pc \in {"idle", "refused"}
  BY <1>3 DEF Quietly, At
<1>7. RoomLeft'
  BY <1>4, <1>6, RoomQuiet
<1> QED
  BY <1>4, <1>5, <1>6, <1>7, Quiet

LEMMA ReadsSlugs ==
    ASSUME PipelineInv, NEW m \in Makers, ReadSlugs(m), files' = files
    PROVE  PipelineInv'
<1>1. PICK v : v = maker[m]
  OBVIOUS
<1>2. PICK free : free = FreeSuffixes(v.row.head)
  OBVIOUS
<1>3. LocalOK(v) /\ v \in Local
  BY <1>1 DEF PipelineInv, MakersOK, LocalOK
<1>4. v.pc = "slugs" /\ rows' = rows
  BY <1>1 DEF ReadSlugs, At
<1>5. CASE free = {}
  <2>1. Refused(m)
    BY <1>1, <1>2, <1>5 DEF ReadSlugs
  <2> QED
    BY <1>1, <1>2, <1>4, <1>5, <2>1, Refuses
<1>6. CASE free # {}
  <2> DEFINE row == [v.row EXCEPT !.slug = Min(free)]
             w == [v EXCEPT !.pc = "insert", !.row = row]
  <2>1. Min(free) \in 1 .. MaxSuffix
    <3>1. free \subseteq 1 .. MaxSuffix /\ free \subseteq Nat
      BY <1>2 DEF FreeSuffixes
    <3> QED
      BY <1>6, <3>1, LeastOf
  <2>2. maker' = [maker EXCEPT ![m] = w]
    BY <1>1, <1>2, <1>6 DEF ReadSlugs, Goes
  <2>3. /\ row \in RowType /\ row.slug # 0 /\ row.version = v.row.version /\ row.owner = v.row.owner
        /\ row.keys = v.row.keys /\ row.head = v.row.head /\ row.product = v.row.product /\ row.config = v.row.config
    BY <1>3, <2>1 DEF Local, RowType
  <2> HIDE DEF row
  <2>4. w \in Local /\ w.pc = "insert" /\ w.row = row /\ w.attempt = v.attempt
    BY <1>3, <2>3 DEF Local
  <2> HIDE DEF w
  <2>5. LocalOK(w)
    <3>1. /\ v.row.owner = Nobody /\ ~v.row.keys /\ v.row.version \in 1 .. Cardinality(Ids) + 1 + v.attempt
          /\ InLineage(v.row) => Below(v.row, v.row.version)
      BY <1>3, <1>4 DEF LocalOK
    <3>2. InLineage(row) => Below(row, row.version)
      BY <2>3, <3>1 DEF InLineage, Below, SameLineage
    <3> QED
      BY <2>3, <2>4, <3>1, <3>2 DEF LocalOK
  <2>6. w.pc \in Quietly /\ ~At(m, "commit")
    BY <1>1, <1>4, <2>4 DEF Quietly, At
  <2>7. RoomLeft'
    BY <1>1, <1>4, <2>2, <2>6, RoomQuiet
  <2> QED
    BY <1>4, <2>2, <2>5, <2>6, <2>7, Quiet
<1> QED
  BY <1>5, <1>6

LEMMA RivalsClash == \A row, p : p \in Rivals(row) <=> p \in Taken /\ Clash(rows[p], row)
BY DEF Rivals, Clash, Taken

\* A rival that is committed took the version, or the slug.
LEMMA RivalsCommitted ==
    ASSUME PipelineInv, NEW m \in Makers, MayInsert(m), Rivals(maker[m].row) # {}
    PROVE  \E p \in Stored : Clash(rows[p], maker[m].row)
<1>1. PICK p \in Rivals(maker[m].row) : TRUE
  OBVIOUS
<1>2. p \in Ids \ Free /\ Clash(rows[p], maker[m].row)
  BY <1>1, RivalsClash DEF Taken
<1>3. rows[p].owner = Nobody
  BY <1>1 DEF MayInsert
<1>4. p \in Stored
  BY <1>2, <1>3 DEF Stored, Free
<1> QED
  BY <1>2, <1>4

LEMMA Tries ==
    ASSUME PipelineInv, NEW m \in Makers, NextAttempt(m), files' = files
    PROVE  PipelineInv'
<1>1. PICK v : v = maker[m]
  OBVIOUS
<1> DEFINE row == [v.row EXCEPT !.version = v.row.version + 1]
           w == [v EXCEPT !.attempt = v.attempt + 1, !.row = row]
<1>2. LocalOK(v) /\ v \in Local
  BY <1>1 DEF PipelineInv, MakersOK, LocalOK
<1>3. /\ v.pc = "insert" /\ v.attempt < 2 /\ rows' = rows /\ maker' = [maker EXCEPT ![m] = w]
  BY <1>1 DEF NextAttempt, MayInsert, At
<1>4. v.attempt \in 0 .. 1 /\ v.row \in RowType
  BY <1>2, <1>3 DEF Local
<1>5. /\ v.row.version \in 1 .. Cardinality(Ids) + 1 + v.attempt /\ v.row.owner = Nobody /\ ~v.row.keys
      /\ v.row.slug # 0 /\ (InLineage(v.row) => Below(v.row, v.row.version) \/ SlugGone(v.row))
  BY <1>2, <1>3 DEF LocalOK
<1>6. /\ v.row.version + 1 \in 0 .. Cardinality(Ids) + 3 /\ v.row.version + 1 \in 1 .. Cardinality(Ids) + 1 + (v.attempt + 1)
      /\ v.row.version \in Nat
  BY <1>4, <1>5, Bound
<1>7. PICK p \in Stored : Clash(rows[p], v.row)
  BY <1>1, RivalsCommitted DEF NextAttempt
<1>8. InLineage(v.row) => Below(v.row, v.row.version + 1) \/ SlugGone(v.row)
  <2> SUFFICES ASSUME InLineage(v.row), ~SlugGone(v.row) PROVE Below(v.row, v.row.version + 1)
    OBVIOUS
  <2>1. Below(v.row, v.row.version) /\ SameLineage(rows[p], v.row) /\ rows[p].version = v.row.version
    BY <1>5, <1>7 DEF Clash, SlugGone
  <2> SUFFICES ASSUME NEW k \in 1 .. v.row.version
               PROVE  \E q \in Stored : SameLineage(rows[q], v.row) /\ rows[q].version = k
    BY <1>6 DEF Below
  <2>2. CASE k = v.row.version
    BY <2>1, <2>2
  <2>3. CASE k # v.row.version
    <3>1. k \in 1 .. v.row.version - 1
      BY <1>6, <2>3
    <3> QED
      BY <2>1, <3>1 DEF Below
  <2> QED
    BY <2>2, <2>3
<1>9. /\ row \in RowType /\ row.version = v.row.version + 1 /\ row.owner = v.row.owner /\ row.keys = v.row.keys
      /\ row.slug = v.row.slug /\ row.head = v.row.head /\ row.product = v.row.product /\ row.config = v.row.config
  BY <1>4, <1>6 DEF RowType
<1> HIDE DEF row
<1>10. w \in Local /\ w.pc = "insert" /\ w.row = row /\ w.attempt = v.attempt + 1
  <2>1. v.attempt + 1 \in 0 .. 2
    BY <1>4
  <2>2. w.pc = v.pc /\ w.row = row /\ w.attempt = v.attempt + 1 /\ w \in Local
    BY <1>2, <1>9, <2>1 DEF Local
  <2> QED
    BY <1>3, <2>2
<1> HIDE DEF w
<1>11. LocalOK(w)
  <2>1. InLineage(row) => Below(row, v.row.version + 1) \/ SlugGone(row)
    BY <1>8, <1>9 DEF InLineage, Below, SameLineage, SlugGone, Slug
  <2> QED
    BY <1>5, <1>6, <1>9, <1>10, <2>1 DEF LocalOK
<1>12. w.pc \in Quietly /\ ~At(m, "commit")
  BY <1>1, <1>3, <1>10 DEF Quietly, At
<1>13. RoomLeft'
  BY <1>1, <1>3, <1>12, RoomQuiet
<1> QED
  BY <1>3, <1>11, <1>12, <1>13, Quiet

LEMMA IsRefused ==
    ASSUME PipelineInv, NEW m \in Makers, Collides(m), files' = files
    PROVE  PipelineInv'
<1>1. maker[m].pc \in {"version", "slugs", "insert"} /\ rows' = rows /\ Refused(m)
  BY DEF Collides, MayInsert, At
<1>2. \E p \in Stored : Clash(rows[p], maker[m].row)
  BY RivalsCommitted DEF Collides
<1> QED
  BY <1>1, <1>2, Refuses

LEMMA IdleOK == LocalOK(Idle)
BY NoRowOK DEF LocalOK

LEMMA Answers ==
    ASSUME PipelineInv, NEW m \in Makers, Answer(m), files' = files
    PROVE  PipelineInv'
<1>1. PICK w : w = Idle
  OBVIOUS
<1>2. maker' = [maker EXCEPT ![m] = w] /\ rows' = rows /\ ~At(m, "commit")
  BY <1>1 DEF Answer, At
<1>3. LocalOK(w) /\ w.pc \in Quietly /\ w.pc \in {"idle", "refused"}
  BY <1>1, IdleOK, NoRowOK DEF Quietly
<1>4. RoomLeft'
  BY <1>2, <1>3, RoomQuiet
<1> QED
  BY <1>2, <1>3, <1>4, Quiet

\* The first free id is the row's, and the constraints hold with it.
LEMMA Inserts ==
    ASSUME PipelineInv, NEW m \in Makers, Insert(m), files' = files
    PROVE  PipelineInv'
<1>1. PICK v : v = maker[m]
  OBVIOUS
<1>2. PICK f : f = Min(Free)
  OBVIOUS
<1> DEFINE row == [v.row EXCEPT !.owner = m]
           w == [v EXCEPT !.pc = "commit"]
<1>3. LocalOK(v) /\ v \in Local
  BY <1>1 DEF PipelineInv, MakersOK, LocalOK
<1>4. /\ v.pc = "insert" /\ Rivals(v.row) = {}
      /\ rows' = [rows EXCEPT ![f] = row] /\ maker' = [maker EXCEPT ![m] = w]
  BY <1>1, <1>2 DEF Insert, MayInsert, At
<1>5. /\ v.row.version \in Nat \ {0} /\ v.row \in RowType /\ ~v.row.keys
      /\ v.row.slug # 0 /\ (InLineage(v.row) => Below(v.row, v.row.version) \/ SlugGone(v.row))
  <2>1. v.row.version \in 1 .. Cardinality(Ids) + 1 + v.attempt /\ v.row \in RowType
    BY <1>3, <1>4 DEF LocalOK, Local
  <2>2. v.row.version \in Nat \ {0}
    BY <2>1, Bound DEF RowType
  <2> QED
    BY <1>3, <1>4, <2>1, <2>2 DEF LocalOK
<1>6. row \in RowType /\ SameKey(row, v.row) /\ row.owner = m /\ ~row.keys
  <2>1. m \in Makers \cup {Nobody} /\ v.row \in RowType
    BY <1>5
  <2>2. row \in RowType /\ SameKey(row, v.row) /\ row.owner = m /\ row.keys = v.row.keys
    BY <2>1, RowWith
  <2> QED
    BY <1>5, <2>2
<1> HIDE DEF row
<1>7. w \in Local /\ w.pc = "commit" /\ w.row = v.row /\ w.attempt = v.attempt
  BY <1>3 DEF Local
<1> HIDE DEF w
<1>8. /\ m \in Busy /\ IsFiniteSet(Busy) /\ IsFiniteSet(Free) /\ Cardinality(Busy) \in Nat /\ Cardinality(Free) \in Nat
  <2>1. m \in Busy /\ Busy \subseteq Makers /\ Free \subseteq Ids
    BY <1>1, <1>4 DEF Busy, Free
  <2> QED
    BY <2>1, FS_Subset, FS_CardinalityType
<1>9. f \in Free /\ f \in Ids
  <2>1. Cardinality(Busy) # 0
    BY <1>8, FS_EmptySet
  <2>2. Free # {}
    BY <1>8, <2>1, FS_EmptySet DEF PipelineInv, RoomLeft
  <2>3. Free \subseteq Ids /\ Free \subseteq Nat
    BY DEF Free
  <2> QED
    BY <1>2, <2>2, <2>3, LeastOf
<1>10. m # Nobody
  OBVIOUS
<1>11. rows'[f] = row /\ row # NoRow /\ rows[f] = NoRow /\ \A p \in Ids \ {f} : rows'[p] = rows[p]
  BY <1>4, <1>5, <1>6, <1>9, NoRowOK DEF SameKey, PipelineInv, RowsOK, Free
<1>12. Stored' = Stored /\ f \notin Stored /\ Grows
  BY <1>6, <1>10, <1>11 DEF Stored, Grows, SameKey
<1>13. Taken' = Taken \cup {f} /\ f \notin Taken /\ Taken \subseteq Ids /\ Free' = Free \ {f}
  BY <1>9, <1>11 DEF Taken, Free
<1>14. \A p \in Taken : Slug(rows[p]) # Slug(row) /\ ~(SameLineage(rows[p], row) /\ rows[p].version = row.version)
  <2>1. \A p \in Taken : Slug(rows[p]) # Slug(v.row) /\ ~(SameLineage(rows[p], v.row) /\ rows[p].version = v.row.version)
    BY <1>4 DEF Rivals, Taken
  <2> QED
    BY <1>6, <2>1, KeyEnough
<1>15. \A p \in Taken : rows'[p] = rows[p]
  BY <1>11, <1>13
<1>16. RowsOK'
  <2>1. rows' \in [Ids -> RowType]
    BY <1>4, <1>6 DEF PipelineInv, RowsOK
  <2>2. \A p \in Taken' : rows'[p].slug # 0 /\ rows'[p].version # 0
    BY <1>5, <1>6, <1>11, <1>13, <1>15 DEF PipelineInv, RowsOK, SameKey
  <2>3. \A p, q \in Taken : Slug(rows[p]) = Slug(rows[q]) => p = q
    BY DEF PipelineInv, RowsOK, SlugsUnique, Taken
  <2>4. \A p, q \in Taken' : Slug(rows'[p]) = Slug(rows'[q]) => p = q
    <3> SUFFICES ASSUME NEW p \in Taken', NEW q \in Taken', Slug(rows'[p]) = Slug(rows'[q]) PROVE p = q
      OBVIOUS
    <3>1. CASE p \in Taken /\ q \in Taken
      BY <1>15, <2>3, <3>1
    <3>2. CASE p = f /\ q \in Taken
      BY <1>11, <1>14, <1>15, <3>2
    <3>3. CASE p \in Taken /\ q = f
      BY <1>11, <1>14, <1>15, <3>3
    <3> QED
      BY <1>13, <3>1, <3>2, <3>3
  <2>5. \A p, q \in Taken : SameLineage(rows[p], rows[q]) /\ rows[p].version = rows[q].version => p = q
    BY DEF PipelineInv, RowsOK
  <2>6. \A p, q \in Taken' : SameLineage(rows'[p], rows'[q]) /\ rows'[p].version = rows'[q].version => p = q
    <3> SUFFICES ASSUME NEW p \in Taken', NEW q \in Taken',
                        SameLineage(rows'[p], rows'[q]), rows'[p].version = rows'[q].version
                 PROVE  p = q
      OBVIOUS
    <3>1. CASE p \in Taken /\ q \in Taken
      BY <1>15, <2>5, <3>1
    <3>2. CASE p = f /\ q \in Taken
      <4>1. rows'[p] = row /\ rows'[q] = rows[q]
        BY <1>11, <1>15, <3>2
      <4>2. SameLineage(rows[q], row) /\ rows[q].version = row.version
        BY <4>1, LineageFacts
      <4> QED
        BY <1>14, <3>2, <4>2
    <3>3. CASE p \in Taken /\ q = f
      BY <1>11, <1>14, <1>15, <3>3
    <3> QED
      BY <1>13, <3>1, <3>2, <3>3
  <2>7. ASSUME NEW p \in Taken', InLineage(rows'[p]) PROVE Below(rows[p], rows[p].version)'
    <3>1. CASE p \in Taken
      <4> PICK r : r = rows[p]
        OBVIOUS
      <4>1. Below(r, r.version) /\ rows'[p] = r
        BY <1>15, <2>7, <3>1 DEF PipelineInv, RowsOK
      <4>2. Below(r, r.version)'
        BY <1>12, <4>1, StillThere
      <4> QED
        BY <4>1, <4>2 DEF Below
    <3>2. CASE p = f
      <4>1. ~SlugGone(v.row)
        <5>1. Stored \subseteq Taken
          BY Rows DEF PipelineInv
        <5> QED
          BY <1>6, <1>14, <5>1, KeyEnough DEF SlugGone
      <4>2. Below(v.row, v.row.version)
        BY <1>5, <1>6, <1>11, <2>7, <3>2, <4>1, KeyEnough
      <4>3. Below(v.row, v.row.version)'
        BY <1>12, <4>2, StillThere
      <4>4. rows'[p].version = v.row.version /\ \A q : SameLineage(rows'[q], rows'[p]) = SameLineage(rows'[q], v.row)
        BY <1>6, <1>11, <3>2, KeyEnough
      <4> QED
        BY <4>3, <4>4 DEF Below
    <3> QED
      BY <1>13, <3>1, <3>2
  <2>8. SlugsUnique'
    BY <2>4 DEF SlugsUnique, Taken
  <2> QED
    BY <2>1, <2>2, <2>6, <2>7, <2>8 DEF RowsOK
<1>17. MakersOK' /\ maker'[m] = w /\ \A n \in Makers \ {m} : maker'[n] = maker[n]
  <2>1. LocalOK(w)
    BY <1>3, <1>7 DEF LocalOK
  <2>2. LocalOK(w)'
    BY <1>12, <2>1, LocalKept
  <2> QED
    BY <1>4, <1>12, <2>2, OneMaker DEF PipelineInv
<1>18. Owned'
  <2>1. ASSUME NEW n \in Makers \ {m} PROVE Mine(n)' = Mine(n) /\ (At(n, "commit")' <=> At(n, "commit"))
    <3>1. \A p \in Ids : rows'[p].owner = n <=> rows[p].owner = n
      BY <1>6, <1>11, NoRowOK
    <3>2. Mine(n)' = Mine(n)
      BY <3>1 DEF Mine
    <3> QED
      BY <1>17, <3>2 DEF At
  <2>2. Mine(m) = {}
    BY <1>1, <1>4 DEF PipelineInv, Owned, At
  <2>3. Mine(m)' = {f}
    <3>1. \A p \in Ids : rows[p].owner # m
      BY <2>2 DEF Mine
    <3>2. \A p \in Ids : rows'[p].owner = m <=> p = f
      BY <1>6, <1>11, <3>1
    <3> QED
      BY <1>9, <3>2 DEF Mine
  <2>4. At(m, "commit")'
    BY <1>7, <1>17 DEF At
  <2>5. \A n \in Makers \ {m}, p \in Ids : Mine(n) = {p} => rows'[p] = rows[p]
    BY <1>11, NoRowOK DEF Mine
  <2>6. ASSUME NEW n \in Makers \ {m}
        PROVE  /\ ~At(n, "commit")' => Mine(n)' = {}
               /\ At(n, "commit")' => \E p \in Ids : Mine(n)' = {p} /\ ~rows'[p].keys
    BY <2>1, <2>5 DEF PipelineInv, Owned
  <2> QED
    BY <1>6, <1>9, <1>11, <2>3, <2>4, <2>6 DEF Owned
<1>19. RoomLeft'
  <2>1. Busy' = Busy \ {m}
    BY <1>7, <1>17 DEF Busy
  <2>2. Cardinality(Busy \ {m}) = Cardinality(Busy) - 1 /\ Cardinality(Free \ {f}) = Cardinality(Free) - 1
    BY <1>8, <1>9, FS_RemoveElement
  <2>3. Cardinality(Busy) <= Cardinality(Free)
    BY DEF PipelineInv, RoomLeft
  <2> QED
    BY <1>8, <1>13, <2>1, <2>2, <2>3 DEF RoomLeft
<1>20. FilesOK'
  <2>1. \A p \in Ids : rows'[p].keys => rows[p].keys
    BY <1>6, <1>11
  <2>2. maker'[Runner] = maker[Runner] \/ maker'[Runner].pc \notin Uploading
    BY <1>7, <1>17 DEF Uploading
  <2> QED
    BY <1>12, <2>1, <2>2, FilesKept DEF PipelineInv
<1> QED
  BY <1>16, <1>17, <1>18, <1>19, <1>20 DEF PipelineInv

-----------------------------------------------------------------------------
(* Commits, rollbacks and what follows them.                                *)

\* A maker is done with its row: it is committed or gone.
LEMMA Leaves ==
    ASSUME PipelineInv, NEW m \in Makers, NEW w, maker' = [maker EXCEPT ![m] = w], LocalOK(w),
           w.pc \notin {"version", "slugs", "insert", "commit"}, rows' \in [Ids -> RowType],
           \A p \in Ids : rows'[p] # NoRow => rows[p] # NoRow /\ SameKey(rows'[p], rows[p]),
           \A p \in Stored : rows'[p] # NoRow,
           \A p \in Ids : rows[p].owner \in {m, Nobody} => rows'[p].owner = Nobody,
           \A p \in Ids : rows[p].owner \notin {m, Nobody} => rows'[p] = rows[p]
    PROVE  /\ RowsOK' /\ MakersOK' /\ Owned' /\ RoomLeft' /\ Grows
           /\ maker'[m] = w /\ \A n \in Makers \ {m} : maker'[n] = maker[n]
<1>1. \A p \in Stored : rows'[p] # NoRow /\ rows'[p].owner = Nobody
  BY DEF Stored
<1>2. RowsOK' /\ Grows /\ Free \subseteq Free'
  BY <1>1, RowsKept DEF PipelineInv
<1>3. LocalOK(w)'
  BY <1>2, LocalKept
<1>4. MakersOK' /\ maker'[m] = w /\ \A n \in Makers \ {m} : maker'[n] = maker[n]
  BY <1>2, <1>3, OneMaker DEF PipelineInv
<1>5. RoomLeft'
  <2>1. Busy' \subseteq Busy
    BY <1>4 DEF Busy
  <2> QED
    BY <1>2, <2>1, RoomKept DEF PipelineInv
<1>6. Owned'
  <2>1. Mine(m)' = {} /\ ~At(m, "commit")'
    <3>1. \A p \in Ids : rows'[p].owner # m
      <4> SUFFICES ASSUME NEW p \in Ids PROVE rows'[p].owner # m
        OBVIOUS
      <4>1. CASE rows[p].owner \in {m, Nobody}
        BY <4>1
      <4>2. CASE rows[p].owner \notin {m, Nobody}
        BY <4>2
      <4> QED
        BY <4>1, <4>2
    <3> QED
      BY <1>4, <3>1 DEF Mine, At
  <2>2. ASSUME NEW n \in Makers \ {m}
        PROVE  /\ ~At(n, "commit")' => Mine(n)' = {}
               /\ At(n, "commit")' => \E p \in Ids : Mine(n)' = {p} /\ ~rows'[p].keys
    <3>1. \A p \in Ids : rows'[p].owner = n <=> rows[p].owner = n
      BY <2>2
    <3>2. Mine(n)' = Mine(n)
      BY <3>1 DEF Mine
    <3>3. \A p \in Mine(n) : rows'[p] = rows[p]
      BY <2>2 DEF Mine
    <3>4. At(n, "commit")' <=> At(n, "commit")
      BY <1>4 DEF At
    <3> QED
      BY <3>2, <3>3, <3>4 DEF PipelineInv, Owned
  <2> QED
    BY <2>1, <2>2 DEF Owned
<1> QED
  BY <1>2, <1>4, <1>5, <1>6

LEMMA RowsCommitted ==
    ASSUME PipelineInv, NEW m \in Makers, rows' = Committed(m)
    PROVE  /\ rows' \in [Ids -> RowType]
           /\ \A p \in Ids : rows'[p] # NoRow => rows[p] # NoRow /\ SameKey(rows'[p], rows[p])
           /\ \A p \in Stored : rows'[p] # NoRow
           /\ \A p \in Ids : rows[p].owner \in {m, Nobody} => rows'[p].owner = Nobody
           /\ \A p \in Ids : rows[p].owner \notin {m, Nobody} => rows'[p] = rows[p]
           /\ \A p \in Ids : rows'[p].keys = rows[p].keys
<1>1. \A p \in Ids : rows[p] \in RowType
  BY DEF PipelineInv, RowsOK
<1>2. \A p \in Ids : rows'[p] = IF rows[p].owner = m THEN [rows[p] EXCEPT !.owner = Nobody] ELSE rows[p]
  BY DEF Committed, Mine
<1>3. ASSUME NEW p \in Ids
      PROVE  /\ rows'[p] \in RowType /\ SameKey(rows'[p], rows[p]) /\ rows'[p].keys = rows[p].keys
             /\ rows[p].owner \in {m, Nobody} => rows'[p].owner = Nobody
             /\ rows[p].owner # m => rows'[p] = rows[p]
  <2>1. CASE rows[p].owner = m
    <3>1. rows'[p] = [rows[p] EXCEPT !.owner = Nobody]
      BY <1>2, <2>1
    <3>2. PICK r \in RowType : r = rows[p]
      BY <1>1
    <3>3. [r EXCEPT !.owner = Nobody] \in RowType /\ SameKey([r EXCEPT !.owner = Nobody], r)
      BY RowWith
    <3>4. [r EXCEPT !.owner = Nobody].owner = Nobody /\ [r EXCEPT !.owner = Nobody].keys = r.keys
      BY RowWith
    <3> QED
      BY <2>1, <3>1, <3>2, <3>3, <3>4
  <2>2. CASE rows[p].owner # m
    <3>1. rows'[p] = rows[p]
      BY <1>2, <2>2
    <3> QED
      BY <1>1, <2>2, <3>1 DEF SameKey
  <2> QED
    BY <2>1, <2>2
<1>4. rows' = [p \in Ids |-> rows'[p]]
  BY DEF Committed
<1>5. m # Nobody
  OBVIOUS
<1>6. \A p \in Ids : rows'[p] # NoRow => rows[p] # NoRow
  BY <1>3, <1>5, NoRowOK
<1>7. \A p \in Stored : rows'[p] # NoRow
  BY <1>3, <1>5 DEF Stored
<1> QED
  BY <1>3, <1>4, <1>5, <1>6, <1>7

LEMMA Commits ==
    ASSUME PipelineInv, NEW m \in Makers, Commit(m), files' = files
    PROVE  PipelineInv'
<1>1. PICK w : w = Idle
  OBVIOUS
<1>2. maker' = [maker EXCEPT ![m] = w] /\ rows' = Committed(m)
  BY <1>1 DEF Commit
<1>3. LocalOK(w) /\ w.pc = "idle"
  BY <1>1, IdleOK, NoRowOK
<1>4. /\ RowsOK' /\ MakersOK' /\ Owned' /\ RoomLeft' /\ Grows
      /\ maker'[m] = w /\ \A n \in Makers \ {m} : maker'[n] = maker[n]
  BY <1>2, <1>3, RowsCommitted, Leaves
<1>5. FilesOK'
  <2>1. maker'[Runner] = maker[Runner] \/ maker'[Runner].pc \notin Uploading
    BY <1>3, <1>4 DEF Uploading
  <2> QED
    BY <1>2, <1>4, <2>1, RowsCommitted, FilesKept DEF PipelineInv
<1> QED
  BY <1>4, <1>5 DEF PipelineInv

LEMMA Aborts ==
    ASSUME PipelineInv, NEW m \in Makers, Abort(m), files' = files
    PROVE  PipelineInv'
<1>1. PICK w : w = Idle
  OBVIOUS
<1>2. maker' = [maker EXCEPT ![m] = w] /\ rows' = RolledBack(m)
  BY <1>1 DEF Abort
<1>3. LocalOK(w) /\ w.pc = "idle"
  BY <1>1, IdleOK, NoRowOK
<1>4. \A p \in Ids : rows'[p] = IF rows[p].owner = m THEN NoRow ELSE rows[p]
  BY <1>2 DEF RolledBack, Mine
<1>5. rows \in [Ids -> RowType] /\ m # Nobody
  BY DEF PipelineInv, RowsOK
<1>6. rows' \in [Ids -> RowType]
  BY <1>2, <1>5, NoRowOK DEF RolledBack
<1>7. \A p \in Ids : rows'[p] # NoRow => rows'[p] = rows[p]
  BY <1>4
<1>8. /\ \A p \in Ids : rows'[p] # NoRow => rows[p] # NoRow /\ SameKey(rows'[p], rows[p])
      /\ \A p \in Stored : rows'[p] # NoRow
      /\ \A p \in Ids : rows[p].owner \in {m, Nobody} => rows'[p].owner = Nobody
      /\ \A p \in Ids : rows[p].owner \notin {m, Nobody} => rows'[p] = rows[p]
      /\ \A p \in Ids : rows'[p].keys => rows[p].keys
  BY <1>4, <1>5, <1>7, NoRowOK DEF SameKey, Stored
<1>9. /\ RowsOK' /\ MakersOK' /\ Owned' /\ RoomLeft' /\ Grows
      /\ maker'[m] = w /\ \A n \in Makers \ {m} : maker'[n] = maker[n]
  BY <1>2, <1>3, <1>6, <1>8, Leaves
<1>10. FilesOK'
  <2>1. maker'[Runner] = maker[Runner] \/ maker'[Runner].pc \notin Uploading
    BY <1>3, <1>9 DEF Uploading
  <2> QED
    BY <1>8, <1>9, <2>1, FilesKept DEF PipelineInv
<1> QED
  BY <1>9, <1>10 DEF PipelineInv

\* The draft is committed before the first object is stored.
LEMMA DraftsCommitted == ASSUME PipelineInv, DraftCommits PROVE PipelineInv'
<1>1. PICK p \in Ids : Mine(Runner) = {p} /\ ~rows[p].keys
  BY DEF DraftCommits, PipelineInv, Owned
<1>2. (CHOOSE q \in Mine(Runner) : TRUE) = p
  BY <1>1
<1> DEFINE w == [Idle EXCEPT !.pc = "lowres", !.kind = "pipeline", !.pub = p]
<1>3. /\ maker' = [maker EXCEPT ![Runner] = w] /\ rows' = Committed(Runner) /\ files' = files
  BY <1>2 DEF DraftCommits
<1>4. w \in Local /\ w.pc = "lowres" /\ w.row = NoRow /\ w.attempt = 0 /\ w.pub = p
  BY NoRowOK DEF Local
<1> HIDE DEF w
<1>5. LocalOK(w)
  BY <1>4, NoRowOK DEF LocalOK
<1>6. /\ RowsOK' /\ MakersOK' /\ Owned' /\ RoomLeft' /\ Grows
      /\ maker'[Runner] = w /\ \A n \in Makers \ {Runner} : maker'[n] = maker[n]
  BY <1>3, <1>4, <1>5, RowsCommitted, Leaves
<1>7. FilesOK'
  <2>1. \A q \in Ids : rows'[q].keys = rows[q].keys
    BY <1>3, RowsCommitted
  <2>2. files' \in [Ids -> SUBSET Parts] /\ FilesBehindKeys'
    BY <1>3, <2>1 DEF PipelineInv, FilesOK, FilesBehindKeys
  <2>3. pub' = p
    BY <1>4, <1>6 DEF pub
  <2>4. p \in Stored' /\ ~rows'[p].keys
    <3>1. rows[p].owner = Runner /\ Runner # Nobody
      BY <1>1 DEF Mine
    <3>2. rows'[p].owner = Nobody
      BY <1>3, <3>1, RowsCommitted
    <3>3. rows[p].slug # 0 /\ SameKey(rows'[p], rows[p])
      <4>1. p \in Taken
        BY <3>1, Rows DEF PipelineInv
      <4>2. rows'[p] = [rows[p] EXCEPT !.owner = Nobody]
        BY <1>1, <1>3 DEF Committed
      <4>3. rows[p] \in RowType /\ rows[p].slug # 0
        BY <4>1 DEF PipelineInv, RowsOK
      <4>4. PICK r \in RowType : r = rows[p]
        BY <4>3
      <4>5. SameKey([r EXCEPT !.owner = Nobody], r)
        BY RowWith
      <4> QED
        BY <4>2, <4>3, <4>4, <4>5
    <3>4. rows'[p] # NoRow
      BY <3>3, NoRowOK DEF SameKey
    <3> QED
      BY <1>1, <2>1, <3>2, <3>4 DEF Stored
  <2>5. Uploaded[maker'[Runner].pc] = {}
    BY <1>4, <1>6 DEF Uploaded
  <2> QED
    BY <2>2, <2>3, <2>4, <2>5 DEF FilesOK
<1> QED
  BY <1>6, <1>7 DEF PipelineInv

-----------------------------------------------------------------------------
(* The objects.                                                             *)

\* The runner moves while no row of its own is flushed, and the table stays.
LEMMA RunnerMoves ==
    ASSUME PipelineInv, rows' = rows, ~At(Runner, "commit"), NEW w, maker' = [maker EXCEPT ![Runner] = w],
           LocalOK(w), w.pc \notin {"version", "slugs", "insert", "commit"}
    PROVE  /\ RowsOK' /\ MakersOK' /\ Owned' /\ RoomLeft' /\ Grows
           /\ maker'[Runner] = w /\ Stored' = Stored
<1>1. rows' \in [Ids -> RowType]
  BY DEF PipelineInv, RowsOK
<1>2. \A p \in Ids : rows[p].owner # Runner
  BY DEF PipelineInv, Owned, Mine
<1>3. /\ \A p \in Ids : rows'[p] # NoRow => rows[p] # NoRow /\ SameKey(rows'[p], rows[p])
      /\ \A p \in Stored : rows'[p] # NoRow
      /\ \A p \in Ids : rows[p].owner \in {Runner, Nobody} => rows'[p].owner = Nobody
      /\ \A p \in Ids : rows[p].owner \notin {Runner, Nobody} => rows'[p] = rows[p]
  BY <1>2 DEF SameKey, Stored
<1>4. Stored' = Stored
  BY DEF Stored
<1> QED
  BY <1>1, <1>3, <1>4, Leaves

\* What the runner's record is while it stores objects.
LEMMA RunnerWith ==
    ASSUME NEW v, LocalOK(v), NEW pc \in Uploading \cup {"audit"}
    PROVE  LocalOK([v EXCEPT !.pc = pc]) /\ [v EXCEPT !.pc = pc].pc = pc /\ [v EXCEPT !.pc = pc].pub = v.pub
<1>1. v \in Local /\ v.row.owner = Nobody /\ ~v.row.keys
  BY DEF LocalOK
<1>2. pc \notin {"version", "slugs", "insert", "refused", "commit"}
  BY DEF Uploading
<1> DEFINE w == [v EXCEPT !.pc = pc]
<1>3. w \in Local /\ w.pc = pc /\ w.row = v.row /\ w.pub = v.pub
  BY <1>1 DEF Local, Uploading
<1> HIDE DEF w
<1>4. LocalOK(w)
  BY <1>1, <1>2, <1>3 DEF LocalOK
<1> QED
  BY <1>3, <1>4 DEF w

LEMMA RunnerUndoes ==
    ASSUME NEW v, LocalOK(v), NEW left, left \subseteq Parts, NEW w, w = [v EXCEPT !.pc = "undo", !.left = left]
    PROVE  LocalOK(w) /\ w.pc = "undo" /\ w.pub = v.pub
<1>1. v \in Local /\ v.row.owner = Nobody /\ ~v.row.keys
  BY DEF LocalOK
<1>2. w \in Local /\ w.pc = "undo" /\ w.row = v.row /\ w.pub = v.pub
  BY <1>1 DEF Local
<1> QED
  BY <1>1, <1>2 DEF LocalOK

\* It stores or deletes objects of a row that names none.
LEMMA ObjectsMove ==
    ASSUME PipelineInv, rows' = rows, maker[Runner].pc \in Uploading,
           NEW w, maker' = [maker EXCEPT ![Runner] = w], LocalOK(w),
           NEW parts \in SUBSET Parts, Files(pub, parts) \/ files' = files,
           \/ w.pc \in {"idle", "undo"} /\ (w.pc = "undo" => w.pub = pub)
           \/ w.pc \in Uploading /\ w.pub = pub /\ Files(pub, parts) /\ Uploaded[w.pc] \subseteq parts
    PROVE  PipelineInv'
<1>1. w.pc \in Uploading \cup {"idle"}
  BY DEF Uploading
<1>2. ~At(Runner, "commit") /\ w.pc \notin {"version", "slugs", "insert", "commit"}
  BY <1>1 DEF At, Uploading
<1>3. RowsOK' /\ MakersOK' /\ Owned' /\ RoomLeft' /\ Grows /\ maker'[Runner] = w /\ Stored' = Stored
  BY <1>2, RunnerMoves
<1>4. pub \in Ids /\ pub \in Stored /\ ~rows[pub].keys /\ files \in [Ids -> SUBSET Parts] /\ FilesBehindKeys
  BY DEF PipelineInv, FilesOK, Stored
<1>5. files' \in [Ids -> SUBSET Parts] /\ FilesBehindKeys'
  BY <1>4 DEF Files, FilesBehindKeys
<1>6. ASSUME maker'[Runner].pc \in Uploading
      PROVE  /\ pub' \in Stored' /\ ~rows'[pub'].keys
             /\ Uploaded[maker'[Runner].pc] \subseteq files'[pub']
  <2>1. pub' = pub
    BY <1>1, <1>3, <1>6 DEF pub, Uploading
  <2>2. Uploaded[w.pc] \subseteq files'[pub]
    <3>1. CASE w.pc = "undo"
      BY <3>1 DEF Uploaded
    <3>2. CASE w.pc # "undo"
      BY <1>3, <1>4, <1>6, <3>2 DEF Files, Uploading
    <3> QED
      BY <3>1, <3>2
  <2> QED
    BY <1>3, <1>4, <2>1, <2>2
<1>7. FilesOK'
  BY <1>5, <1>6 DEF FilesOK
<1> QED
  BY <1>3, <1>7 DEF PipelineInv

LEMMA PartUploaded == ASSUME PipelineInv, NEW part \in Parts, Upload(part) PROVE PipelineInv'
<1>1. PICK v : v = maker[Runner]
  OBVIOUS
<1>2. v.pc = part /\ rows' = rows /\ v.pc \in Uploading /\ LocalOK(v) /\ v.pub = pub
  BY <1>1 DEF Upload, At, Uploading, Parts, PipelineInv, MakersOK, pub
<1>3. PICK parts \in SUBSET Parts : parts = files[pub] \cup {part}
  <2>1. pub \in Ids /\ files \in [Ids -> SUBSET Parts]
    BY <1>1, <1>2 DEF PipelineInv, FilesOK, Stored
  <2> QED
    BY <2>1
<1>4. Uploaded[part] \subseteq files[pub]
  BY <1>1, <1>2 DEF PipelineInv, FilesOK
<1>5. CASE Files(pub, files[pub] \cup {part}) /\ Goto(StageAfter[part])
  <2> DEFINE next == StageAfter[part]
             w == [v EXCEPT !.pc = next]
  <2>1. next \in Uploading \ {"undo"} /\ Uploaded[next] \subseteq Uploaded[part] \cup {part}
    BY DEF StageAfter, Parts, Uploading, Uploaded
  <2>2. maker' = [maker EXCEPT ![Runner] = w] /\ Files(pub, parts)
    BY <1>1, <1>3, <1>5 DEF Goto
  <2> HIDE DEF next
  <2>3. LocalOK(w) /\ w.pc = next /\ w.pub = pub
    BY <1>2, <2>1, RunnerWith
  <2> HIDE DEF w
  <2>4. Uploaded[next] \subseteq parts
    BY <1>3, <1>4, <2>1
  <2> QED
    BY <1>1, <1>2, <2>1, <2>2, <2>3, <2>4, ObjectsMove
<1>6. CASE /\ Files(pub, files[pub] \cup {part}) \/ UNCHANGED files
           /\ IF part = "lowres" THEN Gives
              ELSE maker' = [maker EXCEPT ![Runner] = [@ EXCEPT !.pc = "undo", !.left = {"lowres"}]]
  <2>1. Files(pub, parts) \/ files' = files
    BY <1>3, <1>6
  <2>2. CASE part = "lowres"
    <3>1. PICK w : w = Idle
      OBVIOUS
    <3>2. maker' = [maker EXCEPT ![Runner] = w] /\ LocalOK(w) /\ w.pc = "idle"
      BY <1>6, <2>2, <3>1, IdleOK, NoRowOK DEF Gives
    <3> QED
      BY <1>1, <1>2, <2>1, <3>2, ObjectsMove
  <2>3. CASE part # "lowres"
    <3> DEFINE w == [v EXCEPT !.pc = "undo", !.left = {"lowres"}]
    <3>1. maker' = [maker EXCEPT ![Runner] = w]
      BY <1>1, <1>6, <2>3
    <3>2. LocalOK(w) /\ w.pc = "undo" /\ w.pub = pub
      <4>1. {"lowres"} \subseteq Parts
        BY DEF Parts
      <4> QED
        BY <1>2, <4>1, RunnerUndoes
    <3> HIDE DEF w
    <3> QED
      BY <1>1, <1>2, <2>1, <3>1, <3>2, ObjectsMove
  <2> QED
    BY <2>2, <2>3
<1> QED
  BY <1>5, <1>6 DEF Upload

LEMMA Undoes == ASSUME PipelineInv, NEW part \in Parts, Undo(part) PROVE PipelineInv'
<1>1. PICK v : v = maker[Runner]
  OBVIOUS
<1>2. v.pc = "undo" /\ rows' = rows /\ v.pc \in Uploading /\ LocalOK(v) /\ v.pub = pub
  BY <1>1 DEF Undo, At, Uploading, PipelineInv, MakersOK, pub
<1>3. PICK parts \in SUBSET Parts : parts = files[pub] \ {part}
  <2>1. pub \in Ids /\ files \in [Ids -> SUBSET Parts]
    BY <1>1, <1>2 DEF PipelineInv, FilesOK, Stored
  <2> QED
    BY <2>1
<1>4. Files(pub, parts) \/ files' = files
  BY <1>3 DEF Undo
<1>5. CASE v.left = {part}
  <2>1. PICK w : w = Idle
    OBVIOUS
  <2>2. maker' = [maker EXCEPT ![Runner] = w] /\ LocalOK(w) /\ w.pc = "idle"
    BY <1>1, <1>5, <2>1, IdleOK, NoRowOK DEF Gives, Undo
  <2> QED
    BY <1>1, <1>2, <1>4, <2>2, ObjectsMove
<1>6. CASE v.left # {part}
  <2>1. PICK left \in SUBSET Parts : left = v.left \ {part}
    BY <1>2 DEF LocalOK, Local
  <2> DEFINE w == [v EXCEPT !.left = left]
  <2>2. maker' = [maker EXCEPT ![Runner] = w]
    BY <1>1, <1>6, <2>1 DEF Undo
  <2>3. LocalOK(w) /\ w.pc = "undo" /\ w.pub = pub
    <3>1. v \in Local /\ v.row.owner = Nobody /\ ~v.row.keys
      BY <1>2 DEF LocalOK
    <3>2. w \in Local /\ w.pc = v.pc /\ w.row = v.row /\ w.pub = v.pub
      BY <3>1 DEF Local
    <3> HIDE DEF w
    <3> QED
      BY <1>2, <3>1, <3>2 DEF LocalOK
  <2> HIDE DEF w
  <2> QED
    BY <1>1, <1>2, <1>4, <2>2, <2>3, ObjectsMove
<1> QED
  BY <1>5, <1>6

\* The row names its objects when all three are there.
LEMMA KeysPublished == ASSUME PipelineInv, PublishKeys PROVE PipelineInv'
<1>1. PICK v : v = maker[Runner]
  OBVIOUS
<1>2. v.pc = "publish" /\ files' = files /\ v.pc \in Uploading /\ LocalOK(v) /\ v.pub = pub
  BY <1>1 DEF PublishKeys, At, Uploading, PipelineInv, MakersOK, pub
<1>3. /\ pub \in Ids /\ pub \in Stored /\ files \in [Ids -> SUBSET Parts] /\ FilesBehindKeys
      /\ Parts \subseteq files[pub]
  BY <1>1, <1>2 DEF PipelineInv, FilesOK, Stored, Uploaded
<1>4. CASE rows' = Published(pub) /\ Goto(StageAfter["publish"])
  <2>1. PICK p \in Ids : p = pub
    BY <1>3
  <2>2. rows \in [Ids -> RowType]
    BY DEF PipelineInv, RowsOK
  <2>3. PICK r \in RowType : r = rows[p]
    BY <2>2
  <2>4. PICK s : s = [r EXCEPT !.published = TRUE, !.keys = TRUE]
    OBVIOUS
  <2>5. s \in RowType /\ SameKey(s, r) /\ s.owner = r.owner
    BY <2>4, RowWith
  <2>6. rows' = [rows EXCEPT ![p] = s]
    BY <1>4, <2>1, <2>3, <2>4 DEF Published
  <2>7. rows'[p] = s /\ (\A q \in Ids \ {p} : rows'[q] = rows[q]) /\ rows' \in [Ids -> RowType]
    BY <2>2, <2>5, <2>6
  <2>8. rows[p] # NoRow /\ rows[p].owner = Nobody /\ r.slug # 0
    BY <1>3, <2>1, <2>3, Rows DEF Stored, PipelineInv
  <2>9. s # NoRow /\ s.owner = Nobody
    BY <2>3, <2>5, <2>8, NoRowOK DEF SameKey
  <2>10. \A q \in Ids : rows[q].owner # Runner
    BY <1>1, <1>2 DEF PipelineInv, Owned, Mine, At
  <2>11. /\ \A q \in Ids : rows'[q] # NoRow => rows[q] # NoRow /\ SameKey(rows'[q], rows[q])
         /\ \A q \in Stored : rows'[q] # NoRow
         /\ \A q \in Ids : rows[q].owner \in {Runner, Nobody} => rows'[q].owner = Nobody
         /\ \A q \in Ids : rows[q].owner \notin {Runner, Nobody} => rows'[q] = rows[q]
    BY <2>3, <2>5, <2>7, <2>8, <2>9, <2>10 DEF SameKey, Stored
  <2> DEFINE w == [v EXCEPT !.pc = "audit"]
  <2>12. maker' = [maker EXCEPT ![Runner] = w]
    BY <1>1, <1>4 DEF Goto, StageAfter
  <2>13. LocalOK(w) /\ w.pc = "audit"
    BY <1>2, RunnerWith
  <2> HIDE DEF w
  <2>14. RowsOK' /\ MakersOK' /\ Owned' /\ RoomLeft' /\ maker'[Runner] = w
    BY <2>7, <2>11, <2>12, <2>13, Leaves
  <2>15. FilesOK'
    <3>1. FilesBehindKeys'
      <4>1. files[p] = Parts
        BY <1>3, <2>1
      <4> QED
        BY <1>2, <1>3, <2>1, <2>7, <4>1 DEF FilesBehindKeys
    <3>2. maker'[Runner].pc \notin Uploading
      BY <2>13, <2>14 DEF Uploading
    <3> QED
      BY <1>2, <1>3, <3>1, <3>2 DEF FilesOK
  <2> QED
    BY <2>14, <2>15 DEF PipelineInv
<1>5. CASE rows' = rows /\ maker' = [maker EXCEPT ![Runner] = [@ EXCEPT !.pc = "undo", !.left = Parts]]
  <2> DEFINE w == [v EXCEPT !.pc = "undo", !.left = Parts]
  <2>1. maker' = [maker EXCEPT ![Runner] = w]
    BY <1>1, <1>5
  <2>2. LocalOK(w) /\ w.pc = "undo" /\ w.pub = pub
    BY <1>2, RunnerUndoes
  <2> HIDE DEF w
  <2>3. Parts \in SUBSET Parts
    OBVIOUS
  <2> QED
    BY <1>1, <1>2, <1>5, <2>1, <2>2, <2>3, ObjectsMove
<1> QED
  BY <1>4, <1>5 DEF PublishKeys

LEMMA Audits == ASSUME PipelineInv, Audit PROVE PipelineInv'
<1>1. PICK w : w = Idle
  OBVIOUS
<1>2. maker' = [maker EXCEPT ![Runner] = w] /\ rows' = rows /\ files' = files /\ ~At(Runner, "commit")
  BY <1>1 DEF Audit, Gives, At
<1>3. LocalOK(w) /\ w.pc = "idle"
  BY <1>1, IdleOK, NoRowOK
<1>4. RowsOK' /\ MakersOK' /\ Owned' /\ RoomLeft' /\ Grows /\ maker'[Runner] = w
  BY <1>2, <1>3, RunnerMoves
<1>5. FilesOK'
  <2>1. maker'[Runner].pc \notin Uploading
    BY <1>3, <1>4 DEF Uploading
  <2> QED
    BY <1>2, <1>4, <2>1, FilesKept DEF PipelineInv
<1> QED
  BY <1>4, <1>5 DEF PipelineInv

-----------------------------------------------------------------------------
(* Publishing by hand, and the end of the process.                          *)

LEMMA PublishesDraft == ASSUME PipelineInv, NEW p \in Ids, PublishDraft(p), files' = files PROVE PipelineInv'
<1>1. rows \in [Ids -> RowType] /\ p \in Stored /\ maker' = maker
  BY DEF PipelineInv, RowsOK, PublishDraft
<1>2. PICK r \in RowType : r = rows[p]
  BY <1>1
<1>3. PICK s : s = [r EXCEPT !.published = TRUE]
  OBVIOUS
<1>4. s \in RowType /\ SameKey(s, r) /\ s.owner = r.owner /\ s.keys = r.keys
  BY <1>3, RowWith
<1>5. rows' = [rows EXCEPT ![p] = s]
  BY <1>2, <1>3 DEF PublishDraft
<1>6. rows'[p] = s /\ (\A q \in Ids \ {p} : rows'[q] = rows[q]) /\ rows' \in [Ids -> RowType]
  BY <1>1, <1>4, <1>5
<1>7. rows[p] # NoRow /\ r.owner = Nobody /\ r.slug # 0
  BY <1>1, <1>2, Rows DEF Stored, PipelineInv
<1>8. s # NoRow /\ s.owner = Nobody
  BY <1>4, <1>7, NoRowOK DEF SameKey
<1>9. /\ \A q \in Ids : rows'[q] # NoRow => rows[q] # NoRow /\ SameKey(rows'[q], rows[q])
      /\ \A q \in Stored : rows'[q] # NoRow /\ rows'[q].owner = Nobody
      /\ \A q \in Ids : rows'[q].keys = rows[q].keys /\ rows'[q].owner = rows[q].owner
  BY <1>2, <1>4, <1>6, <1>7, <1>8 DEF SameKey, Stored
<1>10. RowsOK' /\ Grows /\ Free \subseteq Free'
  BY <1>6, <1>9, RowsKept DEF PipelineInv
<1>11. MakersOK'
  <2>1. ASSUME NEW n \in Makers PROVE LocalOK(maker[n])'
    <3>1. PICK v : v = maker[n]
      OBVIOUS
    <3>2. LocalOK(v)'
      BY <1>10, <3>1, LocalKept DEF PipelineInv, MakersOK
    <3> QED
      BY <1>1, <3>1, <3>2 DEF LocalOK
  <2>2. maker' = [n \in Makers |-> maker'[n]]
    BY <1>1 DEF PipelineInv, MakersOK
  <2> QED
    BY <2>1, <2>2 DEF MakersOK
<1>12. Owned'
  <2>1. \A n \in Makers : Mine(n)' = Mine(n) /\ (At(n, "commit")' <=> At(n, "commit"))
    BY <1>1, <1>9 DEF Mine, At
  <2> QED
    BY <1>9, <2>1 DEF PipelineInv, Owned
<1>13. RoomLeft'
  <2>1. Busy' = Busy
    BY <1>1 DEF Busy
  <2> QED
    BY <1>10, <2>1, RoomKept DEF PipelineInv
<1>14. FilesOK'
  BY <1>1, <1>9, <1>10, FilesKept DEF PipelineInv
<1> QED
  BY <1>10, <1>11, <1>12, <1>13, <1>14 DEF PipelineInv

LEMMA Exits == ASSUME PipelineInv, Exit PROVE PipelineInv'
<1>1. /\ files' = files /\ maker' = [n \in Makers |-> Idle]
      /\ \A p \in Ids : rows'[p] = IF rows[p].owner = Nobody THEN rows[p] ELSE NoRow
  BY DEF Exit
<1>2. rows \in [Ids -> RowType]
  BY DEF PipelineInv, RowsOK
<1>3. rows' \in [Ids -> RowType]
  BY <1>2, NoRowOK DEF Exit
<1>4. /\ \A p \in Ids : rows'[p] # NoRow => rows[p] # NoRow /\ SameKey(rows'[p], rows[p])
      /\ \A p \in Stored : rows'[p] # NoRow /\ rows'[p].owner = Nobody
      /\ \A p \in Ids : (rows'[p].keys => rows[p].keys) /\ rows'[p].owner = Nobody
  BY <1>1, NoRowOK DEF SameKey, Stored
<1>5. RowsOK' /\ Grows /\ Free \subseteq Free'
  BY <1>3, <1>4, RowsKept DEF PipelineInv
<1>6. \A n \in Makers : maker'[n] = Idle /\ maker'[n].pc = "idle"
  BY <1>1, NoRowOK
<1>7. MakersOK'
  <2>1. PICK v : v = Idle
    OBVIOUS
  <2>2. LocalOK(v)'
    BY <1>5, <2>1, IdleOK, LocalKept
  <2>3. \A n \in Makers : LocalOK(maker[n])'
    BY <1>6, <2>1, <2>2 DEF LocalOK
  <2>4. maker' = [n \in Makers |-> maker'[n]]
    BY <1>1
  <2> QED
    BY <2>3, <2>4 DEF MakersOK
<1>8. Owned'
  <2>1. \A n \in Makers : n # Nobody
    OBVIOUS
  <2> QED
    BY <1>4, <1>6, <2>1 DEF Owned, Mine, At
<1>9. RoomLeft'
  <2>1. Busy' = {}
    BY <1>6 DEF Busy
  <2> QED
    BY <1>5, <2>1, RoomKept DEF PipelineInv
<1>10. FilesOK'
  <2>1. maker'[Runner].pc \notin Uploading
    BY <1>6 DEF Uploading
  <2> QED
    BY <1>1, <1>4, <1>5, <2>1, FilesKept DEF PipelineInv
<1> QED
  BY <1>5, <1>7, <1>8, <1>9, <1>10 DEF PipelineInv

-----------------------------------------------------------------------------
(* The invariant holds.                                                     *)

LEMMA PipelineInitial == PipelineInit => PipelineInv
<1> SUFFICES ASSUME PipelineInit PROVE PipelineInv
  OBVIOUS
<1>1. PICK title \in Titles, product \in Products \cup {NoProduct} :
        rows = [p \in Ids |-> IF p = 1 THEN [NoRow EXCEPT !.head = Original(title), !.slug = 1, !.product = product,
                                                          !.config = "full", !.version = 1,
                                                          !.published = TRUE, !.keys = TRUE]
                                       ELSE NoRow]
  BY DEF PipelineInit
<1> DEFINE row == [NoRow EXCEPT !.head = Original(title), !.slug = 1, !.product = product,
                                !.config = "full", !.version = 1, !.published = TRUE, !.keys = TRUE]
<1>2. row \in RowType /\ row.owner = Nobody /\ row.slug = 1 /\ row.version = 1
  <2>1. Original(title) \in Headlines /\ 1 \in 0 .. Cardinality(Ids) + 3 /\ 1 \in 0 .. MaxSuffix
    BY Bound DEF Original, Headlines
  <2> QED
    BY <2>1, NoRowOK DEF RowType, Configs
<1>3. rows = [p \in Ids |-> IF p = 1 THEN row ELSE NoRow]
  BY <1>1
<1> HIDE DEF row
<1>4. row # NoRow
  BY <1>2, NoRowOK
<1>5. Taken = {1} /\ rows[1] = row /\ \A p \in Ids : rows[p].owner = Nobody /\ (p # 1 => rows[p] = NoRow)
  BY <1>2, <1>3, <1>4, NoRowOK DEF Taken, Free
<1>6. RowsOK
  <2>1. rows \in [Ids -> RowType]
    BY <1>2, <1>3, NoRowOK
  <2>2. Below(row, 1)
    BY DEF Below
  <2> QED
    BY <1>2, <1>5, <2>1, <2>2 DEF RowsOK, SlugsUnique, Taken
<1>7. maker = [m \in Makers |-> Idle] /\ files = [p \in Ids |-> IF p = 1 THEN Parts ELSE {}]
  BY DEF PipelineInit
<1>8. \A m \in Makers : maker[m] = Idle /\ maker[m].pc = "idle"
  BY <1>7, NoRowOK
<1>9. MakersOK
  <2>1. \A m \in Makers : LocalOK(maker[m])
    BY <1>8, IdleOK
  <2> QED
    BY <1>7, <2>1 DEF MakersOK
<1>10. Owned
  <2>1. \A n \in Makers : n # Nobody
    OBVIOUS
  <2> QED
    BY <1>5, <1>8, <2>1 DEF Owned, Mine, At
<1>11. RoomLeft
  <2>1. Busy = {}
    BY <1>8 DEF Busy
  <2>2. Free \subseteq Ids
    BY DEF Free
  <2> QED
    BY <2>1, <2>2, FS_Subset, FS_EmptySet, FS_CardinalityType DEF RoomLeft
<1>12. FilesOK
  <2>1. files \in [Ids -> SUBSET Parts] /\ maker[Runner].pc \notin Uploading
    BY <1>7, <1>8 DEF Uploading
  <2>2. FilesBehindKeys
    BY <1>5, <1>7, NoRowOK DEF FilesBehindKeys
  <2> QED
    BY <2>1, <2>2 DEF FilesOK
<1> QED
  BY <1>6, <1>9, <1>10, <1>11, <1>12 DEF PipelineInv

LEMMA PipelineStutters == ASSUME PipelineInv, UNCHANGED pvars PROVE PipelineInv'
<1>1. rows' = rows /\ maker' = maker /\ files' = files
  BY DEF pvars, lvars
<1>2. RowsOK'
  BY <1>1 DEF PipelineInv, RowsOK, Taken, Free, SlugsUnique, Below, Stored
<1>3. MakersOK'
  BY <1>1 DEF PipelineInv, MakersOK, LocalOK, Below, SlugGone, FreeSuffixes, Stored
<1>4. Owned'
  <2>1. \A m \in Makers : Mine(m)' = Mine(m) /\ (At(m, "commit")' <=> At(m, "commit"))
    BY <1>1 DEF Mine, At
  <2> QED
    BY <1>1, <2>1 DEF PipelineInv, Owned
<1>5. RoomLeft'
  BY <1>1 DEF PipelineInv, RoomLeft, Busy, Free
<1>6. FilesOK'
  BY <1>1 DEF PipelineInv, FilesOK, FilesBehindKeys, pub, Stored
<1> QED
  BY <1>2, <1>3, <1>4, <1>5, <1>6 DEF PipelineInv

LEMMA PipelineSteps == ASSUME PipelineInv, PipelineNext PROVE PipelineInv'
<1>1. ASSUME NEW m \in Makers, Starts(m), files' = files PROVE PipelineInv'
  BY <1>1, Creates, Clones, Generates DEF Starts
<1>2. ASSUME NEW m \in Makers, CreationStep(m), files' = files PROVE PipelineInv'
  BY <1>2, ReadsVersion, ReadsSlugs, Inserts, Tries, IsRefused, Commits, Answers DEF CreationStep, InsertStep
<1>3. ASSUME NEW m \in Makers, Abort(m), files' = files PROVE PipelineInv'
  BY <1>3, Aborts
<1>4. ASSUME StorageStep PROVE PipelineInv'
  BY <1>4, PartUploaded, Undoes, KeysPublished, Audits, DraftsCommitted DEF StorageStep
<1>5. ASSUME NEW p \in Ids, PublishDraft(p), files' = files PROVE PipelineInv'
  BY <1>5, PublishesDraft
<1> QED
  BY <1>1, <1>2, <1>3, <1>4, <1>5, Exits DEF PipelineNext

THEOREM PipelineInvariant == PipelineSpec => []PipelineInv
<1>1. PipelineInv /\ [PipelineNext]_pvars => PipelineInv'
  BY PipelineSteps, PipelineStutters
<1> QED
  BY <1>1, PipelineInitial, PTL DEF PipelineSpec

-----------------------------------------------------------------------------
(* What a reader sees.                                                      *)

\* As many versions as rows, and none above a gap.
LEMMA Contiguous == ASSUME RowsOK PROVE VersionsContiguous
<1> SUFFICES ASSUME NEW p \in Stored, InLineage(rows[p])
             PROVE  LET family == {q \in Stored : SameLineage(rows[q], rows[p])}
                    IN  {rows[q].version : q \in family} = 1 .. Cardinality(family)
  BY DEF VersionsContiguous, InLineage
<1> DEFINE family == {q \in Stored : SameLineage(rows[q], rows[p])}
           V == {rows[q].version : q \in family}
           n == Cardinality(family)
           f == [q \in family |-> rows[q].version]
<1>1. Stored \subseteq Taken /\ \A q \in Taken : rows[q].version \in Nat \ {0}
  <2>1. Stored \subseteq Taken /\ Taken \subseteq Ids
    BY Rows
  <2> QED
    BY <2>1, Rows DEF RowsOK
<1>2. IsFiniteSet(family) /\ n \in Nat
  <2>1. family \subseteq Ids
    BY DEF Stored
  <2> QED
    BY <2>1, FS_Subset, FS_CardinalityType
<1>3. \A q, r \in family : rows[q].version = rows[r].version => q = r
  BY <1>1, LineageFacts DEF RowsOK
<1>4. ExistsBijection(family, V)
  <2>1. f \in [family -> V] /\ \A q \in family : f[q] = rows[q].version
    OBVIOUS
  <2>2. \A v \in V : \E q \in family : f[q] = v
    BY <2>1
  <2> HIDE DEF f, V, family
  <2>3. f \in Bijection(family, V)
    BY <1>3, <2>1, <2>2 DEF Bijection, Injection, Surjection, IsInjective
  <2> QED
    BY <2>3 DEF ExistsBijection
<1>5. IsFiniteSet(V) /\ Cardinality(V) = n
  <2> HIDE DEF V, family
  <2> QED
    BY <1>2, <1>4, FS_Bijection
<1>6. ASSUME NEW v \in V PROVE v \in 1 .. n
  <2>1. PICK q \in family : rows[q].version = v
    OBVIOUS
  <2>2. q \in Stored /\ SameLineage(rows[q], rows[p]) /\ v \in Nat \ {0}
    BY <1>1, <2>1
  <2>3. Below(rows[q], v)
    BY <1>1, <2>1, <2>2, LineageFacts DEF RowsOK
  <2>4. 1 .. v \subseteq V
    <3> SUFFICES ASSUME NEW k \in 1 .. v PROVE \E r \in family : rows[r].version = k
      OBVIOUS
    <3>1. CASE k = v
      BY <2>1, <3>1
    <3>2. CASE k # v
      <4>1. k \in 1 .. v - 1
        BY <2>2, <3>2
      <4>2. PICK r \in Stored : SameLineage(rows[r], rows[q]) /\ rows[r].version = k
        BY <2>3, <4>1 DEF Below
      <4> QED
        BY <2>2, <4>2, LineageFacts
    <3> QED
      BY <3>1, <3>2
  <2> HIDE DEF V, family, n
  <2>5. Cardinality(1 .. v) <= n
    BY <1>5, <2>4, FS_Subset
  <2>6. Cardinality(1 .. v) = v
    BY <2>2, FS_Interval
  <2> QED
    BY <1>2, <2>2, <2>5, <2>6
<1>7. V = 1 .. n
  <2> HIDE DEF V, family, n
  <2>1. V \in SUBSET (1 .. n)
    BY <1>6
  <2>2. IsFiniteSet(1 .. n) /\ Cardinality(1 .. n) = n
    BY <1>2, FS_Interval
  <2> QED
    BY <1>5, <2>1, <2>2, FS_Subset
<1> QED
  BY <1>7

\* Versions of a lineage are numbered without gaps, slugs name one row, what is refused had
\* a committed rival, and a row that names its files has all of them: whatever requests and
\* the pipeline interleave, however stages, statements and commits fail, and wherever the
\* process exits.
THEOREM LineageHolds == PipelineSpec => []LineageInv
<1>1. PipelineInv => LineageInv
  <2> SUFFICES ASSUME PipelineInv PROVE LineageInv
    OBVIOUS
  <2>1. \A m \in Makers : LocalOK(maker[m]) /\ maker[m] \in Local
    BY DEF PipelineInv, MakersOK, LocalOK
  <2>2. PipelineTypeOK
    <3>1. maker \in [Makers -> Local]
      BY <2>1 DEF PipelineInv, MakersOK
    <3> QED
      BY <3>1 DEF PipelineInv, PipelineTypeOK, RowsOK, FilesOK, Local
  <2>3. RefusedByRival
    BY <2>1 DEF RefusedByRival, LocalOK, Clash, At
  <2> QED
    BY <2>2, <2>3, Contiguous DEF LineageInv, PipelineInv, RowsOK, FilesOK
<1> QED
  BY <1>1, PipelineInvariant, PTL
=============================================================================

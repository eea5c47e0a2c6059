------------------------------ MODULE JobQueue ------------------------------
(***************************************************************************)
(* The persistent job queue of the backend: the `jobs` table, the requests *)
(* that enqueue and retry jobs, the runner loop that claims and executes   *)
(* them one at a time, and the life of the single server process that      *)
(* hosts the requests and the loop.                                        *)
(*                                                                         *)
(* One action is what happens between two points at which the code gives   *)
(* up control (an await that ends in a commit, or a read whose result is   *)
(* used after a later await).  The database is PostgreSQL at READ          *)
(* COMMITTED: a statement sees committed rows, an UPDATE by primary key    *)
(* waits for the row lock and then applies whatever the row has become.    *)
(***************************************************************************)
EXTENDS Naturals, FiniteSets

CONSTANTS
    Clients,            \* concurrent requests that enqueue a job
    Admins,             \* clients of POST /jobs/{id}/retry, one request at a time each
    MaxRetries,         \* bound: retry requests each of them sends
    Keys,               \* dedupe keys
    NoKey,              \* dedupe_key IS NULL
    Product,            \* cube_fetch keys |-> the product (subject_key)
    Leftovers,          \* rows an older deployment left queued: ids 1..Leftovers
    MaxJobs,            \* bound: ids the sequence hands out
    MaxAttempts,        \* jobs.max_attempts (3 in the code)
    CoolDownThreshold,  \* JobRunner.cool_down_threshold (3 in the code)
    MaxExits,         \* bound: process exits that interrupt it
    MaxFaults           \* bound: statements the database refuses

FetchKeys == DOMAIN Product

ASSUME JobConstants ==
    /\ MaxJobs \in Nat
    /\ MaxRetries \in Nat
    /\ MaxAttempts \in Nat \ {0}
    /\ CoolDownThreshold \in Nat \ {0}
    /\ MaxExits \in Nat
    /\ MaxFaults \in Nat
    /\ Leftovers \in 0..MaxJobs
    /\ FetchKeys \subseteq Keys
    /\ NoKey \notin Keys

VARIABLES
    jobs,       \* the table
    nextId,     \* the id sequence
    proc,       \* "down", "up" or "draining" (app.state.shutting_down)
    runner,     \* the local variables of JobRunner._try_claim_and_execute
    client,     \* where each enqueueing request is
    admin,      \* where the retry request of each is, and how many it has sent
    exits, faults,
    claims, reaps, late   \* history, per job: claims, reaper hits, and retry
                          \* writes that came late

history == <<claims, reaps, late>>
vars == <<jobs, nextId, proc, runner, client, admin, exits, faults, history>>

Ids == 1..MaxJobs

\* "absent" ids were never used or their insert was rolled back; the row of an
\* "inserting" id is flushed but not committed.
Statuses == {"absent", "inserting", "queued", "running", "success", "failed"}
Kinds == {"plain", "fetch", "incompatible", "poison"}
Errors == {"none", "TRANSIENT", "PERMANENT", "DATA_CONTRACT_VIOLATION",
           "COOL_DOWN_ACTIVE", "INCOMPATIBLE_PAYLOAD"}

\* started_at and finished_at matter only relative to the reaper's ten
\* minutes and the cool-down's twenty-four hours.
Times == {"null", "recent", "old"}
Row == [key : Keys \cup {NoKey}, kind : Kinds, status : Statuses,
        attempts : Nat, started : Times, finished : Times, error : Errors]

NewRow(k, kind, status) ==
    [key |-> k, kind |-> kind, status |-> status, attempts |-> 0,
     started |-> "null", finished |-> "null", error |-> "none"]

Active(j) == jobs[j].status \in {"queued", "running"}
ActiveForgetsRunning(k) == {j \in Ids : jobs[j].key = k /\ jobs[j].status = "queued"}

\* What the partial unique index ix_jobs_dedupe_active ranges over: committed
\* rows that are queued or running, and flushed inserts of open transactions.
ActiveWith(k) == {j \in Ids : jobs[j].key = k /\ Active(j)}
Inserting(k) == {j \in Ids : jobs[j].key = k /\ jobs[j].status = "inserting"}

WithStatus(j, s) == [jobs[j] EXCEPT !.status = s]

KindOf(k) == IF k \in FetchKeys THEN "fetch" ELSE "plain"

-----------------------------------------------------------------------------
(* JobRepository.enqueue, called by the routers inside a request.          *)

\* _find_active_by_dedupe: the answer is `existing`, or the insert is tried.
EnqueueFind(c, k) ==
    /\ proc = "up"
    /\ client[c].pc = "start"
    /\ client' = [client EXCEPT ![c].key = k,
                                ![c].pc = IF ActiveWith(k) # {} THEN "existing"
                                                                ELSE "insert"]
    /\ UNCHANGED <<jobs, nextId, proc, runner, admin, exits, faults, history>>

\* session.add + flush.  The statement waits while another open transaction
\* holds the same index entry, fails on a committed one (IntegrityError, then
\* rollback), and otherwise leaves an uncommitted row.
EnqueueInsert(c) ==
    LET k == client[c].key
    IN  /\ client[c].pc = "insert"
        /\ Inserting(k) = {}
        /\ \/ /\ ActiveWith(k) # {}
              /\ client' = [client EXCEPT ![c].pc = "refind"]
              /\ UNCHANGED <<jobs, nextId>>
           \/ /\ ActiveWith(k) = {}
              /\ nextId \in Ids
              /\ jobs' = [jobs EXCEPT ![nextId] = NewRow(k, KindOf(k), "inserting")]
              /\ nextId' = nextId + 1
              /\ client' = [client EXCEPT ![c].pc = "commit", ![c].job = nextId]
        /\ UNCHANGED <<proc, runner, admin, exits, faults, history>>

\* The winner is fetched after the rollback; when it has finished meanwhile
\* the IntegrityError is raised again and the request answers 500.
EnqueueRefind(c) ==
    /\ client[c].pc = "refind"
    /\ client' = [client EXCEPT
                    ![c].pc = IF ActiveWith(client[c].key) # {} THEN "existing"
                                                                ELSE "error"]
    /\ UNCHANGED <<jobs, nextId, proc, runner, admin, exits, faults, history>>

\* session.commit in the router (or get_db, after the response).
EnqueueCommit(c) ==
    /\ client[c].pc = "commit"
    /\ jobs' = [jobs EXCEPT ![client[c].job] = WithStatus(client[c].job, "queued")]
    /\ client' = [client EXCEPT ![c].pc = "new"]
    /\ UNCHANGED <<nextId, proc, runner, admin, exits, faults, history>>

-----------------------------------------------------------------------------
(* JobRepository.retry_failed_job.  The checks read the row; the write is   *)
(* an UPDATE by primary key that does not repeat them.                      *)

RetryBudgetOnly(j) == jobs[j].attempts < MaxAttempts
RetryChecks(j) ==
    /\ jobs[j].status = "failed"
    /\ jobs[j].attempts < MaxAttempts

\* The row is the only active one of its key, or has no key.
DedupeFree(j) == jobs[j].key = NoKey \/ ActiveWith(jobs[j].key) \subseteq {j}

\* An admin whose last request has been answered may send the next one.
RetryRead(a, j) ==
    /\ proc = "up"
    /\ admin[a].pc # "write"
    /\ admin[a].sent < MaxRetries
    /\ jobs[j].status \notin {"absent", "inserting"}
    /\ admin' = [admin EXCEPT
           ![a] = [pc |-> IF RetryChecks(j) /\ DedupeFree(j) THEN "write" ELSE "conflict",
                   job |-> j, sent |-> @.sent + 1]]
    /\ UNCHANGED <<jobs, nextId, proc, runner, client, exits, faults, history>>

Requeued(j) == [jobs[j] EXCEPT !.status = "queued", !.error = "none",
                               !.started = "null", !.finished = "null"]

\* The write is late when the row is no longer a failed one with attempts left.
LateFor(j) == jobs[j].status # "failed" \/ jobs[j].attempts >= MaxAttempts

RetryWrite(a) ==
    LET j == admin[a].job
    IN  /\ admin[a].pc = "write"
        /\ jobs[j].key = NoKey \/ Inserting(jobs[j].key) = {}
        /\ \/ /\ DedupeFree(j)
              /\ jobs' = [jobs EXCEPT ![j] = Requeued(j)]
              /\ late' = [late EXCEPT ![j] = IF LateFor(j) THEN @ + 1 ELSE @]
              /\ admin' = [admin EXCEPT ![a].pc = "accepted"]
           \/ /\ ~DedupeFree(j)
              /\ admin' = [admin EXCEPT ![a].pc = "error"]
              /\ UNCHANGED <<jobs, late>>
        /\ UNCHANGED <<nextId, proc, runner, client, exits, faults, claims, reaps>>

-----------------------------------------------------------------------------
(* JobRunner.  Each step below is one session of the loop's own.            *)

Idle == [pc |-> "idle", job |-> 0, attempt |-> 0, error |-> "none"]
Dead == [Idle EXCEPT !.pc = "dead"]

\* claim_next and the audit event, committed together: the oldest queued row.
ClaimableInBudget(j) == jobs[j].status = "queued" /\ jobs[j].attempts < MaxAttempts
Claimable(j) == jobs[j].status = "queued"

ClaimedUncounted(j) == [jobs[j] EXCEPT !.status = "running", !.started = "recent"]
Claimed(j) == [jobs[j] EXCEPT !.status = "running", !.started = "recent",
                              !.attempts = @ + 1]

Claim ==
    /\ proc = "up"
    /\ runner.pc = "idle"
    /\ \E j \in Ids :
        /\ Claimable(j)
        /\ \A i \in Ids : Claimable(i) => j <= i
        /\ jobs' = [jobs EXCEPT ![j] = Claimed(j)]
        /\ claims' = [claims EXCEPT ![j] = @ + 1]
        /\ runner' = [pc |-> "parse", job |-> j,
                      attempt |-> jobs[j].attempts + 1, error |-> "none"]
    /\ UNCHANGED <<nextId, proc, client, admin, exits, faults, reaps, late>>

\* parse_payload: an unknown type or version is a permanent failure; what the
\* two except clauses do not name (pydantic's ValidationError) ends the loop.
ParseRejectsSilently ==
    /\ runner.pc = "parse"
    /\ runner' = CASE jobs[runner.job].kind = "incompatible" -> Idle
                   [] jobs[runner.job].kind = "poison" -> Dead
                   [] OTHER -> [runner EXCEPT !.pc = "check"]
    /\ UNCHANGED <<jobs, nextId, proc, client, admin, exits, faults, history>>

ParsePayload ==
    /\ runner.pc = "parse"
    /\ runner' = CASE jobs[runner.job].kind = "incompatible" ->
                        [runner EXCEPT !.pc = "fail", !.error = "INCOMPATIBLE_PAYLOAD"]
                   [] jobs[runner.job].kind = "poison" -> Dead
                   [] OTHER -> [runner EXCEPT !.pc = "check"]
    /\ UNCHANGED <<jobs, nextId, proc, client, admin, exits, faults, history>>

\* _is_cooled_down counts recent contract violations of the same product.
RecentViolations(p) ==
    {j \in Ids : /\ jobs[j].kind = "fetch" /\ Product[jobs[j].key] = p
                 /\ jobs[j].status = "failed"
                 /\ jobs[j].error = "DATA_CONTRACT_VIOLATION"
                 /\ jobs[j].finished = "recent"}

CooledDownOneLate(j) ==
    /\ jobs[j].kind = "fetch"
    /\ Cardinality(RecentViolations(Product[jobs[j].key])) > CoolDownThreshold

CooledDown(j) ==
    /\ jobs[j].kind = "fetch"
    /\ Cardinality(RecentViolations(Product[jobs[j].key])) >= CoolDownThreshold

CheckCoolDown ==
    /\ runner.pc = "check"
    /\ runner' = IF CooledDown(runner.job)
                 THEN [runner EXCEPT !.pc = "fail", !.error = "COOL_DOWN_ACTIVE"]
                 ELSE [runner EXCEPT !.pc = "execute"]
    /\ UNCHANGED <<jobs, nextId, proc, client, admin, exits, faults, history>>

\* The handler returns, or raises one of the three classes of exception that
\* the except clause tells apart; only cube_fetch raises contract violations.
HandlerReturns ==
    /\ runner.pc = "execute"
    /\ runner' = [runner EXCEPT !.pc = "succeed"]
    /\ UNCHANGED <<jobs, nextId, proc, client, admin, exits, faults, history>>

HandlerRaises ==
    /\ runner.pc = "execute"
    /\ \E e \in {"TRANSIENT", "PERMANENT"} \cup
                (IF jobs[runner.job].kind = "fetch"
                 THEN {"DATA_CONTRACT_VIOLATION"} ELSE {}) :
            runner' = [runner EXCEPT !.pc = "fail", !.error = e]
    /\ UNCHANGED <<jobs, nextId, proc, client, admin, exits, faults, history>>

\* _succeed_job: mark_success is an UPDATE by id, whatever the status.
Succeeded(j) == [jobs[j] EXCEPT !.status = "success", !.finished = "recent"]

Succeed ==
    /\ runner.pc = "succeed"
    /\ jobs' = [jobs EXCEPT ![runner.job] = Succeeded(runner.job)]
    /\ runner' = Idle
    /\ UNCHANGED <<nextId, proc, client, admin, exits, faults, history>>

Retryable(e) == e = "TRANSIENT"

\* _fail_job: requeue the same row while the budget lasts, with the attempt
\* count the runner remembers from the claim, or record the failure.
Failed(j, e) == [jobs[j] EXCEPT !.status = "failed", !.error = e, !.finished = "recent"]

Fail ==
    LET j == runner.job
    IN  /\ runner.pc = "fail"
        /\ jobs' = IF Retryable(runner.error) /\ runner.attempt < MaxAttempts
                   THEN [jobs EXCEPT ![j] = Requeued(j)]
                   ELSE [jobs EXCEPT ![j] = Failed(j, runner.error)]
        /\ runner' = Idle
        /\ UNCHANGED <<nextId, proc, client, admin, exits, faults, history>>

\* The database refuses a statement of the loop.  A failed success write is
\* caught by the clause around the handler and becomes a retryable failure;
\* everywhere else the exception leaves run_loop and nothing restarts it.
DatabaseFault ==
    /\ proc # "down"
    /\ faults < MaxFaults
    /\ \/ runner.pc = "idle" /\ proc = "up" /\ runner' = Dead
       \/ runner.pc \in {"check", "fail"} /\ runner' = Dead
       \/ /\ runner.pc = "succeed"
          /\ runner' = [runner EXCEPT !.pc = "fail", !.error = "TRANSIENT"]
    /\ faults' = faults + 1
    /\ UNCHANGED <<jobs, nextId, proc, client, admin, exits, history>>

-----------------------------------------------------------------------------
(* The process: lifespan in main.py.                                        *)

\* requeue_stale_running, one UPDATE.
ReapableOneMore(j) ==
    /\ jobs[j].status = "running"
    /\ jobs[j].started = "old"
    /\ jobs[j].attempts <= MaxAttempts

Reapable(j) ==
    /\ jobs[j].status = "running"
    /\ jobs[j].started = "old"
    /\ jobs[j].attempts < MaxAttempts

Reap(j) == [jobs[j] EXCEPT !.status = "queued", !.attempts = @ + 1,
                           !.started = "null"]

\* Startup runs the reaper once and then starts the loop.
Boot ==
    /\ proc = "down"
    /\ proc' = "up"
    /\ jobs' = [j \in Ids |-> IF Reapable(j) THEN Reap(j) ELSE jobs[j]]
    /\ reaps' = [j \in Ids |-> IF Reapable(j) THEN reaps[j] + 1 ELSE reaps[j]]
    /\ runner' = Idle
    /\ UNCHANGED <<nextId, client, admin, exits, faults, claims, late>>

\* Whatever was in flight is gone and its open transactions are rolled back.
Stop ==
    /\ proc' = "down"
    /\ runner' = Dead
    /\ jobs' = [j \in Ids |-> IF jobs[j].status = "inserting"
                              THEN WithStatus(j, "absent") ELSE jobs[j]]
    /\ client' = [c \in Clients |-> IF client[c].pc \in {"insert", "refind", "commit"}
                                    THEN [client[c] EXCEPT !.pc = "error"] ELSE client[c]]
    /\ admin' = [a \in Admins |-> IF admin[a].pc = "write"
                                  THEN [admin[a] EXCEPT !.pc = "error"] ELSE admin[a]]
    /\ UNCHANGED <<nextId, faults, history>>

Crash ==
    /\ proc # "down"
    /\ exits < MaxExits
    /\ exits' = exits + 1
    /\ Stop

\* SIGTERM: uvicorn has drained the requests before the lifespan resumes.
Shutdown ==
    /\ proc = "up"
    /\ exits < MaxExits
    /\ \A c \in Clients : client[c].pc \notin {"insert", "refind", "commit"}
    /\ \A a \in Admins : admin[a].pc # "write"
    /\ proc' = "draining"
    /\ exits' = exits + 1
    /\ UNCHANGED <<jobs, nextId, runner, client, admin, faults, history>>

\* The loop has seen shutting_down, or the thirty seconds are over and the
\* task is cancelled wherever it is.
ShutdownEnds ==
    /\ proc = "draining"
    /\ Stop
    /\ UNCHANGED exits

\* Ten minutes pass for a claim, twenty-four hours for a recorded failure.
ClaimAges(j) ==
    /\ jobs[j].status = "running"
    /\ jobs[j].started = "recent"
    /\ jobs' = [jobs EXCEPT ![j] = [@ EXCEPT !.started = "old"]]
    /\ UNCHANGED <<nextId, proc, runner, client, admin, exits, faults, history>>

FailureAges(j) ==
    /\ jobs[j].status = "failed"
    /\ jobs[j].finished = "recent"
    /\ jobs[j].error = "DATA_CONTRACT_VIOLATION"
    /\ jobs' = [jobs EXCEPT ![j] = [@ EXCEPT !.finished = "old"]]
    /\ UNCHANGED <<nextId, proc, runner, client, admin, exits, faults, history>>

-----------------------------------------------------------------------------
Init ==
    /\ \E kind \in [1..Leftovers -> {"incompatible", "poison"}] :
         jobs = [j \in Ids |-> IF j <= Leftovers THEN NewRow(NoKey, kind[j], "queued")
                               ELSE NewRow(NoKey, "plain", "absent")]
    /\ nextId = Leftovers + 1
    /\ proc = "down"
    /\ runner = Dead
    /\ client = [c \in Clients |-> [pc |-> "start", key |-> NoKey, job |-> 0]]
    /\ admin = [a \in Admins |-> [pc |-> "start", job |-> 0, sent |-> 0]]
    /\ exits = 0
    /\ faults = 0
    /\ claims = [j \in Ids |-> 0]
    /\ reaps = [j \in Ids |-> 0]
    /\ late = [j \in Ids |-> 0]

Enqueue(c) == \/ \E k \in Keys : EnqueueFind(c, k)
              \/ EnqueueInsert(c) \/ EnqueueRefind(c) \/ EnqueueCommit(c)
Retry(a) == (\E j \in Ids : RetryRead(a, j)) \/ RetryWrite(a)
RunnerStep == \/ Claim \/ ParsePayload \/ CheckCoolDown \/ HandlerReturns
              \/ HandlerRaises \/ Succeed \/ Fail
Time == \E j \in Ids : ClaimAges(j) \/ FailureAges(j)

Next == \/ \E c \in Clients : Enqueue(c)
        \/ \E a \in Admins : Retry(a)
        \/ RunnerStep \/ DatabaseFault
        \/ Boot \/ Crash \/ Shutdown \/ ShutdownEnds
        \/ Time

Spec == Init /\ [][Next]_vars

-----------------------------------------------------------------------------
(* Properties.                                                              *)

RequestPcs == {"start", "existing", "insert", "refind", "commit", "new", "error"}
RetryPcs == {"start", "write", "conflict", "accepted", "error"}
RunnerPcs == {"idle", "dead", "parse", "check", "execute", "succeed", "fail"}

TypeOK ==
    /\ jobs \in [Ids -> Row]
    /\ nextId \in 1..MaxJobs + 1
    /\ proc \in {"down", "up", "draining"}
    /\ runner \in [pc : RunnerPcs, job : Ids \cup {0}, attempt : Nat, error : Errors]
    /\ client \in [Clients -> [pc : RequestPcs, key : Keys \cup {NoKey}, job : Ids \cup {0}]]
    /\ admin \in [Admins -> [pc : RetryPcs, job : Ids \cup {0}, sent : Nat]]
    /\ exits \in Nat
    /\ faults \in Nat
    /\ claims \in [Ids -> Nat]
    /\ reaps \in [Ids -> Nat]
    /\ late \in [Ids -> Nat]

\* The runner is between the claim of a job and the record of its outcome.
Holding == runner.pc \notin {"idle", "dead"}
Holds(j) == Holding /\ runner.job = j

\* A running row that nobody is executing.
Orphan(j) == jobs[j].status = "running" /\ ~Holds(j)

\* models/job.py: only one queued or running job per dedupe key at any time,
\* whatever enqueues, retries, requeues and reaper runs overlap.
DedupeUnique ==
    \A i, j \in Ids : /\ Active(i) /\ Active(j)
                      /\ jobs[i].key = jobs[j].key /\ jobs[i].key # NoKey
                      => i = j

\* The job the loop has claimed is still queued or running when the outcome is
\* recorded, with the attempt count the loop remembers, and it is running unless
\* a late retry write has reached it: the unconditional UPDATEs of mark_success,
\* mark_failed and the requeue rest on it.
HeldRowIsOurs ==
    Holding => /\ runner.job \in Ids
               /\ Active(runner.job)
               /\ jobs[runner.job].attempts = runner.attempt
               /\ late[runner.job] = 0 => jobs[runner.job].status = "running"

\* A job is executed at most max_attempts times plus once for every retry
\* write that came late, and the reaper's own increment makes attempt_count
\* overshoot max_attempts by no more than one.
BudgetRespected ==
    \A j \in Ids : /\ claims[j] <= MaxAttempts + late[j]
                   /\ jobs[j].attempts <= MaxAttempts + 1 + late[j]

\* No path through _try_claim_and_execute leaves a row running behind it: an
\* orphan needs a process exit, a database fault or a payload that kills the
\* loop.
OrphanNeedsFault ==
    \A j \in Ids : Orphan(j) => \/ exits > 0 \/ faults > 0
                                \/ \E i \in Ids : jobs[i].kind = "poison"

\* The cool-down check and the recording of a violation are separate steps, yet
\* a product never collects more than the threshold of recent violations.
CoolDownBounds ==
    \A p \in {Product[k] : k \in FetchKeys} :
        Cardinality(RecentViolations(p)) <= CoolDownThreshold

\* A retry request brings back nothing but failed jobs (job_repository.py:257,
\* "Only failed jobs can be retried"): an accepted write never hits a job that the
\* loop has claimed or finished meanwhile.  (A job that is already queued again stays
\* as it is.)
RetryAccepted(a) == admin[a].pc = "write" /\ admin'[a].pc = "accepted"
OnlyFailedRetried ==
    [][\A a \in Admins : RetryAccepted(a) => jobs[admin[a].job].status \notin {"running", "success"}]_vars

\* No two retry requests are between their checks and their write.
OneRetryInFlight ==
    \A a, b \in Admins : admin[a].pc = "write" /\ admin[b].pc = "write" => a = b

\* The contract's view of a row.
PhaseOf(j) == CASE jobs[j].status \in {"absent", "inserting"} -> "absent"
                [] jobs[j].status \in {"queued", "running"} -> "active"
                [] OTHER -> jobs[j].status
KeyOf(j) == IF jobs[j].status \in {"absent", "inserting"} THEN NoKey ELSE jobs[j].key

Contract == INSTANCE JobContract WITH phase <- [j \in Ids |-> PhaseOf(j)],
                                      key <- [j \in Ids |-> KeyOf(j)]

\* The queue keeps the contract.
ContractSpec == Contract!ContractSpec

-----------------------------------------------------------------------------
(* The inductive invariant behind them.                                     *)

\* No two rows of one key are in the unique index, open inserts included.
Indexed(j) == jobs[j].status \in {"inserting", "queued", "running"}
IndexInv ==
    \A i, j \in Ids : /\ Indexed(i) /\ Indexed(j)
                      /\ jobs[i].key = jobs[j].key /\ jobs[i].key # NoKey
                      => i = j

\* Ids the sequence has not handed out have no row and no history.
FreshInv ==
    \A j \in Ids : j >= nextId =>
        jobs[j].status = "absent" /\ claims[j] = 0 /\ reaps[j] = 0

\* Every request about to commit owns an uncommitted row of its own.
CommitInv ==
    /\ \A c \in Clients : client[c].pc = "commit" =>
           client[c].job \in Ids /\ jobs[client[c].job].status = "inserting"
    /\ \A c, d \in Clients : /\ client[c].pc = "commit" /\ client[d].pc = "commit"
                             /\ client[c].job = client[d].job
                             => c = d

\* A retry about to write addresses a committed row.
WriteInv ==
    \A a \in Admins : admin[a].pc = "write" =>
        /\ admin[a].job \in Ids
        /\ jobs[admin[a].job].status \notin {"absent", "inserting"}

\* As long as no two retries have been in flight, the row is still as the checks saw it.
OnTimeInv == \A a \in Admins : admin[a].pc = "write" => ~LateFor(admin[a].job)

\* attempt_count is claims plus reaper hits, and a row that can still be claimed
\* has one claim to spare.
LedgerInv ==
    \A j \in Ids :
        /\ jobs[j].status # "absent" => jobs[j].attempts = claims[j] + reaps[j]
        /\ claims[j] <= MaxAttempts + late[j]
        /\ jobs[j].attempts <= MaxAttempts + 1 + late[j]
        /\ jobs[j].status \in {"inserting", "queued"} =>
               /\ claims[j] < MaxAttempts + late[j]
               /\ jobs[j].attempts <= MaxAttempts + late[j]

\* The loop is gone before the process is, a draining process has an exit behind it, and
\* no insert overwrites a payload that kills the loop.
OrphanInv ==
    /\ OrphanNeedsFault
    /\ proc = "down" => ~Holding
    /\ proc = "draining" => exits > 0
    /\ \A j \in Ids : j >= nextId => jobs[j].kind # "poison"

\* The check still holds when the violation is recorded: only the loop records one.
CoolDownInv ==
    /\ CoolDownBounds
    /\ \/ runner.pc = "execute"
       \/ runner.pc = "fail" /\ runner.error = "DATA_CONTRACT_VIOLATION"
       => ~CooledDown(runner.job)

JobInv == /\ TypeOK /\ IndexInv /\ FreshInv /\ CommitInv
          /\ HeldRowIsOurs /\ WriteInv /\ LedgerInv
          /\ OrphanInv /\ CoolDownInv

-----------------------------------------------------------------------------
(* Fairness: asyncio keeps scheduling a live loop, handlers return or raise *)
(* (their HTTP calls have timeouts), the container is restarted after it    *)
(* exits (docker-compose: restart: unless-stopped), and a request whose     *)
(* insert is flushed goes on to commit.  Requests, exits and faults are not *)
(* fair.                                                                    *)
FairSpec == /\ Spec
            /\ WF_vars(Claim)
            /\ WF_vars(ParsePayload \/ CheckCoolDown \/ HandlerReturns
                       \/ HandlerRaises \/ Succeed \/ Fail)
            /\ WF_vars(Boot)
            /\ WF_vars(ShutdownEnds)
            /\ \A c \in Clients : WF_vars(EnqueueCommit(c))

Settled(j) == jobs[j].status \in {"success", "failed"}

\* Every queued job is eventually recorded as success or failure, although
\* older jobs are always taken first and a failing job returns to the head of
\* the queue, unless an exit orphans it or the loop has died under it.
QueuedJobSettles ==
    \A j \in Ids : jobs[j].status = "queued"
                     ~> Settled(j) \/ Orphan(j) \/ (proc = "up" /\ runner.pc = "dead")
=============================================================================

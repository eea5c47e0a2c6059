--------------------------- MODULE JobQueueProofs ---------------------------
(***************************************************************************)
(* Theorems about JobQueue for every number of requests, jobs, keys,       *)
(* attempts, exits and faults.                                             *)
(***************************************************************************)
EXTENDS JobQueue, TLAPS, FiniteSetTheorems

USE JobConstants

-----------------------------------------------------------------------------
(* Lemmas on the values the actions write.                                  *)

\* The constants the actions write are values of the columns.
LEMMA ColumnValues ==
    /\ "absent" \in Statuses /\ "inserting" \in Statuses /\ "queued" \in Statuses
    /\ "running" \in Statuses /\ "success" \in Statuses /\ "failed" \in Statuses
    /\ "null" \in Times /\ "recent" \in Times /\ "old" \in Times
    /\ "none" \in Errors /\ "TRANSIENT" \in Errors /\ "PERMANENT" \in Errors
    /\ "DATA_CONTRACT_VIOLATION" \in Errors /\ "COOL_DOWN_ACTIVE" \in Errors
    /\ "INCOMPATIBLE_PAYLOAD" \in Errors
    /\ "plain" \in Kinds /\ "fetch" \in Kinds
    /\ "incompatible" \in Kinds /\ "poison" \in Kinds
BY DEF Statuses, Times, Errors, Kinds

\* A fresh row is a row.
LEMMA NewRowType ==
    ASSUME NEW k \in Keys \cup {NoKey}, NEW kind \in Kinds, NEW status \in Statuses
    PROVE  NewRow(k, kind, status) \in Row
BY ColumnValues DEF NewRow, Row

\* The sequence stays one past the ids in use.
LEMMA NextIdBound == ASSUME NEW n \in Ids PROVE n + 1 \in 1..MaxJobs + 1
BY DEF Ids

\* A request that has inserted its row remembers the id.
LEMMA RequestUpdate ==
    ASSUME NEW r \in [pc : RequestPcs, key : Keys \cup {NoKey}, job : Ids \cup {0}],
           NEW j \in Ids
    PROVE  [r EXCEPT !.pc = "commit", !.job = j]
             \in [pc : RequestPcs, key : Keys \cup {NoKey}, job : Ids \cup {0}]
BY DEF RequestPcs

\* The key of a request decides between the two kinds of job it can enqueue.
LEMMA KindOfType == ASSUME NEW k PROVE KindOf(k) \in Kinds
BY ColumnValues DEF KindOf

\* What a claim, a requeue and the reaper write are rows.
LEMMA RowUpdates ==
    ASSUME jobs \in [Ids -> Row], NEW j \in Ids
    PROVE  Claimed(j) \in Row /\ Requeued(j) \in Row /\ Reap(j) \in Row
<1> DEFINE n == jobs[j].attempts + 1
<1>1. jobs[j] \in Row /\ n \in Nat
  BY DEF Row
<1> HIDE DEF n
<1>2. [jobs[j] EXCEPT !.status = "running", !.started = "recent", !.attempts = n] \in Row
  BY <1>1, ColumnValues DEF Row
<1>3. [jobs[j] EXCEPT !.status = "queued", !.attempts = n, !.started = "null"] \in Row
  BY <1>1, ColumnValues DEF Row
<1>4. Requeued(j) \in Row
  BY <1>1, ColumnValues DEF Row, Requeued
<1>5. QED
  BY <1>2, <1>3, <1>4 DEF n, Claimed, Reap

\* So are rows with one to three columns changed.
LEMMA ColumnUpdates ==
    ASSUME jobs \in [Ids -> Row], NEW j \in Ids, NEW e \in Errors
    PROVE  /\ \A s \in Statuses : WithStatus(j, s) \in Row
           /\ Succeeded(j) \in Row /\ Failed(j, e) \in Row
           /\ [jobs[j] EXCEPT !.started = "old"] \in Row
           /\ [jobs[j] EXCEPT !.finished = "old"] \in Row
<1>1. jobs[j] \in Row
  OBVIOUS
<1>2. Failed(j, e) \in Row
  BY <1>1, ColumnValues DEF Row, Failed
<1>3. Succeeded(j) \in Row
  BY <1>1, ColumnValues DEF Row, Succeeded
<1>4. \A s \in Statuses : WithStatus(j, s) \in Row
  BY <1>1, ColumnValues DEF Row, WithStatus
<1>5. [jobs[j] EXCEPT !.started = "old"] \in Row /\ [jobs[j] EXCEPT !.finished = "old"] \in Row
  BY <1>1, ColumnValues DEF Row
<1>6. QED BY <1>2, <1>3, <1>4, <1>5

-----------------------------------------------------------------------------
(* Type correctness.                                                        *)

\* Every step writes values of the declared types (models/job.py).
LEMMA TypeStep == TypeOK /\ [Next]_vars => TypeOK'
<1> SUFFICES ASSUME TypeOK, [Next]_vars PROVE TypeOK'
  OBVIOUS
<1> USE DEF TypeOK, RequestPcs, RetryPcs, RunnerPcs, history
<1>1. ASSUME NEW c \in Clients, NEW k \in Keys, EnqueueFind(c, k) PROVE TypeOK'
  BY <1>1 DEF EnqueueFind
<1>2. ASSUME NEW c \in Clients, EnqueueInsert(c) PROVE TypeOK'
  <2>1. CASE ActiveWith(client[c].key) # {}
    BY <1>2, <2>1 DEF EnqueueInsert
  <2>2. CASE ActiveWith(client[c].key) = {}
    <3>1. NewRow(client[c].key, KindOf(client[c].key), "inserting") \in Row
      BY NewRowType, KindOfType, ColumnValues
    <3>2. /\ nextId \in Ids /\ nextId' = nextId + 1
          /\ jobs' = [jobs EXCEPT ![nextId] =
                        NewRow(client[c].key, KindOf(client[c].key), "inserting")]
          /\ client' = [client EXCEPT ![c].pc = "commit", ![c].job = nextId]
          /\ UNCHANGED <<proc, runner, admin, exits, faults, history>>
      BY <1>2, <2>2 DEF EnqueueInsert
    <3>3. nextId' \in 1..MaxJobs + 1
      BY <3>2, NextIdBound
    <3>4. jobs' \in [Ids -> Row]
      BY <3>1, <3>2
    <3>5. [client[c] EXCEPT !.pc = "commit", !.job = nextId]
            \in [pc : RequestPcs, key : Keys \cup {NoKey}, job : Ids \cup {0}]
      BY <3>2, RequestUpdate
    <3>6. QED
      BY <3>2, <3>3, <3>4, <3>5
  <2>3. QED BY <2>1, <2>2
<1>3. ASSUME NEW c \in Clients, EnqueueRefind(c) PROVE TypeOK'
  BY <1>3 DEF EnqueueRefind
<1>4. ASSUME NEW c \in Clients, EnqueueCommit(c) PROVE TypeOK'
  <2>1. jobs' \in [Ids -> Row]
    BY <1>4, ColumnUpdates, ColumnValues DEF EnqueueCommit
  <2>2. QED
    BY <1>4, <2>1 DEF EnqueueCommit
<1>5. ASSUME NEW a \in Admins, NEW j \in Ids, RetryRead(a, j) PROVE TypeOK'
  BY <1>5 DEF RetryRead
<1>6. ASSUME NEW a \in Admins, RetryWrite(a) PROVE TypeOK'
  <2>1. jobs' \in [Ids -> Row] /\ late' \in [Ids -> Nat]
    BY <1>6, RowUpdates DEF RetryWrite
  <2>2. \A pc \in RetryPcs : [admin EXCEPT ![a].pc = pc]
              \in [Admins -> [pc : RetryPcs, job : Ids \cup {0}, sent : Nat]]
    OBVIOUS
  <2>3. admin' \in [Admins -> [pc : RetryPcs, job : Ids \cup {0}, sent : Nat]]
    BY <1>6, <2>2 DEF RetryWrite
  <2>4. QED
    BY <1>6, <2>1, <2>3 DEF RetryWrite
<1>7. CASE Claim
  <2>1. PICK j \in Ids : /\ jobs' = [jobs EXCEPT ![j] = Claimed(j)]
                        /\ claims' = [claims EXCEPT ![j] = @ + 1]
                        /\ runner' = [pc |-> "parse", job |-> j,
                                      attempt |-> jobs[j].attempts + 1, error |-> "none"]
    BY <1>7 DEF Claim
  <2>2. jobs[j].attempts + 1 \in Nat
    BY DEF Row
  <2>3. QED
    BY <1>7, <2>1, <2>2, RowUpdates, ColumnValues DEF Claim
<1>8. CASE ParsePayload
  BY <1>8, ColumnValues DEF ParsePayload, Dead, Idle
<1>9. CASE CheckCoolDown
  BY <1>9, ColumnValues DEF CheckCoolDown
<1>10. CASE HandlerReturns \/ HandlerRaises
  BY <1>10, ColumnValues DEF HandlerReturns, HandlerRaises
<1>11. CASE Succeed
  <2>1. jobs' \in [Ids -> Row]
    BY <1>11, ColumnUpdates, ColumnValues DEF Succeed
  <2>2. QED
    BY <1>11, <2>1, ColumnValues DEF Succeed, Idle
<1>12. CASE Fail
  <2>1. jobs' \in [Ids -> Row]
    BY <1>12, RowUpdates, ColumnUpdates DEF Fail
  <2>2. QED
    BY <1>12, <2>1, ColumnValues DEF Fail, Idle
<1>13. CASE DatabaseFault
  <2>1. Dead \in [pc : RunnerPcs, job : Ids \cup {0}, attempt : Nat, error : Errors]
    BY ColumnValues DEF Dead, Idle
  <2>2. [runner EXCEPT !.pc = "fail", !.error = "TRANSIENT"]
          \in [pc : RunnerPcs, job : Ids \cup {0}, attempt : Nat, error : Errors]
    BY ColumnValues
  <2>3. runner' \in [pc : RunnerPcs, job : Ids \cup {0}, attempt : Nat, error : Errors]
    BY <1>13, <2>1, <2>2 DEF DatabaseFault
  <2>4. QED
    BY <1>13, <2>3 DEF DatabaseFault
<1>14. CASE Boot
  BY <1>14, RowUpdates, ColumnValues DEF Boot, Idle
<1>15. ASSUME Stop, UNCHANGED exits \/ exits' = exits + 1 PROVE TypeOK'
  <2>1. jobs' \in [Ids -> Row]
    BY <1>15, ColumnUpdates, ColumnValues DEF Stop
  <2>2. client' \in [Clients -> [pc : RequestPcs, key : Keys \cup {NoKey}, job : Ids \cup {0}]]
    BY <1>15 DEF Stop
  <2>3. admin' \in [Admins -> [pc : RetryPcs, job : Ids \cup {0}, sent : Nat]]
    <3>1. \A a \in Admins : [admin[a] EXCEPT !.pc = "error"] \in [pc : RetryPcs, job : Ids \cup {0}, sent : Nat]
      OBVIOUS
    <3>2. admin' = [a \in Admins |-> IF admin[a].pc = "write"
                                     THEN [admin[a] EXCEPT !.pc = "error"] ELSE admin[a]]
      BY <1>15 DEF Stop
    <3>3. QED
      BY <3>1, <3>2
  <2>4. runner' \in [pc : RunnerPcs, job : Ids \cup {0}, attempt : Nat, error : Errors]
    BY <1>15, ColumnValues DEF Stop, Dead, Idle
  <2>5. proc' = "down" /\ UNCHANGED <<nextId, faults, claims, reaps, late>> /\ exits' \in Nat
    BY <1>15 DEF Stop
  <2>6. QED
    BY <2>1, <2>2, <2>3, <2>4, <2>5
<1>16. CASE Crash \/ ShutdownEnds
  BY <1>15, <1>16 DEF Crash, ShutdownEnds
<1>17. CASE Shutdown
  BY <1>17 DEF Shutdown
<1>18. ASSUME NEW j \in Ids, ClaimAges(j) \/ FailureAges(j) PROVE TypeOK'
  <2>1. \E r \in Row : jobs' = [jobs EXCEPT ![j] = r]
    BY <1>18, ColumnUpdates, ColumnValues DEF ClaimAges, FailureAges
  <2>2. QED
    BY <1>18, <2>1 DEF ClaimAges, FailureAges
<1>19. CASE UNCHANGED vars
  BY <1>19 DEF vars
<1>20. QED
  BY <1>1, <1>2, <1>3, <1>4, <1>5, <1>6, <1>7, <1>8, <1>9, <1>10, <1>11, <1>12,
     <1>13, <1>14, <1>16, <1>17, <1>18, <1>19
  DEF Next, Enqueue, Retry, RunnerStep, Time

\* The empty queue, or one with leftovers, is well typed.
LEMMA TypeInit == Init => TypeOK
<1> SUFFICES ASSUME Init PROVE TypeOK
  OBVIOUS
<1>1. jobs \in [Ids -> Row]
  BY NewRowType, ColumnValues DEF Init, Ids, Kinds
<1>2. QED
  BY <1>1, ColumnValues DEF Init, TypeOK, Dead, Idle, RequestPcs, RetryPcs, RunnerPcs

\* The tables, the loop and the requests keep their types in every execution.
THEOREM TypeCorrect == Spec => []TypeOK
BY TypeInit, TypeStep, PTL DEF Spec
-----------------------------------------------------------------------------
(* The inductive invariant.                                                 *)

\* What the row operators leave in the columns the invariant looks at.
LEMMA RowFields ==
    ASSUME jobs \in [Ids -> Row], NEW j \in Ids
    PROVE  /\ /\ Claimed(j).status = "running" /\ Claimed(j).key = jobs[j].key
              /\ Claimed(j).attempts = jobs[j].attempts + 1
           /\ /\ Requeued(j).status = "queued" /\ Requeued(j).key = jobs[j].key
              /\ Requeued(j).attempts = jobs[j].attempts
           /\ /\ Reap(j).status = "queued" /\ Reap(j).key = jobs[j].key
              /\ Reap(j).attempts = jobs[j].attempts + 1
           /\ \A s : /\ WithStatus(j, s).status = s /\ WithStatus(j, s).key = jobs[j].key
                     /\ WithStatus(j, s).attempts = jobs[j].attempts
           /\ /\ Succeeded(j).status = "success" /\ Succeeded(j).key = jobs[j].key
              /\ Succeeded(j).attempts = jobs[j].attempts
           /\ \A e : /\ Failed(j, e).status = "failed" /\ Failed(j, e).key = jobs[j].key
                     /\ Failed(j, e).attempts = jobs[j].attempts
BY DEF Row, Claimed, Requeued, Reap, WithStatus, Succeeded, Failed

LEMMA NewRowFields ==
    ASSUME NEW k, NEW kind, NEW s
    PROVE  /\ NewRow(k, kind, s).status = s /\ NewRow(k, kind, s).key = k
           /\ NewRow(k, kind, s).attempts = 0
BY DEF NewRow

\* The parts of JobInv that a step must restore besides the types.
Rest == IndexInv /\ FreshInv /\ CommitInv /\ HeldRowIsOurs /\ WriteInv /\ LedgerInv

\* The numbers the ledger adds up.
LEMMA LedgerTypes ==
    ASSUME JobInv
    PROVE  /\ MaxAttempts \in Nat /\ MaxAttempts > 0
           /\ \A j \in Ids : /\ claims[j] \in Nat /\ reaps[j] \in Nat /\ late[j] \in Nat
                              /\ jobs[j].attempts \in Nat
BY DEF JobInv, TypeOK, Row

\* A flushed insert (JobRepository.enqueue) finds its key free and its id unused.
LEMMA InsertStep ==
    ASSUME JobInv, NEW c \in Clients, EnqueueInsert(c)
    PROVE  Rest'
<1> DEFINE k == client[c].key
           r == NewRow(k, KindOf(k), "inserting")
<1>1. CASE ActiveWith(k) # {}
  <2>1. /\ UNCHANGED <<jobs, nextId, proc, runner, admin, exits, faults, history>>
        /\ client' = [client EXCEPT ![c].pc = "refind"]
    BY <1>1 DEF EnqueueInsert
  <2>2. CommitInv'
    BY <2>1 DEF JobInv, TypeOK, CommitInv
  <2>3. QED
    BY <2>1, <2>2 DEF Rest, JobInv, IndexInv, Indexed, FreshInv, HeldRowIsOurs, Holding,
      Active, WriteInv, LedgerInv, history
<1>2. CASE ActiveWith(k) = {}
  <2>1. /\ Inserting(k) = {} /\ nextId \in Ids /\ nextId' = nextId + 1
        /\ jobs' = [jobs EXCEPT ![nextId] = r]
        /\ client' = [client EXCEPT ![c].pc = "commit", ![c].job = nextId]
        /\ UNCHANGED <<proc, runner, admin, exits, faults, claims, reaps, late>>
    BY <1>2 DEF EnqueueInsert, history
  <2>2. r.status = "inserting" /\ r.key = k /\ r.attempts = 0
    BY NewRowFields
  <2>3. jobs \in [Ids -> Row] /\ nextId \in Nat /\ Ids \subseteq Nat
    BY DEF JobInv, TypeOK, Ids
  <2> HIDE DEF r
  <2>4. jobs[nextId].status = "absent" /\ claims[nextId] = 0 /\ reaps[nextId] = 0
    BY <2>1, <2>3 DEF JobInv, FreshInv
  <2>5. /\ jobs'[nextId] = r
        /\ \A j \in Ids : j # nextId => jobs'[j] = jobs[j]
    BY <2>1, <2>3
  <2>6. \A j \in Ids : Indexed(j) => jobs[j].key # k
    BY <1>2, <2>1 DEF Indexed, ActiveWith, Active, Inserting
  <2>7. IndexInv'
    BY <2>2, <2>5, <2>6 DEF JobInv, IndexInv, Indexed
  <2>8. FreshInv'
    BY <2>1, <2>3, <2>5 DEF JobInv, FreshInv
  <2>9. CommitInv'
    <3>1. \A d \in Clients : /\ d # c => client'[d] = client[d]
                             /\ client'[c].pc = "commit" /\ client'[c].job = nextId
      BY <2>1 DEF JobInv, TypeOK
    <3>2. \A d \in Clients : client[d].pc = "commit" => client[d].job # nextId
      BY <2>4 DEF JobInv, CommitInv
    <3>3. \A d \in Clients : client'[d].pc = "commit" =>
             client'[d].job \in Ids /\ jobs'[client'[d].job].status = "inserting"
      <4>1. ASSUME NEW d \in Clients, d # c, client[d].pc = "commit"
            PROVE  client[d].job \in Ids /\ jobs'[client[d].job].status = "inserting"
        BY <4>1, <2>5, <3>2 DEF JobInv, CommitInv
      <4>2. QED
        BY <2>1, <2>2, <2>5, <3>1, <4>1
    <3>4. \A d, e \in Clients : /\ client'[d].pc = "commit" /\ client'[e].pc = "commit"
                                /\ client'[d].job = client'[e].job
                                => d = e
      BY <3>1, <3>2 DEF JobInv, CommitInv
    <3>5. QED
      BY <3>3, <3>4 DEF CommitInv
  <2>10. HeldRowIsOurs'
    BY <2>1, <2>4, <2>5 DEF JobInv, HeldRowIsOurs, Holding, Active
  <2>11. WriteInv'
    BY <2>1, <2>4, <2>5 DEF JobInv, WriteInv
  <2>12. LedgerInv'
    BY <2>1, <2>2, <2>4, <2>5, LedgerTypes DEF JobInv, LedgerInv
  <2>13. QED
    BY <2>7, <2>8, <2>9, <2>10, <2>11, <2>12 DEF Rest
<1>3. QED BY <1>1, <1>2

\* The commit of an insert keeps the row in the index.
LEMMA CommitStep ==
    ASSUME JobInv, NEW c \in Clients, EnqueueCommit(c)
    PROVE  Rest'
<1> DEFINE n == client[c].job
<1>1. /\ client[c].pc = "commit" /\ n \in Ids /\ jobs[n].status = "inserting"
      /\ jobs' = [jobs EXCEPT ![n] = WithStatus(n, "queued")]
      /\ client' = [client EXCEPT ![c].pc = "new"]
      /\ UNCHANGED <<nextId, proc, runner, admin, exits, faults, claims, reaps, late>>
  BY DEF EnqueueCommit, JobInv, CommitInv, history
<1>2. jobs \in [Ids -> Row] /\ nextId \in Nat /\ Ids \subseteq Nat
  BY DEF JobInv, TypeOK, Ids
<1>3. /\ jobs'[n].status = "queued" /\ jobs'[n].key = jobs[n].key
      /\ jobs'[n].attempts = jobs[n].attempts
      /\ \A j \in Ids : j # n => jobs'[j] = jobs[j]
  BY <1>1, <1>2, RowFields
<1>4. \A d \in Clients : client'[d].pc = "commit" => d # c /\ client'[d] = client[d]
  BY <1>1 DEF JobInv, TypeOK
<1> HIDE DEF n
<1>5. IndexInv'
  BY <1>1, <1>3 DEF JobInv, IndexInv, Indexed
<1>6. FreshInv'
  BY <1>1, <1>3 DEF JobInv, FreshInv
<1>7. CommitInv'
  BY <1>1, <1>3, <1>4 DEF JobInv, CommitInv, n
<1>8. HeldRowIsOurs'
  BY <1>1, <1>3 DEF JobInv, HeldRowIsOurs, Holding, Active
<1>9. WriteInv'
  BY <1>1, <1>3 DEF JobInv, WriteInv
<1>10. LedgerInv'
  BY <1>1, <1>3, LedgerTypes DEF JobInv, LedgerInv
<1>11. QED BY <1>5, <1>6, <1>7, <1>8, <1>9, <1>10 DEF Rest

\* A retry write puts its row back into the index only when the key is free.
LEMMA RetryWriteStep ==
    ASSUME JobInv, NEW a \in Admins, RetryWrite(a)
    PROVE  Rest'
<1> DEFINE n == admin[a].job
<1>1. n \in Ids /\ jobs[n].status \notin {"absent", "inserting"}
  BY DEF RetryWrite, JobInv, WriteInv
<1>2. \A b \in Admins : admin'[b].pc = "write" => b # a /\ admin'[b] = admin[b]
  BY DEF RetryWrite, JobInv, TypeOK
<1>3. UNCHANGED <<nextId, proc, runner, client, exits, faults, claims, reaps>>
  BY DEF RetryWrite
<1>4. CASE ~DedupeFree(n)
  <2>1. UNCHANGED <<jobs, late>>
    BY <1>4 DEF RetryWrite
  <2>2. WriteInv'
    BY <1>2, <2>1 DEF JobInv, WriteInv
  <2>3. QED
    BY <1>3, <2>1, <2>2 DEF Rest, JobInv, IndexInv, Indexed, FreshInv, CommitInv,
      HeldRowIsOurs, Holding, Active, LedgerInv
<1>5. CASE DedupeFree(n)
  <2>1. /\ jobs[n].key = NoKey \/ Inserting(jobs[n].key) = {}
        /\ jobs' = [jobs EXCEPT ![n] = Requeued(n)]
        /\ late' = [late EXCEPT ![n] = IF LateFor(n) THEN @ + 1 ELSE @]
    BY <1>5 DEF RetryWrite
  <2>2. jobs \in [Ids -> Row] /\ late \in [Ids -> Nat] /\ Ids \subseteq Nat /\ nextId \in Nat
    BY DEF JobInv, TypeOK, Ids
  <2>3. /\ jobs'[n].status = "queued" /\ jobs'[n].key = jobs[n].key
        /\ jobs'[n].attempts = jobs[n].attempts
        /\ late'[n] = IF LateFor(n) THEN late[n] + 1 ELSE late[n]
        /\ \A j \in Ids : j # n => jobs'[j] = jobs[j] /\ late'[j] = late[j]
    BY <1>1, <2>1, <2>2, RowFields
  <2>4. \A j \in Ids : Indexed(j) /\ jobs[j].key = jobs[n].key /\ jobs[n].key # NoKey => j = n
    BY <1>5, <2>1 DEF DedupeFree, ActiveWith, Active, Inserting, Indexed
  <2> HIDE DEF n
  <2>5. IndexInv'
    BY <1>1, <2>3, <2>4 DEF JobInv, IndexInv, Indexed
  <2>6. FreshInv'
    BY <1>1, <1>3, <2>3 DEF JobInv, FreshInv
  <2>7. CommitInv'
    BY <1>1, <1>3, <2>3 DEF JobInv, CommitInv
  <2>8. HeldRowIsOurs'
    <3>1. jobs[n].status = "running" => late'[n] # 0
      BY <1>1, <2>2, <2>3 DEF LateFor
    <3>2. late[n] # 0 => late'[n] # 0
      BY <1>1, <2>2, <2>3
    <3>3. \A j \in Ids : Active(j) => Active(j)' /\ jobs'[j].attempts = jobs[j].attempts
      BY <2>3 DEF Active
    <3>4. Holding' = Holding
      BY <1>3 DEF Holding
    <3>5. QED
      BY <1>1, <1>3, <2>3, <3>1, <3>2, <3>3, <3>4 DEF JobInv, HeldRowIsOurs
  <2>9. WriteInv'
    BY <1>1, <1>2, <2>3 DEF JobInv, WriteInv, n
  <2>10. LedgerInv'
    <3>1. ~LateFor(n) => jobs[n].attempts < MaxAttempts
      BY LedgerTypes, <1>1 DEF LateFor
    <3>2. QED
      BY <1>1, <1>3, <2>3, <3>1, LedgerTypes DEF JobInv, LedgerInv
  <2>11. QED BY <2>5, <2>6, <2>7, <2>8, <2>9, <2>10 DEF Rest
<1>6. QED BY <1>4, <1>5

\* A claim moves one queued row to running and remembers its attempt count.
LEMMA ClaimStep ==
    ASSUME JobInv, Claim
    PROVE  Rest'
<1>1. PICK n \in Ids :
        /\ jobs[n].status = "queued"
        /\ jobs' = [jobs EXCEPT ![n] = Claimed(n)]
        /\ claims' = [claims EXCEPT ![n] = @ + 1]
        /\ runner' = [pc |-> "parse", job |-> n,
                      attempt |-> jobs[n].attempts + 1, error |-> "none"]
  BY DEF Claim, Claimable
<1>2. UNCHANGED <<nextId, proc, client, admin, exits, faults, reaps, late>>
  BY DEF Claim
<1>3. jobs \in [Ids -> Row] /\ claims \in [Ids -> Nat] /\ Ids \subseteq Nat /\ nextId \in Nat
  BY DEF JobInv, TypeOK, Ids
<1>4. /\ jobs'[n].status = "running" /\ jobs'[n].key = jobs[n].key
      /\ jobs'[n].attempts = jobs[n].attempts + 1
      /\ claims'[n] = claims[n] + 1
      /\ \A j \in Ids : j # n => jobs'[j] = jobs[j] /\ claims'[j] = claims[j]
  BY <1>1, <1>3, RowFields
<1>5. IndexInv'
  BY <1>1, <1>4 DEF JobInv, IndexInv, Indexed
<1>6. FreshInv'
  BY <1>1, <1>2, <1>4 DEF JobInv, FreshInv
<1>7. CommitInv'
  BY <1>1, <1>2, <1>4 DEF JobInv, CommitInv
<1>8. HeldRowIsOurs'
  BY <1>1, <1>4 DEF HeldRowIsOurs, Holding, Active
<1>9. WriteInv'
  BY <1>1, <1>2, <1>4 DEF JobInv, WriteInv
<1>10. LedgerInv'
  BY <1>1, <1>2, <1>4, LedgerTypes DEF JobInv, LedgerInv
<1>11. QED BY <1>5, <1>6, <1>7, <1>8, <1>9, <1>10 DEF Rest

\* Recording an outcome takes the held row out of the index or requeues it with
\* attempts left (_succeed_job, _fail_job).
LEMMA RecordStep ==
    ASSUME JobInv, Succeed \/ Fail
    PROVE  Rest'
<1> DEFINE n == runner.job
<1>1. /\ n \in Ids /\ Active(n) /\ jobs[n].attempts = runner.attempt
      /\ runner' = Idle
      /\ UNCHANGED <<nextId, proc, client, admin, exits, faults, claims, reaps, late>>
  BY DEF Succeed, Fail, JobInv, HeldRowIsOurs, Holding, history
<1>2. jobs \in [Ids -> Row] /\ Ids \subseteq Nat /\ nextId \in Nat
  BY DEF JobInv, TypeOK, Ids
<1>3. \/ jobs' = [jobs EXCEPT ![n] = Succeeded(n)]
      \/ \E e : jobs' = [jobs EXCEPT ![n] = Failed(n, e)]
      \/ runner.attempt < MaxAttempts /\ jobs' = [jobs EXCEPT ![n] = Requeued(n)]
  BY DEF Succeed, Fail
<1>4. /\ jobs'[n].key = jobs[n].key /\ jobs'[n].attempts = jobs[n].attempts
      /\ \/ jobs'[n].status \in {"success", "failed"}
         \/ jobs'[n].status = "queued" /\ jobs[n].attempts < MaxAttempts
      /\ \A j \in Ids : j # n => jobs'[j] = jobs[j]
  <2>1. /\ Succeeded(n).status = "success" /\ Succeeded(n).key = jobs[n].key
        /\ Succeeded(n).attempts = jobs[n].attempts
        /\ Requeued(n).status = "queued" /\ Requeued(n).key = jobs[n].key
        /\ Requeued(n).attempts = jobs[n].attempts
        /\ \A e : /\ Failed(n, e).status = "failed" /\ Failed(n, e).key = jobs[n].key
                  /\ Failed(n, e).attempts = jobs[n].attempts
    BY <1>1, <1>2, RowFields
  <2> HIDE DEF n
  <2>2. \A r : jobs' = [jobs EXCEPT ![n] = r] =>
               jobs'[n] = r /\ \A j \in Ids : j # n => jobs'[j] = jobs[j]
    BY <1>1, <1>2
  <2>3. QED
    BY <1>1, <1>3, <2>1, <2>2 DEF n
<1> HIDE DEF n
<1>5. IndexInv'
  BY <1>1, <1>4 DEF JobInv, IndexInv, Indexed, Active
<1>6. FreshInv'
  BY <1>1, <1>4 DEF JobInv, FreshInv, Active
<1>7. CommitInv'
  BY <1>1, <1>4 DEF JobInv, CommitInv, Active
<1>8. HeldRowIsOurs'
  BY <1>1 DEF HeldRowIsOurs, Holding, Idle
<1>9. WriteInv'
  BY <1>1, <1>4 DEF JobInv, WriteInv, Active
<1>10. LedgerInv'
  BY <1>1, <1>4, LedgerTypes DEF JobInv, LedgerInv, Active
<1>11. QED BY <1>5, <1>6, <1>7, <1>8, <1>9, <1>10 DEF Rest

\* Startup: the reaper requeues running rows that have attempts left.
LEMMA BootStep ==
    ASSUME JobInv, Boot
    PROVE  Rest'
<1>1. UNCHANGED <<nextId, client, admin, exits, faults, claims, late>> /\ runner' = Idle
  BY DEF Boot
<1>2. jobs \in [Ids -> Row] /\ reaps \in [Ids -> Nat] /\ Ids \subseteq Nat /\ nextId \in Nat
  BY DEF JobInv, TypeOK, Ids
<1>3. \A j \in Ids :
        \/ jobs'[j] = jobs[j] /\ reaps'[j] = reaps[j]
        \/ /\ jobs[j].status = "running" /\ jobs[j].attempts < MaxAttempts
           /\ jobs'[j].status = "queued" /\ jobs'[j].key = jobs[j].key
           /\ jobs'[j].attempts = jobs[j].attempts + 1 /\ reaps'[j] = reaps[j] + 1
  BY <1>2, RowFields DEF Boot, Reapable
<1>4. IndexInv'
  BY <1>3 DEF JobInv, IndexInv, Indexed
<1>5. FreshInv'
  BY <1>1, <1>3 DEF JobInv, FreshInv
<1>6. CommitInv'
  BY <1>1, <1>3 DEF JobInv, CommitInv
<1>7. HeldRowIsOurs'
  BY <1>1 DEF HeldRowIsOurs, Holding, Idle
<1>8. WriteInv'
  BY <1>1, <1>3 DEF JobInv, WriteInv
<1>9. LedgerInv'
  BY <1>1, <1>3, LedgerTypes DEF JobInv, LedgerInv
<1>10. QED BY <1>4, <1>5, <1>6, <1>7, <1>8, <1>9 DEF Rest

\* An exit rolls the open inserts back and forgets the requests and the loop.
LEMMA StopStep ==
    ASSUME JobInv, Stop
    PROVE  Rest'
<1>1. /\ UNCHANGED <<nextId, faults, claims, reaps, late>> /\ runner' = Dead
      /\ \A c \in Clients : client'[c].pc # "commit"
      /\ \A a \in Admins : admin'[a].pc # "write"
  BY DEF Stop, JobInv, TypeOK, history
<1>2. jobs \in [Ids -> Row] /\ Ids \subseteq Nat /\ nextId \in Nat
  BY DEF JobInv, TypeOK, Ids
<1>3. \A j \in Ids : \/ jobs'[j] = jobs[j] /\ jobs[j].status # "inserting"
                     \/ /\ jobs[j].status = "inserting" /\ jobs'[j].status = "absent"
                        /\ jobs'[j].attempts = jobs[j].attempts
  BY <1>2, RowFields DEF Stop
<1>4. IndexInv'
  BY <1>3 DEF JobInv, IndexInv, Indexed
<1>5. FreshInv'
  BY <1>1, <1>3 DEF JobInv, FreshInv
<1>6. CommitInv' /\ WriteInv'
  BY <1>1 DEF CommitInv, WriteInv
<1>7. HeldRowIsOurs'
  BY <1>1 DEF HeldRowIsOurs, Holding, Dead, Idle
<1>8. LedgerInv'
  BY <1>1, <1>3, LedgerTypes DEF JobInv, LedgerInv
<1>9. QED BY <1>4, <1>5, <1>6, <1>7, <1>8 DEF Rest

\* Time changes no status, key or attempt count.
LEMMA TimeStep ==
    ASSUME JobInv, NEW n \in Ids, ClaimAges(n) \/ FailureAges(n)
    PROVE  Rest'
<1>1. UNCHANGED <<nextId, proc, runner, client, admin, exits, faults, claims, reaps, late>>
  BY DEF ClaimAges, FailureAges, history
<1>2. jobs \in [Ids -> Row]
  BY DEF JobInv, TypeOK
<1>3. \A j \in Ids : /\ jobs'[j].status = jobs[j].status /\ jobs'[j].key = jobs[j].key
                     /\ jobs'[j].attempts = jobs[j].attempts
  BY <1>2 DEF ClaimAges, FailureAges, Row
<1>4. QED
  BY <1>1, <1>3 DEF Rest, JobInv, IndexInv, Indexed, FreshInv, CommitInv, HeldRowIsOurs,
    Holding, Active, WriteInv, LedgerInv

\* The steps that write no row: reads, the loop's own decisions, a fault, SIGTERM.
QuietStep ==
    \/ \E c \in Clients : (\E k \in Keys : EnqueueFind(c, k)) \/ EnqueueRefind(c)
    \/ \E a \in Admins, j \in Ids : RetryRead(a, j)
    \/ ParsePayload \/ CheckCoolDown \/ HandlerReturns \/ HandlerRaises
    \/ DatabaseFault \/ Shutdown

\* The checks of a retry request touch its own locals only.
LEMMA ReadsOne ==
    ASSUME JobInv, NEW a \in Admins, NEW j \in Ids, RetryRead(a, j)
    PROVE  /\ admin'[a].job = j
           /\ admin'[a].pc = "write" => RetryChecks(j)
           /\ \A b \in Admins : b # a => admin'[b] = admin[b]
<1> DEFINE pc == IF RetryChecks(j) /\ DedupeFree(j) THEN "write" ELSE "conflict"
           v == [pc |-> pc, job |-> j, sent |-> admin[a].sent + 1]
<1>1. admin' = [admin EXCEPT ![a] = v]
  BY DEF RetryRead
<1>2. v.job = j /\ v.pc = pc
  OBVIOUS
<1> HIDE DEF v
<1>3. admin'[a] = v /\ \A b \in Admins : b # a => admin'[b] = admin[b]
  BY <1>1 DEF JobInv, TypeOK
<1>4. QED
  BY <1>2, <1>3

\* None of them forgets a held job, a pending insert or a retry's checks.
LEMMA QuietStepPreserves ==
    ASSUME JobInv, QuietStep
    PROVE  Rest'
<1>1. UNCHANGED <<jobs, nextId, claims, reaps, late>>
  BY DEF QuietStep, EnqueueFind, EnqueueRefind, RetryRead, ParsePayload, CheckCoolDown,
    HandlerReturns, HandlerRaises, DatabaseFault, Shutdown, history
<1>2. \A c \in Clients : client'[c].pc = "commit" => client'[c] = client[c]
  <2>1. ASSUME NEW c \in Clients, NEW k, NEW pc, pc # "commit",
               \/ client' = [client EXCEPT ![c].key = k, ![c].pc = pc]
               \/ client' = [client EXCEPT ![c].pc = pc]
        PROVE  \A d \in Clients : client'[d].pc = "commit" => client'[d] = client[d]
    BY <2>1 DEF JobInv, TypeOK
  <2>2. \/ UNCHANGED client
        \/ \E c \in Clients : (\E k \in Keys : EnqueueFind(c, k)) \/ EnqueueRefind(c)
    BY DEF QuietStep, RetryRead, ParsePayload, CheckCoolDown, HandlerReturns, HandlerRaises,
      DatabaseFault, Shutdown
  <2>3. ASSUME NEW c \in Clients, NEW k \in Keys, EnqueueFind(c, k)
        PROVE  \A d \in Clients : client'[d].pc = "commit" => client'[d] = client[d]
    <3> DEFINE pc == IF ActiveWith(k) # {} THEN "existing" ELSE "insert"
    <3>1. client' = [client EXCEPT ![c].key = k, ![c].pc = pc] /\ pc # "commit"
      BY <2>3 DEF EnqueueFind
    <3> HIDE DEF pc
    <3>2. QED
      BY <2>1, <3>1
  <2>4. ASSUME NEW c \in Clients, EnqueueRefind(c)
        PROVE  \A d \in Clients : client'[d].pc = "commit" => client'[d] = client[d]
    <3> DEFINE pc == IF ActiveWith(client[c].key) # {} THEN "existing" ELSE "error"
    <3>1. client' = [client EXCEPT ![c].pc = pc] /\ pc # "commit"
      BY <2>4 DEF EnqueueRefind
    <3> HIDE DEF pc
    <3>2. QED
      BY <2>1, <3>1
  <2>5. QED
    BY <2>2, <2>3, <2>4
<1>3. HeldRowIsOurs'
  <2>1. \/ UNCHANGED runner
        \/ runner'.pc \in {"idle", "dead"}
        \/ Holding /\ runner'.job = runner.job /\ runner'.attempt = runner.attempt
    <3>1. runner \in [pc : RunnerPcs, job : Ids \cup {0}, attempt : Nat, error : Errors]
      BY DEF JobInv, TypeOK
    <3>2. QED
      BY <3>1 DEF QuietStep, EnqueueFind, EnqueueRefind, RetryRead, ParsePayload, CheckCoolDown,
        HandlerReturns, HandlerRaises, DatabaseFault, Shutdown, Holding, Dead, Idle
  <2>2. QED
    BY <1>1, <2>1 DEF JobInv, HeldRowIsOurs, Holding, Active
<1>4. WriteInv'
  <2>1. CASE \E a \in Admins, j \in Ids : RetryRead(a, j)
    <3>1. PICK a \in Admins, j \in Ids : RetryRead(a, j)
      BY <2>1
    <3>2. /\ admin'[a].job = j
          /\ \A b \in Admins : b # a => admin'[b] = admin[b]
      BY <3>1, ReadsOne
    <3>3. \A b \in Admins : admin'[b].pc = "write" =>
              /\ admin'[b].job \in Ids
              /\ jobs[admin'[b].job].status \notin {"absent", "inserting"}
      BY <3>1, <3>2 DEF JobInv, WriteInv, RetryRead
    <3>4. QED
      BY <1>1, <3>3 DEF WriteInv
  <2>2. CASE UNCHANGED admin
    BY <1>1, <2>2 DEF JobInv, WriteInv
  <2>3. QED
    BY <2>1, <2>2 DEF QuietStep, EnqueueFind, EnqueueRefind, ParsePayload, CheckCoolDown,
      HandlerReturns, HandlerRaises, DatabaseFault, Shutdown
<1>5. QED
  BY <1>1, <1>2, <1>3, <1>4 DEF Rest, JobInv, IndexInv, Indexed, FreshInv, CommitInv, LedgerInv

\* Every step is of one of the kinds above.
LEMMA StepKinds ==
    ASSUME [Next]_vars
    PROVE  \/ \E c \in Clients : EnqueueInsert(c) \/ EnqueueCommit(c)
           \/ \E a \in Admins : RetryWrite(a)
           \/ Claim \/ Succeed \/ Fail \/ Boot \/ Stop
           \/ \E j \in Ids : ClaimAges(j) \/ FailureAges(j)
           \/ QuietStep
           \/ UNCHANGED vars
BY DEF Next, Enqueue, Retry, RunnerStep, Time, Crash, ShutdownEnds, QuietStep

-----------------------------------------------------------------------------
(* Orphans and the cool-down.                                               *)

\* The columns that no update of a row changes, and what makes a row a recent violation.
LEMMA RowKinds ==
    ASSUME jobs \in [Ids -> Row], NEW j \in Ids
    PROVE  /\ Claimed(j).kind = jobs[j].kind /\ Requeued(j).kind = jobs[j].kind
           /\ Reap(j).kind = jobs[j].kind /\ Succeeded(j).kind = jobs[j].kind
           /\ \A s : WithStatus(j, s).kind = jobs[j].kind
           /\ \A e : Failed(j, e).kind = jobs[j].kind /\ Failed(j, e).error = e
BY DEF Row, Claimed, Requeued, Reap, WithStatus, Succeeded, Failed

\* What a step may do to the row j: no row starts running but the one the loop takes in
\* hand, only the insert of a new row touches key and kind, only the loop adds a failure.
Kept(j) ==
    /\ jobs'[j].status = "running" =>
         \/ jobs[j].status = "running"
         \/ Holding' /\ runner'.job = j
    /\ \/ jobs'[j].key = jobs[j].key /\ jobs'[j].kind = jobs[j].kind
       \/ j = nextId /\ nextId' = nextId + 1 /\ jobs'[j].kind # "poison"
    /\ jobs'[j].status = "failed" =>
         jobs'[j] = jobs[j] \/ jobs'[j].finished # "recent" \/ Fail

LEMMA RowsKept == ASSUME JobInv, [Next]_vars PROVE \A j \in Ids : Kept(j)
<1>1. jobs \in [Ids -> Row] /\ nextId \in Nat
  BY DEF JobInv, TypeOK
<1>2. ASSUME UNCHANGED jobs PROVE \A j \in Ids : Kept(j)
  BY <1>2 DEF Kept
<1>3. ASSUME NEW n \in Ids, Kept(n), \E r : jobs' = [jobs EXCEPT ![n] = r]
      PROVE  \A j \in Ids : Kept(j)
  <2>1. \A j \in Ids : j # n => jobs'[j] = jobs[j]
    BY <1>1, <1>3
  <2>2. QED
    BY <1>3, <2>1 DEF Kept
<1>4. ASSUME NEW c \in Clients, EnqueueInsert(c) PROVE \A j \in Ids : Kept(j)
  <2> DEFINE k == client[c].key
             r == NewRow(k, KindOf(k), "inserting")
  <2>1. \/ UNCHANGED jobs
        \/ nextId \in Ids /\ nextId' = nextId + 1 /\ jobs' = [jobs EXCEPT ![nextId] = r]
    BY <1>4 DEF EnqueueInsert
  <2>2. r.status = "inserting" /\ r.kind # "poison"
    BY DEF NewRow, KindOf
  <2> HIDE DEF r
  <2>3. ASSUME nextId \in Ids, nextId' = nextId + 1, jobs' = [jobs EXCEPT ![nextId] = r]
        PROVE  Kept(nextId)
    BY <1>1, <2>2, <2>3 DEF Kept
  <2>4. QED
    BY <1>2, <1>3, <2>1, <2>3
<1>5. ASSUME NEW c \in Clients, EnqueueCommit(c) PROVE \A j \in Ids : Kept(j)
  <2>1. PICK n \in Ids : jobs' = [jobs EXCEPT ![n] = WithStatus(n, "queued")]
    BY <1>5 DEF EnqueueCommit, JobInv, CommitInv
  <2>2. jobs'[n] = WithStatus(n, "queued")
    BY <1>1, <2>1
  <2>3. Kept(n)
    BY <1>1, <2>2, RowFields, RowKinds DEF Kept
  <2>4. QED
    BY <1>3, <2>1, <2>3
<1>6. ASSUME NEW a \in Admins, RetryWrite(a) PROVE \A j \in Ids : Kept(j)
  <2>1. PICK n \in Ids : UNCHANGED jobs \/ jobs' = [jobs EXCEPT ![n] = Requeued(n)]
    BY <1>6 DEF RetryWrite, JobInv, WriteInv
  <2>2. CASE jobs' = [jobs EXCEPT ![n] = Requeued(n)]
    <3>1. jobs'[n] = Requeued(n)
      BY <1>1, <2>2
    <3>2. Kept(n)
      BY <1>1, <3>1, RowFields, RowKinds DEF Kept
    <3>3. QED
      BY <1>3, <2>2, <3>2
  <2>3. QED
    BY <1>2, <2>1, <2>2
<1>7. ASSUME Claim PROVE \A j \in Ids : Kept(j)
  <2>1. PICK n \in Ids : /\ jobs' = [jobs EXCEPT ![n] = Claimed(n)]
                        /\ runner' = [pc |-> "parse", job |-> n,
                                      attempt |-> jobs[n].attempts + 1, error |-> "none"]
    BY <1>7 DEF Claim
  <2>2. runner'.job = n /\ Holding' /\ jobs'[n] = Claimed(n)
    BY <1>1, <2>1 DEF Holding
  <2>3. Kept(n)
    BY <1>1, <2>2, RowFields, RowKinds DEF Kept
  <2>4. QED
    BY <1>3, <2>1, <2>3
<1>8. ASSUME Succeed \/ Fail PROVE \A j \in Ids : Kept(j)
  <2> DEFINE n == runner.job
  <2>1. n \in Ids
    BY <1>8 DEF Succeed, Fail, JobInv, HeldRowIsOurs, Holding
  <2>2. \/ jobs' = [jobs EXCEPT ![n] = Succeeded(n)]
        \/ Fail /\ jobs' = [jobs EXCEPT ![n] = Failed(n, runner.error)]
        \/ jobs' = [jobs EXCEPT ![n] = Requeued(n)]
    BY <1>8 DEF Succeed, Fail
  <2> HIDE DEF n
  <2>3. \/ jobs'[n] = Succeeded(n)
        \/ jobs'[n] = Failed(n, runner.error) /\ Fail
        \/ jobs'[n] = Requeued(n)
    BY <1>1, <2>1, <2>2
  <2>4. Kept(n)
    <3>1. CASE jobs'[n] = Succeeded(n)
      BY <1>1, <2>1, <3>1, RowFields, RowKinds DEF Kept
    <3>2. CASE jobs'[n] = Requeued(n)
      BY <1>1, <2>1, <3>2, RowFields, RowKinds DEF Kept
    <3>3. CASE jobs'[n] = Failed(n, runner.error) /\ Fail
      <4>1. jobs'[n].status = "failed" /\ jobs'[n].key = jobs[n].key /\ jobs'[n].kind = jobs[n].kind
        BY <1>1, <2>1, <3>3, RowFields, RowKinds
      <4>2. QED
        BY <3>3, <4>1 DEF Kept
    <3>4. QED
      BY <2>3, <3>1, <3>2, <3>3
  <2>5. QED
    BY <1>3, <2>1, <2>2, <2>4
<1>9. ASSUME Boot PROVE \A j \in Ids : Kept(j)
  <2>1. ASSUME NEW j \in Ids PROVE jobs'[j] = jobs[j] \/ jobs'[j] = Reap(j)
    BY <1>9 DEF Boot
  <2>2. QED
    BY <1>1, <2>1, RowFields, RowKinds DEF Kept
<1>10. ASSUME Stop PROVE \A j \in Ids : Kept(j)
  <2>1. ASSUME NEW j \in Ids PROVE jobs'[j] = jobs[j] \/ jobs'[j] = WithStatus(j, "absent")
    BY <1>10 DEF Stop
  <2>2. QED
    BY <1>1, <2>1, RowFields, RowKinds DEF Kept
<1>11. ASSUME NEW n \in Ids, ClaimAges(n) \/ FailureAges(n) PROVE \A j \in Ids : Kept(j)
  <2>1. \/ /\ jobs[n].status = "running"
           /\ jobs' = [jobs EXCEPT ![n] = [jobs[n] EXCEPT !.started = "old"]]
        \/ jobs' = [jobs EXCEPT ![n] = [jobs[n] EXCEPT !.finished = "old"]]
    BY <1>11 DEF ClaimAges, FailureAges
  <2>2. /\ jobs'[n].status = jobs[n].status /\ jobs'[n].key = jobs[n].key
        /\ jobs'[n].kind = jobs[n].kind
        /\ jobs[n].status = "running" \/ jobs'[n].finished = "old"
    BY <1>1, <2>1 DEF Row
  <2>3. Kept(n)
    BY <2>2 DEF Kept
  <2>4. QED
    BY <1>3, <2>1, <2>3
<1>12. ASSUME QuietStep \/ UNCHANGED vars PROVE UNCHANGED jobs
  BY <1>12 DEF QuietStep, EnqueueFind, EnqueueRefind, RetryRead, ParsePayload, CheckCoolDown,
    HandlerReturns, HandlerRaises, DatabaseFault, Shutdown, vars
<1>13. QED
  BY StepKinds, <1>2, <1>4, <1>5, <1>6, <1>7, <1>8, <1>9, <1>10, <1>11, <1>12

\* How the loop lets go of a job: it records the outcome, or something has gone wrong.
LEMMA LetGo ==
    ASSUME JobInv, [Next]_vars, Holding
    PROVE  \/ Holding' /\ runner'.job = runner.job
           \/ jobs'[runner.job].status # "running"
           \/ jobs[runner.job].kind = "poison"
           \/ exits' > 0 \/ faults' > 0
<1>1. /\ runner.job \in Ids /\ jobs \in [Ids -> Row] /\ exits \in Nat /\ faults \in Nat
      /\ runner \in [pc : RunnerPcs, job : Ids \cup {0}, attempt : Nat, error : Errors]
      /\ proc # "down" /\ (proc = "draining" => exits > 0)
  BY DEF JobInv, HeldRowIsOurs, TypeOK, OrphanInv
<1>2. CASE UNCHANGED runner
  BY <1>2 DEF Holding
<1>3. CASE Succeed \/ Fail
  <2>1. \/ jobs' = [jobs EXCEPT ![runner.job] = Succeeded(runner.job)]
        \/ \E e : jobs' = [jobs EXCEPT ![runner.job] = Failed(runner.job, e)]
        \/ jobs' = [jobs EXCEPT ![runner.job] = Requeued(runner.job)]
    BY <1>3 DEF Succeed, Fail
  <2>2. QED
    BY <1>1, <2>1, RowFields
<1>4. CASE ParsePayload
  BY <1>1, <1>4 DEF ParsePayload, Holding
<1>5. CASE CheckCoolDown \/ HandlerReturns \/ HandlerRaises
  BY <1>1, <1>5 DEF CheckCoolDown, HandlerReturns, HandlerRaises, Holding
<1>6. CASE DatabaseFault
  BY <1>1, <1>6 DEF DatabaseFault
<1>7. CASE Crash \/ ShutdownEnds
  BY <1>1, <1>7 DEF Crash, ShutdownEnds
<1>8. CASE Claim \/ Boot
  BY <1>1, <1>8 DEF Claim, Boot, Holding
<1>9. QED
  BY <1>2, <1>3, <1>4, <1>5, <1>6, <1>7, <1>8 DEF Next, Enqueue, Retry, RunnerStep, Time,
    EnqueueFind, EnqueueInsert, EnqueueRefind, EnqueueCommit, RetryRead, RetryWrite, Shutdown,
    ClaimAges, FailureAges, vars

\* What has gone wrong once stays on record, and ids are handed out upwards.
LEMMA Recorded ==
    ASSUME JobInv, [Next]_vars
    PROVE  exits' >= exits /\ faults' >= faults /\ nextId' >= nextId
<1>1. exits \in Nat /\ faults \in Nat /\ nextId \in Nat
  BY DEF JobInv, TypeOK
<1>2. UNCHANGED nextId \/ nextId' = nextId + 1
  BY DEF Next, Enqueue, Retry, RunnerStep, Time, EnqueueFind, EnqueueInsert, EnqueueRefind,
    EnqueueCommit, RetryRead, RetryWrite, Claim, ParsePayload, CheckCoolDown, HandlerReturns,
    HandlerRaises, Succeed, Fail, DatabaseFault, Boot, Crash, Shutdown, ShutdownEnds, Stop,
    ClaimAges, FailureAges, vars
<1>3. UNCHANGED exits \/ exits' = exits + 1
  BY DEF Next, Enqueue, Retry, RunnerStep, Time, EnqueueFind, EnqueueInsert, EnqueueRefind,
    EnqueueCommit, RetryRead, RetryWrite, Claim, ParsePayload, CheckCoolDown, HandlerReturns,
    HandlerRaises, Succeed, Fail, DatabaseFault, Boot, Crash, Shutdown, ShutdownEnds, Stop,
    ClaimAges, FailureAges, vars
<1>4. UNCHANGED faults \/ faults' = faults + 1
  BY DEF Next, Enqueue, Retry, RunnerStep, Time, EnqueueFind, EnqueueInsert, EnqueueRefind,
    EnqueueCommit, RetryRead, RetryWrite, Claim, ParsePayload, CheckCoolDown, HandlerReturns,
    HandlerRaises, Succeed, Fail, DatabaseFault, Boot, Crash, Shutdown, ShutdownEnds, Stop,
    ClaimAges, FailureAges, vars
<1>5. QED
  BY <1>1, <1>2, <1>3, <1>4

LEMMA OrphanStep == ASSUME JobInv, [Next]_vars PROVE OrphanInv'
<1> DEFINE Poison == \E i \in Ids : jobs[i].kind = "poison"
<1>1. /\ exits \in Nat /\ faults \in Nat /\ nextId \in Nat /\ Ids \subseteq Nat
      /\ exits' \in Nat /\ faults' \in Nat /\ nextId' \in Nat
  <2>1. TypeOK /\ TypeOK'
    BY TypeStep DEF JobInv
  <2>2. QED
    BY <2>1 DEF TypeOK, Ids
<1>2. Poison => Poison'
  <2>1. ASSUME NEW i \in Ids, jobs[i].kind = "poison" PROVE jobs'[i].kind = "poison"
    <3>1. i # nextId
      <4>1. i >= nextId => jobs[i].kind # "poison"
        BY DEF JobInv, OrphanInv
      <4>2. QED
        BY <1>1, <2>1, <4>1
    <3>2. Kept(i)
      BY RowsKept
    <3>3. QED
      BY <2>1, <3>1, <3>2 DEF Kept
  <2>2. QED
    BY <2>1
<1>3. OrphanNeedsFault'
  <2> SUFFICES ASSUME NEW j \in Ids, Orphan(j)' PROVE exits' > 0 \/ faults' > 0 \/ Poison'
    BY DEF OrphanNeedsFault
  <2>1. jobs[j].status = "running" /\ ~(Holding' /\ runner'.job = j)
    BY RowsKept DEF Kept, Orphan, Holds
  <2>2. CASE Orphan(j)
    BY <1>1, <1>2, <2>2, Recorded DEF JobInv, OrphanInv, OrphanNeedsFault
  <2>3. CASE Holds(j)
    BY <1>2, <2>1, <2>3, LetGo DEF Holds, Orphan
  <2>4. QED
    BY <2>1, <2>2, <2>3 DEF Orphan
<1>4. (proc = "down" => ~Holding)' /\ (proc = "draining" => exits > 0)'
  <2>1. CASE proc' = proc /\ (Holding' => Holding) /\ proc # "down"
    BY <1>1, <2>1, Recorded DEF JobInv, OrphanInv
  <2>2. CASE UNCHANGED <<proc, runner>>
    BY <1>1, <2>2, Recorded DEF JobInv, OrphanInv, Holding
  <2>3. CASE proc' = "up"
    BY <2>3
  <2>4. CASE proc' = "down" /\ runner' = Dead
    BY <2>4 DEF Holding, Dead, Idle
  <2>5. CASE Shutdown
    BY <1>1, <2>5 DEF Shutdown
  <2>6. CASE RunnerStep \/ DatabaseFault
    <3>1. UNCHANGED proc /\ (Claim \/ Holding \/ ~Holding')
      BY <2>6 DEF RunnerStep, ParsePayload, CheckCoolDown, HandlerReturns, HandlerRaises, Succeed,
        Fail, DatabaseFault, Holding, Claim, Dead, Idle
    <3>2. Claim => proc = "up"
      BY DEF Claim
    <3>3. QED
      BY <1>1, <3>1, <3>2, Recorded DEF JobInv, OrphanInv
  <2>7. QED
    BY <2>2, <2>3, <2>4, <2>5, <2>6 DEF Next, Enqueue, Retry, Time, EnqueueFind, EnqueueInsert,
      EnqueueRefind, EnqueueCommit, RetryRead, RetryWrite, Boot, Crash, ShutdownEnds, Stop,
      ClaimAges, FailureAges, vars
<1>5. \A j \in Ids : j >= nextId' => jobs'[j].kind # "poison"
  BY <1>1, Recorded, RowsKept DEF Kept, JobInv, OrphanInv
<1>6. QED
  BY <1>3, <1>4, <1>5 DEF OrphanInv

\* Only the loop, when it records a contract violation, adds to the recent ones.
LEMMA Violations ==
    ASSUME JobInv, [Next]_vars, NEW p
    PROVE  \/ RecentViolations(p)' \subseteq RecentViolations(p)
           \/ /\ runner.pc = "fail" /\ runner.error = "DATA_CONTRACT_VIOLATION"
              /\ jobs[runner.job].kind = "fetch" /\ Product[jobs[runner.job].key] = p
              /\ RecentViolations(p)' \subseteq RecentViolations(p) \cup {runner.job}
<1>1. jobs \in [Ids -> Row] /\ nextId \in Nat /\ Ids \subseteq Nat
  BY DEF JobInv, TypeOK, Ids
<1>2. ASSUME NEW j \in RecentViolations(p)', jobs'[j] = jobs[j] PROVE j \in RecentViolations(p)
  BY <1>2 DEF RecentViolations
<1>3. ASSUME ~Fail PROVE RecentViolations(p)' \subseteq RecentViolations(p)
  BY <1>2, <1>3, RowsKept DEF Kept, RecentViolations
<1>4. ASSUME Fail, NEW j \in RecentViolations(p)', j \notin RecentViolations(p)
      PROVE  /\ j = runner.job /\ runner.error = "DATA_CONTRACT_VIOLATION"
             /\ jobs[j].kind = "fetch" /\ Product[jobs[j].key] = p
  <2> DEFINE n == runner.job
  <2>1. n \in Ids
    BY <1>4 DEF Fail, JobInv, HeldRowIsOurs, Holding
  <2>2. \/ jobs' = [jobs EXCEPT ![n] = Requeued(n)]
        \/ jobs' = [jobs EXCEPT ![n] = Failed(n, runner.error)]
    BY <1>4 DEF Fail
  <2>3. j = n
    BY <1>1, <1>2, <1>4, <2>1, <2>2 DEF RecentViolations
  <2>4. /\ jobs'[n].status = "failed" /\ jobs'[n].error = "DATA_CONTRACT_VIOLATION"
        /\ jobs'[n].kind = "fetch" /\ Product[jobs'[n].key] = p
    BY <1>4, <2>3 DEF RecentViolations
  <2>5. jobs'[n] = Requeued(n) \/ jobs'[n] = Failed(n, runner.error)
    BY <1>1, <2>1, <2>2
  <2>6. /\ Requeued(n).status = "queued"
        /\ /\ Failed(n, runner.error).error = runner.error
           /\ Failed(n, runner.error).kind = jobs[n].kind
           /\ Failed(n, runner.error).key = jobs[n].key
    BY <1>1, <2>1 DEF Failed, Requeued, Row
  <2>7. QED
    BY <2>3, <2>4, <2>5, <2>6
<1>5. CASE Fail
  <2>1. runner.pc = "fail"
    BY <1>5 DEF Fail
  <2>2. QED
    BY <1>4, <1>5, <2>1
<1>6. QED
  BY <1>3, <1>5

LEMMA CoolDownStep == ASSUME JobInv, [Next]_vars PROVE CoolDownInv'
<1>1. /\ jobs \in [Ids -> Row] /\ nextId \in Nat /\ Ids \subseteq Nat
      /\ runner \in [pc : RunnerPcs, job : Ids \cup {0}, attempt : Nat, error : Errors]
  BY DEF JobInv, TypeOK, Ids
<1>2. ASSUME NEW p PROVE IsFiniteSet(RecentViolations(p)) /\ Cardinality(RecentViolations(p)) \in Nat
  <2>1. IsFiniteSet(Ids)
    BY FS_Interval DEF Ids
  <2>2. RecentViolations(p) \in SUBSET Ids
    BY DEF RecentViolations
  <2>3. QED
    BY <2>1, <2>2, FS_Subset, FS_CardinalityType
<1>3. ASSUME NEW p, RecentViolations(p)' \subseteq RecentViolations(p)
      PROVE  /\ Cardinality(RecentViolations(p)') <= Cardinality(RecentViolations(p))
             /\ Cardinality(RecentViolations(p)') \in Nat
  BY <1>2, <1>3, FS_Subset, FS_CardinalityType
<1>4. CoolDownBounds'
  <2> SUFFICES ASSUME NEW k \in FetchKeys
               PROVE  Cardinality(RecentViolations(Product[k])') <= CoolDownThreshold
    BY DEF CoolDownBounds
  <2> DEFINE p == Product[k]
             V == RecentViolations(p)
  <2>1. Cardinality(V) <= CoolDownThreshold
    BY DEF JobInv, CoolDownInv, CoolDownBounds
  <2> HIDE DEF p
  <2>2. CASE V' \subseteq V
    <3>1. Cardinality(V') <= Cardinality(V) /\ Cardinality(V') \in Nat /\ Cardinality(V) \in Nat
      BY <1>2, <1>3, <2>2
    <3>2. QED
      BY <2>1, <3>1 DEF p
  <2>3. CASE /\ runner.pc = "fail" /\ runner.error = "DATA_CONTRACT_VIOLATION"
             /\ jobs[runner.job].kind = "fetch" /\ Product[jobs[runner.job].key] = p
             /\ V' \subseteq V \cup {runner.job}
    <3>1. Cardinality(V) < CoolDownThreshold
      BY <1>2, <2>3 DEF JobInv, CoolDownInv, CooledDown
    <3>2. IsFiniteSet(V \cup {runner.job}) /\ Cardinality(V \cup {runner.job}) <= Cardinality(V) + 1
      BY <1>2, FS_AddElement
    <3>3. Cardinality(V') <= Cardinality(V \cup {runner.job}) /\ Cardinality(V') \in Nat
      BY <2>3, <3>2, FS_Subset, FS_CardinalityType
    <3>4. Cardinality(V \cup {runner.job}) \in Nat
      BY <3>2, FS_CardinalityType
    <3>5. QED
      BY <1>2, <3>1, <3>2, <3>3, <3>4 DEF p
  <2>4. QED
    BY <2>2, <2>3, Violations
<1> DEFINE Checked == \/ runner.pc = "execute"
                      \/ runner.pc = "fail" /\ runner.error = "DATA_CONTRACT_VIOLATION"
<1>5. ASSUME Checked' PROVE ~CooledDown(runner.job)'
  <2>1. CASE CheckCoolDown
    <3>1. ~CooledDown(runner.job) /\ UNCHANGED jobs /\ runner'.job = runner.job
      BY <1>1, <1>5, <2>1 DEF CheckCoolDown
    <3>2. QED
      BY <3>1 DEF CooledDown, RecentViolations
  <2>2. CASE Checked /\ ~Fail /\ runner'.job = runner.job
    <3> DEFINE n == runner.job
               p == Product[jobs[n].key]
    <3>1. n \in Ids /\ jobs[n].status # "absent" /\ ~CooledDown(n)
      BY <2>2 DEF JobInv, HeldRowIsOurs, Holding, Active, CoolDownInv
    <3>2. jobs'[n].key = jobs[n].key /\ jobs'[n].kind = jobs[n].kind
      <4>1. n # nextId
        BY <1>1, <3>1 DEF JobInv, FreshInv
      <4>2. Kept(n)
        BY <3>1, RowsKept
      <4>3. QED
        BY <4>1, <4>2 DEF Kept
    <3>3. \A q : {j \in Ids : /\ jobs'[j].kind = "fetch" /\ Product[jobs'[j].key] = q
                              /\ jobs'[j].status = "failed"
                              /\ jobs'[j].error = "DATA_CONTRACT_VIOLATION"
                              /\ jobs'[j].finished = "recent"} \subseteq RecentViolations(q)
      BY <2>2, RowsKept DEF Kept, RecentViolations
    <3> DEFINE W == {j \in Ids : /\ jobs'[j].kind = "fetch" /\ Product[jobs'[j].key] = p
                                 /\ jobs'[j].status = "failed"
                                 /\ jobs'[j].error = "DATA_CONTRACT_VIOLATION"
                                 /\ jobs'[j].finished = "recent"}
    <3>4. Cardinality(W) <= Cardinality(RecentViolations(p)) /\ Cardinality(W) \in Nat
      BY <1>2, <3>3, FS_Subset, FS_CardinalityType
    <3>5. CooledDown(n)' <=> jobs'[n].kind = "fetch" /\ Cardinality(W) >= CoolDownThreshold
      BY <2>2, <3>2 DEF CooledDown, RecentViolations
    <3>6. QED
      BY <1>2, <2>2, <3>1, <3>2, <3>4, <3>5 DEF CooledDown
  <2>3. CheckCoolDown \/ (Checked /\ ~Fail /\ runner'.job = runner.job)
    <3>1. CASE UNCHANGED runner
      BY <1>5, <3>1 DEF Fail, Idle
    <3>2. CASE runner' = Idle \/ runner' = Dead \/ Claim
      BY <1>5, <3>2 DEF Idle, Dead, Claim
    <3>3. CASE ParsePayload \/ CheckCoolDown \/ HandlerReturns \/ HandlerRaises \/ DatabaseFault
      BY <1>1, <1>5, <3>3 DEF ParsePayload, CheckCoolDown, HandlerReturns, HandlerRaises,
        DatabaseFault, Fail, Idle, Dead
    <3>4. QED
      BY <3>1, <3>2, <3>3 DEF Next, Enqueue, Retry, RunnerStep, Time, EnqueueFind, EnqueueInsert,
        EnqueueRefind, EnqueueCommit, RetryRead, RetryWrite, Succeed, Fail, Boot, Crash, Shutdown,
        ShutdownEnds, Stop, ClaimAges, FailureAges, vars
  <2>4. QED
    BY <2>1, <2>2, <2>3
<1>6. QED
  BY <1>4, <1>5 DEF CoolDownInv

\* JobInv is inductive.
LEMMA JobInvStep == JobInv /\ [Next]_vars => JobInv'
<1> SUFFICES ASSUME JobInv, [Next]_vars PROVE JobInv'
  OBVIOUS
<1>1. TypeOK'
  BY TypeStep DEF JobInv
<1>2. ASSUME UNCHANGED vars PROVE Rest'
  BY <1>2 DEF vars, history, JobInv, Rest, IndexInv, Indexed, FreshInv, CommitInv,
    HeldRowIsOurs, Holding, Active, WriteInv, LedgerInv
<1>3. Rest'
  BY StepKinds, InsertStep, CommitStep, RetryWriteStep, ClaimStep, RecordStep, BootStep,
    StopStep, TimeStep, QuietStepPreserves, <1>2
<1>4. QED
  BY <1>1, <1>3, OrphanStep, CoolDownStep DEF JobInv, Rest

\* What the queue starts from satisfies it.
LEMMA JobInvInit == Init => JobInv
<1> SUFFICES ASSUME Init PROVE JobInv
  OBVIOUS
<1>1. TypeOK
  BY TypeInit
<1>2. PICK kind \in [1..Leftovers -> {"incompatible", "poison"}] :
        jobs = [j \in Ids |-> IF j <= Leftovers THEN NewRow(NoKey, kind[j], "queued")
                              ELSE NewRow(NoKey, "plain", "absent")]
  BY DEF Init
<1>3. \A j \in Ids : /\ jobs[j].key = NoKey /\ jobs[j].attempts = 0
                     /\ jobs[j].status = IF j <= Leftovers THEN "queued" ELSE "absent"
                     /\ claims[j] = 0 /\ reaps[j] = 0 /\ late[j] = 0
  BY <1>2, NewRowFields DEF Init
<1>4. /\ nextId = Leftovers + 1 /\ Leftovers \in Nat /\ runner = Dead
      /\ \A c \in Clients : client[c].pc = "start"
      /\ \A a \in Admins : admin[a].pc = "start"
  BY DEF Init
<1>5. IndexInv /\ CommitInv /\ WriteInv
  BY <1>3, <1>4 DEF IndexInv, CommitInv, WriteInv
<1>6. FreshInv
  BY <1>3, <1>4 DEF FreshInv, Ids
<1>7. HeldRowIsOurs
  BY <1>4 DEF HeldRowIsOurs, Holding, Dead, Idle
<1>8. LedgerInv
  BY <1>3 DEF LedgerInv
<1>9. OrphanInv
  <2>1. \A j \in Ids : jobs[j].status # "running"
    BY <1>3
  <2>2. \A j \in Ids : j >= nextId => jobs[j].kind # "poison"
    BY <1>2, <1>4 DEF NewRow, Ids
  <2>3. QED
    BY <1>4, <2>1, <2>2 DEF Init, OrphanInv, OrphanNeedsFault, Orphan, Holding, Dead, Idle
<1>10. CoolDownInv
  <2>1. \A p : RecentViolations(p) = {}
    BY <1>3 DEF RecentViolations
  <2>2. \A p : Cardinality(RecentViolations(p)) <= CoolDownThreshold
    <3>1. Cardinality({}) = 0
      BY FS_EmptySet
    <3>2. 0 <= CoolDownThreshold
      BY DEF JobConstants
    <3>3. QED
      BY <2>1, <3>1, <3>2
  <2>3. QED
    BY <1>4, <2>2 DEF CoolDownInv, CoolDownBounds, Dead, Idle
<1>11. QED
  BY <1>1, <1>5, <1>6, <1>7, <1>8, <1>9, <1>10 DEF JobInv

\* The inductive invariant holds in every execution.
THEOREM Invariance == Spec => []JobInv
BY JobInvInit, JobInvStep, PTL DEF Spec

-----------------------------------------------------------------------------
(* What follows from it.                                                    *)

\* models/job.py: one queued or running job per dedupe key at any time.
THEOREM DedupeUniqueness == Spec => []DedupeUnique
<1>1. JobInv => DedupeUnique
  BY DEF JobInv, IndexInv, Indexed, DedupeUnique, Active
<1>2. QED
  BY <1>1, Invariance, PTL

\* The loop always records its outcome on the row it claimed.
THEOREM OutcomeHitsClaimedRow == Spec => []HeldRowIsOurs
<1>1. JobInv => HeldRowIsOurs
  BY DEF JobInv
<1>2. QED
  BY <1>1, Invariance, PTL

\* At most max_attempts executions plus one per late retry write, and the
\* attempt count overshoots by no more than one.
THEOREM ExecutionBudget == Spec => []BudgetRespected
<1>1. JobInv => BudgetRespected
  BY DEF JobInv, LedgerInv, BudgetRespected
<1>2. QED
  BY <1>1, Invariance, PTL

\* A row is left running by nobody only after a process exit, a database fault or a payload
\* that ends the loop: no path through _try_claim_and_execute forgets its job.
THEOREM NoJobForgotten == Spec => []OrphanNeedsFault
<1>1. JobInv => OrphanNeedsFault
  BY DEF JobInv, OrphanInv
<1>2. QED
  BY <1>1, Invariance, PTL

\* A product never collects more recent contract violations than the threshold, although
\* the check and the record are in different sessions.
THEOREM CoolDownHolds == Spec => []CoolDownBounds
<1>1. JobInv => CoolDownBounds
  BY DEF JobInv, CoolDownInv
<1>2. QED
  BY <1>1, Invariance, PTL

\* A failed job with attempts left stays as it is unless a retry brings it back.
LEMMA FailedStays ==
    ASSUME JobInv, [Next]_vars, \A a \in Admins : ~RetryWrite(a), NEW j \in Ids, ~LateFor(j)
    PROVE  jobs'[j].status = jobs[j].status /\ jobs'[j].attempts = jobs[j].attempts
<1>1. jobs \in [Ids -> Row] /\ nextId \in Nat /\ jobs[j].status = "failed"
  BY DEF JobInv, TypeOK, LateFor
<1>2. ASSUME NEW n \in Ids, jobs[n].status # "failed", \E r : jobs' = [jobs EXCEPT ![n] = r]
      PROVE  jobs'[j] = jobs[j]
  BY <1>1, <1>2
<1>3. ASSUME NEW c \in Clients, EnqueueInsert(c) PROVE jobs'[j] = jobs[j]
  <2>1. nextId \in Ids => jobs[nextId].status = "absent"
    BY <1>1 DEF JobInv, FreshInv, Ids
  <2>2. UNCHANGED jobs \/ (nextId \in Ids /\ \E r : jobs' = [jobs EXCEPT ![nextId] = r])
    BY <1>3 DEF EnqueueInsert
  <2>3. QED
    BY <1>2, <2>1, <2>2
<1>4. ASSUME NEW c \in Clients, EnqueueCommit(c) PROVE jobs'[j] = jobs[j]
  <2>1. client[c].job \in Ids /\ jobs[client[c].job].status = "inserting"
    BY <1>4 DEF EnqueueCommit, JobInv, CommitInv
  <2>2. QED
    BY <1>2, <1>4, <2>1 DEF EnqueueCommit
<1>5. ASSUME Claim PROVE jobs'[j] = jobs[j]
  BY <1>2, <1>5 DEF Claim, Claimable
<1>6. ASSUME Succeed \/ Fail PROVE jobs'[j] = jobs[j]
  <2>1. runner.job \in Ids /\ jobs[runner.job].status # "failed"
    BY <1>6 DEF Succeed, Fail, JobInv, HeldRowIsOurs, Holding, Active
  <2>2. \E r : jobs' = [jobs EXCEPT ![runner.job] = r]
    BY <1>6 DEF Succeed, Fail
  <2>3. QED
    BY <1>2, <2>1, <2>2
<1>7. ASSUME Boot \/ Stop PROVE jobs'[j] = jobs[j]
  BY <1>1, <1>7 DEF Boot, Reapable, Stop
<1>8. ASSUME NEW n \in Ids, ClaimAges(n) \/ FailureAges(n)
      PROVE  jobs'[j].status = jobs[j].status /\ jobs'[j].attempts = jobs[j].attempts
  BY <1>1, <1>8 DEF ClaimAges, FailureAges, Row
<1>9. ASSUME QuietStep \/ UNCHANGED vars PROVE jobs'[j] = jobs[j]
  BY <1>9 DEF QuietStep, EnqueueFind, EnqueueRefind, RetryRead, ParsePayload, CheckCoolDown,
    HandlerReturns, HandlerRaises, DatabaseFault, Shutdown, vars
<1>10. QED
  BY <1>3, <1>4, <1>5, <1>6, <1>7, <1>8, <1>9, StepKinds

\* A retry gets to its write by its own checks; every other step leaves it where it is or
\* ends it.
LEMMA ChecksFirst ==
    ASSUME JobInv, [Next]_vars, \A a \in Admins : ~RetryWrite(a),
           NEW b \in Admins, admin'[b].pc = "write"
    PROVE  \/ admin'[b] = admin[b]
           \/ admin'[b].job \in Ids /\ RetryChecks(admin'[b].job)
<1>1. CASE \E a \in Admins, j \in Ids : RetryRead(a, j)
  BY <1>1, ReadsOne
<1>2. CASE UNCHANGED admin
  BY <1>2
<1>3. CASE Stop
  BY <1>3 DEF Stop, JobInv, TypeOK
<1>4. QED
  BY <1>1, <1>2, <1>3, StepKinds DEF EnqueueInsert, EnqueueCommit, Claim, Succeed, Fail, Boot,
    ClaimAges, FailureAges, QuietStep, EnqueueFind, EnqueueRefind, ParsePayload, CheckCoolDown,
    HandlerReturns, HandlerRaises, DatabaseFault, Shutdown, vars

\* While no two retries are in flight, what the one has checked stays true until it writes.
LEMMA OnTimeStep ==
    ASSUME JobInv, OneRetryInFlight, OnTimeInv, [Next]_vars
    PROVE  OnTimeInv'
<1>1. CASE \E a \in Admins : RetryWrite(a)
  <2>1. PICK a \in Admins : RetryWrite(a)
    BY <1>1
  <2>2. \A b \in Admins : admin'[b].pc # "write"
    <3>1. /\ admin[a].pc = "write"
          /\ \/ admin' = [admin EXCEPT ![a].pc = "accepted"]
             \/ admin' = [admin EXCEPT ![a].pc = "error"]
      BY <2>1 DEF RetryWrite
    <3>2. QED
      BY <3>1 DEF OneRetryInFlight, JobInv, TypeOK
  <2>3. QED
    BY <2>2 DEF OnTimeInv
<1>2. CASE \A a \in Admins : ~RetryWrite(a)
  <2>1. \A j \in Ids : ~LateFor(j) => ~LateFor(j)'
    BY <1>2, FailedStays DEF LateFor
  <2>2. \A j \in Ids : RetryChecks(j) => ~LateFor(j)
    BY LedgerTypes DEF RetryChecks, LateFor
  <2>3. ASSUME NEW b \in Admins, admin'[b].pc = "write"
        PROVE  admin'[b].job \in Ids /\ ~LateFor(admin'[b].job)
    BY <1>2, <2>2, <2>3, ChecksFirst DEF OnTimeInv, JobInv, WriteInv
  <2>4. ASSUME NEW b \in Admins, admin'[b].pc = "write" PROVE ~LateFor(admin[b].job)'
    BY <2>1, <2>3, <2>4 DEF LateFor
  <2>5. QED
    BY <2>4 DEF OnTimeInv
<1>3. QED
  BY <1>1, <1>2

\* retry_failed_job: as long as no two requests are between their checks and their write, a
\* row is still failed with attempts left when the one that has checked it gets to write.
THEOREM RetriesOnTime == Spec /\ []OneRetryInFlight => []OnTimeInv
<1>1. Init => OnTimeInv
  BY DEF Init, OnTimeInv
<1>2. QED
  BY <1>1, OnTimeStep, Invariance, PTL DEF Spec

\* retry_failed_job: as long as no two requests are between their checks and their write,
\* in whatever number they follow one another and whatever else overlaps with them, an
\* accepted retry hits no job that was claimed or finished since its checks.
THEOREM LoneRetryIsSafe == Spec /\ []OneRetryInFlight => OnlyFailedRetried
<1>1. JobInv /\ OnTimeInv /\ [Next]_vars =>
        [\A a \in Admins : RetryAccepted(a) => jobs[admin[a].job].status \notin {"running", "success"}]_vars
  BY DEF OnTimeInv, LateFor, RetryAccepted
<1>2. QED
  BY <1>1, RetriesOnTime, Invariance, PTL DEF Spec, OnlyFailedRetried

-----------------------------------------------------------------------------
(* The queue implements JobContract, provided that retry requests do not    *)
(* overlap.  With two at once it does not: the second write can reopen a    *)
(* job that has succeeded.                                                  *)

\* The refined variables.
Phase == [j \in Ids |-> PhaseOf(j)]
Key == [j \in Ids |-> KeyOf(j)]

\* A step that changes no phase and no key is a stutter of the contract.
LEMMA ContractStutter ==
    ASSUME \A j \in Ids : PhaseOf(j)' = PhaseOf(j) /\ KeyOf(j)' = KeyOf(j)
    PROVE  UNCHANGED Contract!cvars
BY DEF Contract!cvars

\* So is one that leaves every status in its class and every key alone.
LEMMA QuietRows ==
    ASSUME \A j \in Ids :
             /\ jobs'[j].key = jobs[j].key \/ jobs[j].status = "absent"
             /\ \/ jobs'[j].status = jobs[j].status
                \/ {jobs[j].status, jobs'[j].status} \subseteq {"absent", "inserting"}
                \/ {jobs[j].status, jobs'[j].status} \subseteq {"queued", "running"}
    PROVE  UNCHANGED Contract!cvars
<1>1. \A j \in Ids : PhaseOf(j)' = PhaseOf(j) /\ KeyOf(j)' = KeyOf(j)
  BY DEF PhaseOf, KeyOf
<1>2. QED
  BY <1>1, ContractStutter

\* A step that writes row n alone moves the contract at n alone.
LEMMA OneRow ==
    ASSUME NEW n \in Ids, \A j \in Ids : j # n => jobs'[j] = jobs[j]
    PROVE  /\ Phase' = [Phase EXCEPT ![n] = PhaseOf(n)']
           /\ Key' = [Key EXCEPT ![n] = KeyOf(n)']
BY DEF Phase, Key, PhaseOf, KeyOf

\* Reading the contract's state back into the table.
LEMMA ContractReads ==
    ASSUME jobs \in [Ids -> Row]
    PROVE  /\ \A j \in Ids : Phase[j] = PhaseOf(j) /\ Key[j] = KeyOf(j)
           /\ \A j \in Ids : Phase[j] = "active" <=> Active(j)
           /\ \A j \in Ids : Active(j) => Key[j] = jobs[j].key
<1>1. ASSUME NEW j \in Ids
      PROVE  /\ Phase[j] = PhaseOf(j)
             /\ Key[j] = KeyOf(j)
  BY DEF Phase, Key
<1>2. ASSUME NEW j \in Ids PROVE PhaseOf(j) = "active" <=> Active(j)
  <2> DEFINE s == jobs[j].status
  <2>1. PhaseOf(j) = CASE s \in {"absent", "inserting"} -> "absent"
                       [] s \in {"queued", "running"} -> "active"
                       [] OTHER -> s
    BY DEF PhaseOf
  <2>2. Active(j) <=> s \in {"queued", "running"}
    BY DEF Active
  <2>3. s # "active"
    BY DEF Row, Statuses
  <2> HIDE DEF s
  <2>4. QED
    BY <2>1, <2>2, <2>3
<1>3. ASSUME NEW j \in Ids, Active(j) PROVE KeyOf(j) = jobs[j].key
  BY <1>3 DEF KeyOf, Active
<1>4. QED
  BY <1>1, <1>2, <1>3

\* A key that no other active row has is free in the contract.
LEMMA FreeKey ==
    ASSUME jobs \in [Ids -> Row], NEW n \in Ids, NEW k,
           \A i \in Ids : Active(i) /\ jobs[i].key = k /\ k # NoKey => i = n
    PROVE  Contract!Free(n, k)
<1>1. k = NoKey \/ \A i \in Ids \ {n} : ~(Phase[i] = "active" /\ Key[i] = k)
  BY ContractReads
<1>2. QED
  BY <1>1 DEF Contract!Free, Phase, Key

\* The initial queue maps to an initial state of the contract.
LEMMA ContractInitHolds == Init => Contract!ContractInit
<1> SUFFICES ASSUME Init PROVE Contract!ContractInit
  OBVIOUS
<1>1. PICK kind \in [1..Leftovers -> {"incompatible", "poison"}] :
        jobs = [j \in Ids |-> IF j <= Leftovers THEN NewRow(NoKey, kind[j], "queued")
                              ELSE NewRow(NoKey, "plain", "absent")]
  BY DEF Init
<1>2. \A j \in Ids : jobs[j].key = NoKey /\ jobs[j].status \in {"queued", "absent"}
  BY <1>1, NewRowFields
<1>3. QED
  BY <1>2 DEF Contract!ContractInit, PhaseOf, KeyOf

\* Committing an insert accepts the job: the index shows that its key is free.
LEMMA CommitAccepts ==
    ASSUME JobInv, NEW c \in Clients, EnqueueCommit(c)
    PROVE  Contract!ContractNext
<1>1. PICK n \in Ids :
      /\ n = client[c].job /\ jobs[n].status = "inserting" /\ jobs \in [Ids -> Row]
      /\ jobs' = [jobs EXCEPT ![n] = WithStatus(n, "queued")]
  BY DEF EnqueueCommit, JobInv, CommitInv, TypeOK
<1>2. /\ jobs'[n].status = "queued" /\ jobs'[n].key = jobs[n].key
      /\ \A j \in Ids : j # n => jobs'[j] = jobs[j]
  BY <1>1, RowFields
<1>3. /\ Phase[n] = "absent" /\ PhaseOf(n)' = "active" /\ KeyOf(n)' = jobs[n].key
      /\ jobs[n].key \in Keys \cup {NoKey}
  BY <1>1, <1>2 DEF Phase, PhaseOf, KeyOf, Row
<1>4. Contract!Free(n, jobs[n].key)
  <2>1. \A i \in Ids : Active(i) /\ jobs[i].key = jobs[n].key /\ jobs[n].key # NoKey => i = n
    BY <1>1 DEF JobInv, IndexInv, Indexed, Active
  <2>2. QED
    BY <1>1, <2>1, FreeKey
<1>5. /\ Phase' = [Phase EXCEPT ![n] = "active"]
      /\ Key' = [Key EXCEPT ![n] = jobs[n].key]
  BY <1>1, <1>2, <1>3, OneRow
<1>6. Contract!Accept(n, jobs[n].key)
  BY <1>3, <1>4, <1>5 DEF Contract!Accept, Phase, Key
<1>7. QED
  BY <1>1, <1>3, <1>6 DEF Contract!ContractNext

\* Recording an outcome settles the job or, requeueing it, stutters.
LEMMA RecordSettles ==
    ASSUME JobInv, Succeed \/ Fail
    PROVE  [Contract!ContractNext]_(Contract!cvars)
<1>1. PICK n \in Ids : n = runner.job /\ Active(n) /\ jobs \in [Ids -> Row]
  BY DEF Succeed, Fail, JobInv, HeldRowIsOurs, Holding, TypeOK
<1>2. \/ jobs' = [jobs EXCEPT ![n] = Succeeded(n)]
      \/ \E e : jobs' = [jobs EXCEPT ![n] = Failed(n, e)]
      \/ jobs' = [jobs EXCEPT ![n] = Requeued(n)]
  BY <1>1 DEF Succeed, Fail
<1>3. /\ jobs'[n].key = jobs[n].key /\ jobs'[n].status \in {"success", "failed", "queued"}
      /\ \A j \in Ids : j # n => jobs'[j] = jobs[j]
  BY <1>1, <1>2, RowFields
<1>4. CASE jobs'[n].status = "queued"
  BY <1>1, <1>3, <1>4, QuietRows DEF Active
<1>5. CASE jobs'[n].status \in {"success", "failed"}
  <2>1. /\ Phase[n] = "active" /\ PhaseOf(n)' = jobs'[n].status
        /\ KeyOf(n)' = Key[n] /\ Key = [Key EXCEPT ![n] = Key[n]]
    BY <1>1, <1>3, <1>5 DEF Active, Phase, Key, PhaseOf, KeyOf
  <2>2. Phase' = [Phase EXCEPT ![n] = jobs'[n].status] /\ Key' = Key
    BY <1>1, <1>3, <2>1, OneRow
  <2>3. Contract!Settle(n, jobs'[n].status)
    BY <2>1, <2>2 DEF Contract!Settle, Phase, Key
  <2>4. QED
    BY <1>1, <1>5, <2>3 DEF Contract!ContractNext
<1>6. QED
  BY <1>3, <1>4, <1>5

\* A retry that is on time reopens a failed job whose key is free, or changes nothing.
LEMMA RetryReopens ==
    ASSUME JobInv, OnTimeInv, NEW a \in Admins, RetryWrite(a)
    PROVE  [Contract!ContractNext]_(Contract!cvars)
<1>1. PICK n \in Ids : n = admin[a].job /\ jobs[n].status = "failed" /\ jobs \in [Ids -> Row]
  BY DEF RetryWrite, JobInv, WriteInv, OnTimeInv, LateFor, TypeOK
<1>2. CASE ~DedupeFree(n)
  BY <1>1, <1>2, QuietRows DEF RetryWrite
<1>3. CASE DedupeFree(n)
  <2>1. jobs' = [jobs EXCEPT ![n] = Requeued(n)]
    BY <1>1, <1>3 DEF RetryWrite
  <2>2. /\ jobs'[n].key = jobs[n].key /\ jobs'[n].status = "queued"
        /\ \A j \in Ids : j # n => jobs'[j] = jobs[j]
    BY <1>1, <2>1, RowFields
  <2>3. /\ Phase[n] = "failed" /\ PhaseOf(n)' = "active" /\ KeyOf(n)' = Key[n]
        /\ Key[n] = jobs[n].key /\ Key = [Key EXCEPT ![n] = Key[n]]
    BY <1>1, <2>2 DEF Phase, Key, PhaseOf, KeyOf
  <2>4. Contract!Free(n, Key[n])
    BY <1>1, <1>3, <2>3, FreeKey DEF DedupeFree, ActiveWith
  <2>5. Phase' = [Phase EXCEPT ![n] = "active"] /\ Key' = Key
    BY <1>1, <2>2, <2>3, OneRow
  <2>6. Contract!Reopen(n)
    BY <2>3, <2>4, <2>5 DEF Contract!Reopen, Phase, Key
  <2>7. QED
    BY <1>1, <2>6 DEF Contract!ContractNext
<1>4. QED BY <1>2, <1>3

\* The remaining steps move rows inside their class.
LEMMA OtherStepsStutter ==
    ASSUME JobInv,
           \/ \E c \in Clients : EnqueueInsert(c)
           \/ Claim \/ Boot \/ Stop
           \/ \E j \in Ids : ClaimAges(j) \/ FailureAges(j)
           \/ QuietStep \/ UNCHANGED vars
    PROVE  UNCHANGED Contract!cvars
<1>1. jobs \in [Ids -> Row]
  BY DEF JobInv, TypeOK
<1>2. ASSUME NEW c \in Clients, EnqueueInsert(c) PROVE UNCHANGED Contract!cvars
  <2> DEFINE r == NewRow(client[c].key, KindOf(client[c].key), "inserting")
  <2>1. \/ UNCHANGED jobs
        \/ nextId \in Ids /\ jobs' = [jobs EXCEPT ![nextId] = r]
    BY <1>2 DEF EnqueueInsert
  <2>2. r.status = "inserting"
    BY NewRowFields
  <2> HIDE DEF r
  <2>3. nextId \in Ids => jobs[nextId].status = "absent"
    BY DEF JobInv, FreshInv, Ids
  <2>4. QED
    BY <1>1, <2>1, <2>2, <2>3, QuietRows
<1>3. ASSUME Claim PROVE UNCHANGED Contract!cvars
  <2>1. PICK n \in Ids : jobs[n].status = "queued" /\ jobs' = [jobs EXCEPT ![n] = Claimed(n)]
    BY <1>3 DEF Claim, Claimable
  <2>2. QED
    BY <1>1, <2>1, RowFields, QuietRows
<1>4. ASSUME Boot PROVE UNCHANGED Contract!cvars
  <2>1. \A j \in Ids : \/ jobs'[j] = jobs[j]
                       \/ /\ jobs[j].status = "running" /\ jobs'[j].status = "queued"
                          /\ jobs'[j].key = jobs[j].key
    BY <1>1, <1>4, RowFields DEF Boot, Reapable
  <2>2. QED
    BY <2>1, QuietRows
<1>5. ASSUME Stop PROVE UNCHANGED Contract!cvars
  <2>1. \A j \in Ids : \/ jobs'[j] = jobs[j]
                       \/ /\ jobs[j].status = "inserting" /\ jobs'[j].status = "absent"
                          /\ jobs'[j].key = jobs[j].key
    BY <1>1, <1>5, RowFields DEF Stop
  <2>2. QED
    BY <2>1, QuietRows
<1>6. ASSUME NEW n \in Ids, ClaimAges(n) \/ FailureAges(n) PROVE UNCHANGED Contract!cvars
  <2>1. \A j \in Ids : jobs'[j].status = jobs[j].status /\ jobs'[j].key = jobs[j].key
    BY <1>1, <1>6 DEF ClaimAges, FailureAges, Row
  <2>2. QED
    BY <2>1, QuietRows
<1>7. ASSUME QuietStep \/ UNCHANGED vars PROVE UNCHANGED Contract!cvars
  <2>1. UNCHANGED jobs
    BY <1>7 DEF QuietStep, EnqueueFind, EnqueueRefind, RetryRead, ParsePayload, CheckCoolDown,
      HandlerReturns, HandlerRaises, DatabaseFault, Shutdown, vars
  <2>2. QED
    BY <2>1, QuietRows
<1>8. QED
  BY <1>2, <1>3, <1>4, <1>5, <1>6, <1>7

\* JobContract: as long as no two retry requests are between their checks and their write,
\* in whatever number they follow one another, the queue implements its contract.
THEOREM QueueKeepsContract == Spec /\ []OneRetryInFlight => ContractSpec
<1>1. JobInv /\ OnTimeInv /\ [Next]_vars => [Contract!ContractNext]_(Contract!cvars)
  BY StepKinds, CommitAccepts, RecordSettles, RetryReopens, OtherStepsStutter
<1>2. QED
  BY <1>1, ContractInitHolds, RetriesOnTime, Invariance, PTL DEF Spec, ContractSpec, Contract!ContractSpec
=============================================================================

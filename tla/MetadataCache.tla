---------------------------- MODULE MetadataCache ----------------------------
(***************************************************************************)
(* StatCanMetadataCacheService on the row of one cube: get_or_fetch for    *)
(* the API's requests, and refresh_all_stale.  A caller names the cube and *)
(* the product it takes it for; two callers may disagree about the         *)
(* product.                                                                *)
(*                                                                         *)
(* refresh_all_stale is there for a nightly job that does not get to it:   *)
(* the job's wrapper calls AsyncTokenBucket() without its two arguments    *)
(* and logs the TypeError (core/scheduler.py:199).  What calls the service *)
(* directly may run it at any time, or never; nothing here relies on it.   *)
(*                                                                         *)
(* Every operation reads the row, asks StatCan through StatCanClient and   *)
(* stores the answer in a second transaction, whose SELECT and UPDATE      *)
(* other transactions may come between.  An UPDATE writes the columns that *)
(* differ from what its own SELECT has read, and no others.                *)
(***************************************************************************)
EXTENDS StatCanClient

CONSTANTS
    Sweeper,      \* the caller of refresh_all_stale
    Products,
    NoProduct,
    MaxRevision,  \* bound: revisions of the metadata
    MaxRequests   \* bound: requests of the API

ASSUME MetadataConstants ==
    /\ Sweeper \in Callers /\ NoProduct \notin Products
    /\ MaxRevision \in Nat \ {0} /\ MaxRequests \in Nat

VARIABLES
    published,  \* StatCan: the revision of the metadata of its products
    row,        \* cube_metadata_cache: product_id, dimensions, and whether fetched_at is old
    req,        \* the local variables of every caller
    requests,   \* how many requests have begun
    named,      \* history: the products requests have named for the cube
    raced       \* history: an UPDATE has found another product than its own SELECT

history == <<named, raced>>
mvars == <<client, published, row, req, requests, history>>

Dimensions == [of : Products, rev : 1 .. MaxRevision]
NoDimensions == [of |-> NoProduct, rev |-> 0]
NoRow == [product |-> NoProduct, dims |-> NoDimensions, old |-> FALSE]

Resting == [pc |-> "idle", product |-> NoProduct, payload |-> NoDimensions, base |-> NoRow, out |-> NoRow]

Reply(r, entry) == req' = [req EXCEPT ![r] = [Resting EXCEPT !.pc = "done", !.product = req[r].product,
                                                             !.out = entry]]
Raise(r) == Reply(r, NoRow)

-----------------------------------------------------------------------------
\* The entry of a cached cube, or the mismatch error; a miss goes on to StatCan.
HitUnchecked(r) == row.product # NoProduct
Hit(r) == row.product = req[r].product

Ask(r, p) ==
    /\ r # Sweeper
    /\ req[r].pc = "idle"
    /\ requests < MaxRequests
    /\ requests' = requests + 1
    /\ req' = [req EXCEPT ![r] = [Resting EXCEPT !.pc = "read", !.product = p]]
    /\ named' = named \cup {p}
    /\ UNCHANGED <<client, published, row, raced>>

\* list_stale picks the rows whose fetched_at is older than the threshold, with their
\* products.
Sweep ==
    /\ req[Sweeper].pc = "idle"
    /\ row.old
    /\ req' = [req EXCEPT ![Sweeper] = [Resting EXCEPT !.pc = "read", !.product = row.product]]
    /\ UNCHANGED <<client, published, row, requests, history>>

\* get_or_fetch serves a hit; refresh fetches in any case.
ServesHit(r) == Hit(r) /\ r # Sweeper

\* The first transaction: get_or_fetch serves a hit, refresh only compares the products.
ReadRow(r) ==
    /\ req[r].pc = "read"
    /\ \/ /\ ServesHit(r)
          /\ Reply(r, row)
          /\ UNCHANGED <<client>>
       \/ /\ row # NoRow /\ ~Hit(r)
          /\ Raise(r)
          /\ UNCHANGED <<client>>
       \/ /\ (row = NoRow \/ Hit(r)) /\ ~ServesHit(r)
          /\ req' = [req EXCEPT ![r].pc = "fetch"]
          /\ Request(r)
    /\ UNCHANGED <<published, row, requests, history>>

Fetched(r) ==
    /\ req[r].pc = "fetch"
    /\ client[r].pc = "answered"
    /\ Take(r)
    /\ req' = [req EXCEPT ![r].pc = "select",
                             ![r].payload = [of |-> req[r].product, rev |-> published]]
    /\ UNCHANGED <<published, row, requests, history>>

\* StatCanUnavailableError, CubeNotFoundError, or what the client let through.
FetchFails(r) ==
    /\ req[r].pc = "fetch"
    /\ client[r].pc = "failed"
    /\ Take(r)
    /\ Raise(r)
    /\ UNCHANGED <<published, row, requests, history>>

-----------------------------------------------------------------------------
(* _persist.                                                                *)

Select(r) ==
    /\ req[r].pc = "select"
    /\ req' = [req EXCEPT ![r].pc = "write", ![r].base = row]
    /\ UNCHANGED <<client, published, row, requests, history>>

Own(r) == [product |-> req[r].product, dims |-> req[r].payload, old |-> FALSE]

Insert(r) ==
    /\ req[r].pc = "write"
    /\ req[r].base = NoRow
    /\ row = NoRow
    /\ row' = Own(r)
    /\ Reply(r, Own(r))
    /\ UNCHANGED <<client, published, requests, history>>

\* The unique constraint: another insert was first, and its row is read and compared.
InsertLoses(r) ==
    /\ req[r].pc = "write"
    /\ req[r].base = NoRow
    /\ row # NoRow
    /\ IF Hit(r) THEN Reply(r, row) ELSE Raise(r)
    /\ UNCHANGED <<client, published, row, requests, history>>

\* The row after the UPDATE: a column whose value the SELECT already held is not written.
Written(r) ==
    [product |-> IF req[r].base.product = req[r].product THEN row.product ELSE req[r].product,
     dims |-> IF req[r].base.dims = req[r].payload THEN row.dims ELSE req[r].payload,
     old |-> FALSE]

Update(r) ==
    /\ req[r].pc = "write"
    /\ req[r].base # NoRow
    /\ row' = Written(r)
    /\ raced' = (raced \/ row.product # req[r].base.product)
    /\ Reply(r, Own(r))
    /\ UNCHANGED <<client, published, requests, named>>

\* The database refuses a statement or the commit.
WriteFails(r) ==
    /\ req[r].pc \in {"select", "write"}
    /\ Raise(r)
    /\ UNCHANGED <<client, published, row, requests, history>>

\* The response is sent, or the job ends.
Finish(r) ==
    /\ req[r].pc = "done"
    /\ req' = [req EXCEPT ![r] = Resting]
    /\ UNCHANGED <<client, published, row, requests, history>>

-----------------------------------------------------------------------------
Publish ==
    /\ published < MaxRevision
    /\ published' = published + 1
    /\ UNCHANGED <<client, row, req, requests, history>>

\* A day passes, and the row's fetched_at falls behind the threshold.
Age ==
    /\ row # NoRow
    /\ row' = [row EXCEPT !.old = TRUE]
    /\ UNCHANGED <<client, published, req, requests, history>>

Init ==
    /\ ClientInit
    /\ published = 1
    /\ row = NoRow
    /\ req = [r \in Callers |-> Resting]
    /\ requests = 0
    /\ named = {}
    /\ raced = FALSE

Step(r) ==
    \/ ReadRow(r) \/ Fetched(r) \/ FetchFails(r)
    \/ Select(r) \/ Insert(r) \/ InsertLoses(r) \/ Update(r) \/ WriteFails(r) \/ Finish(r)
    \/ ClientStep(r) /\ UNCHANGED <<published, row, req, requests, history>>

Next ==
    \/ \E r \in Callers : Step(r)
    \/ \E r \in Callers, p \in Products : Ask(r, p)
    \/ Sweep
    \/ Publish \/ Age

Spec == Init /\ [][Next]_mvars

\* The event loop goes on with a caller that can go on: sleeps end, HTTP calls have a
\* time-out, the database answers or refuses.  Nothing makes anybody call.
Fairness == \A r \in Callers : WF_mvars(Step(r))

FairSpec == Spec /\ Fairness

-----------------------------------------------------------------------------
(* Properties.                                                              *)

Rows == [product : Products \cup {NoProduct}, dims : Dimensions \cup {NoDimensions}, old : BOOLEAN]

TypeOK ==
    /\ ClientTypeOK
    /\ published \in 1 .. MaxRevision
    /\ row \in Rows
    /\ req \in [Callers ->
          [pc : {"idle", "read", "fetch", "select", "write", "done"},
           product : Products \cup {NoProduct},
           payload : Dimensions \cup {NoDimensions}, base : Rows, out : Rows]]
    /\ requests \in 0 .. MaxRequests
    /\ named \subseteq Products
    /\ raced \in BOOLEAN

\* A caller gets an entry under the product it has named (metadata_cache.py:193), with
\* dimensions that StatCan has published, and they are the dimensions of that product:
\* always what it has fetched itself, and what the cache holds unless an UPDATE has lost a
\* race for the row's product (it keeps the columns its SELECT has found equal).
Served ==
    \A r \in Callers : req[r].out # NoRow =>
        /\ req[r].out.product = req[r].product
        /\ req[r].out.dims.rev \in 1 .. published
        /\ req[r].out.dims.of = req[r].product \/ raced

\* Nobody loses that race while all requests name one product for the cube.
RaceNeedsDispute == raced => \E p, q \in named : p # q

MetaInv == TypeOK /\ Served /\ RaceNeedsDispute

\* A request for metadata comes to an end, whatever StatCan answers: it waits for the one
\* token it has reserved, and tries again max_retries times at most (client.py:328).
RequestsAnswered == \A r \in Callers : req[r].pc = "read" ~> req[r].pc = "idle"
=============================================================================

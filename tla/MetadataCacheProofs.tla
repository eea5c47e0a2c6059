------------------------ MODULE MetadataCacheProofs ------------------------
(***************************************************************************)
(* What MetadataCache serves, for any number of callers, products,         *)
(* revisions, retries and tokens.                                          *)
(***************************************************************************)
EXTENDS MetadataCache, TLAPS

USE ClientConstants, MetadataConstants

-----------------------------------------------------------------------------
(* The invariant.                                                           *)

\* The local variables of one caller.
Locals == [pc : {"idle", "read", "fetch", "select", "write", "done"},
           product : Products \cup {NoProduct},
           payload : Dimensions \cup {NoDimensions}, base : Rows, out : Rows]

\* A row holds a product that was named and a published revision of its dimensions; of
\* another product's dimensions only when an UPDATE has lost its race.
RowOK(w, pub, nm, rc) ==
    /\ w \in Rows
    /\ w # NoRow => /\ w.product \in nm
                    /\ w.dims.rev \in 1 .. pub
                    /\ w.dims.of = w.product \/ rc

\* A caller at work has named a product, holds an answer about it that was published, and,
\* when it is to update, has seen a row that is still there; what it answers is a row under
\* the product it has named.
LocalOK(v, w, pub, nm, rc) ==
    /\ v \in Locals
    /\ v.pc \in {"read", "fetch", "select", "write"} => v.product \in nm /\ v.out = NoRow
    /\ v.pc \in {"select", "write"} =>
         v.payload \in Dimensions /\ v.payload.rev <= pub /\ v.payload.of = v.product
    /\ v.base # NoRow => w # NoRow
    /\ RowOK(v.base, pub, nm, rc)
    /\ v.out # NoRow => RowOK(v.out, pub, nm, rc) /\ v.out.product = v.product

\* A token may be owed only by a request that waits for it.
Owing == \A c \in Callers : client[c].pc # "wait" => client[c].tokens >= 0

ClientOK == ClientTypeOK /\ Owing

HistoryOK == named \subseteq Products /\ raced \in BOOLEAN /\ RaceNeedsDispute

\* The invariant that is inductive.
IInv ==
    /\ ClientOK
    /\ HistoryOK
    /\ published \in 1 .. MaxRevision
    /\ requests \in 0 .. MaxRequests
    /\ RowOK(row, published, named, raced)
    /\ req = [r \in Callers |-> req[r]]
    /\ \A r \in Callers : LocalOK(req[r], row, published, named, raced)

\* What a step does to the history.
Grows == named \subseteq named' /\ (raced => raced')

LEMMA SameHistory == ASSUME IInv, UNCHANGED history PROVE HistoryOK' /\ Grows
BY DEF IInv, HistoryOK, RaceNeedsDispute, Grows, history

LEMMA NoRowOK == ASSUME NEW pub, NEW nm, NEW rc PROVE RowOK(NoRow, pub, nm, rc)
BY DEF RowOK, Rows, NoRow, NoDimensions

\* A caller at rest, or with an answer.
LEMMA RestingOK ==
    ASSUME NEW w, NEW pub, NEW nm, NEW rc, NEW p \in Products \cup {NoProduct}, NEW e,
           RowOK(e, pub, nm, rc), e # NoRow => e.product = p
    PROVE  /\ LocalOK(Resting, w, pub, nm, rc)
           /\ LocalOK([Resting EXCEPT !.pc = "done", !.product = p, !.out = e], w, pub, nm, rc)
<1> DEFINE v == [Resting EXCEPT !.pc = "done", !.product = p, !.out = e]
<1>1. NoRow \in Rows /\ e \in Rows
  BY NoRowOK DEF RowOK
<1>2. Resting \in Locals /\ v \in Locals
  BY <1>1 DEF Resting, Locals
<1>3. v.pc = "done" /\ v.product = p /\ v.base = NoRow /\ v.out = e
  BY DEF Resting
<1>4. Resting.pc = "idle" /\ Resting.base = NoRow /\ Resting.out = NoRow
  BY DEF Resting
<1> HIDE DEF v
<1>5. LocalOK(v, w, pub, nm, rc) /\ LocalOK(Resting, w, pub, nm, rc)
  BY <1>2, <1>3, <1>4, NoRowOK DEF LocalOK
<1> QED
  BY <1>5 DEF v

\* Newer revisions, a longer history and a row that stays do not disturb a caller.
LEMMA RowStays ==
    ASSUME NEW x, NEW pub \in Nat, NEW pub2 \in Nat, NEW nm, NEW nm2, NEW rc, NEW rc2,
           RowOK(x, pub, nm, rc), pub <= pub2, nm \subseteq nm2, rc => rc2
    PROVE  RowOK(x, pub2, nm2, rc2)
<1>1. CASE x = NoRow
  BY <1>1, NoRowOK
<1>2. CASE x # NoRow
  <2>1. x.dims.rev \in 1 .. pub2
    <3>1. x.dims.rev \in 1 .. pub
      BY <1>2 DEF RowOK
    <3> QED
      BY <3>1
  <2> QED
    BY <1>2, <2>1 DEF RowOK
<1> QED
  BY <1>1, <1>2

LEMMA LocalStays ==
    ASSUME NEW v, NEW w, NEW w2, NEW pub \in Nat, NEW pub2 \in Nat, NEW nm, NEW nm2, NEW rc, NEW rc2,
           LocalOK(v, w, pub, nm, rc), pub <= pub2, nm \subseteq nm2, rc => rc2,
           w # NoRow => w2 # NoRow
    PROVE  LocalOK(v, w2, pub2, nm2, rc2)
<1>1. RowOK(v.base, pub2, nm2, rc2) /\ (v.out # NoRow => RowOK(v.out, pub2, nm2, rc2))
  BY RowStays DEF LocalOK
<1>2. v.payload \in Dimensions /\ v.payload.rev <= pub => v.payload.rev <= pub2
  BY DEF Dimensions
<1> QED
  BY <1>1, <1>2 DEF LocalOK

\* A step that sets one caller's variables, and perhaps the row, the client or the history.
LEMMA OneCaller ==
    ASSUME IInv, NEW r \in Callers, NEW v,
           req' = [req EXCEPT ![r] = v], LocalOK(v, row', published, named', raced'),
           published' = published, requests' \in 0 .. MaxRequests, HistoryOK', Grows,
           RowOK(row', published, named', raced'), row # NoRow => row' # NoRow, ClientOK'
    PROVE  IInv'
<1>1. req' = [q \in Callers |-> req'[q]] /\ \A q \in Callers : req'[q] = IF q = r THEN v ELSE req[q]
  BY DEF IInv
<1>2. published \in Nat
  BY DEF IInv
<1>3. \A q \in Callers : LocalOK(req[q], row', published, named', raced')
  BY <1>2, LocalStays DEF IInv, Grows
<1>4. \A q \in Callers : LocalOK(req'[q], row', published', named', raced')
  BY <1>1, <1>3
<1> QED
  BY <1>1, <1>4 DEF IInv

-----------------------------------------------------------------------------
(* The client.                                                              *)

\* The record of one caller's client.
ClientRecord == [pc : {"idle", "acquire", "wait", "http", "backoff", "answered", "failed"},
                 attempt : 0 .. MaxRetries, tokens : -1 .. Capacity]

LEMMA OneClient ==
    ASSUME ClientOK, NEW c \in Callers, NEW v \in ClientRecord, v.pc # "wait" => v.tokens >= 0,
           client' = [client EXCEPT ![c] = v]
    PROVE  ClientOK'
BY DEF ClientOK, ClientTypeOK, Owing, ClientRecord

LEMMA ClientKept ==
    ASSUME ClientOK, NEW c \in Callers, ClientStep(c) \/ Request(c) PROVE ClientOK'
<1> DEFINE k == client[c]
<1>0. k \in ClientRecord /\ (k.pc # "wait" => k.tokens >= 0)
  BY DEF ClientOK, ClientTypeOK, ClientRecord, Owing
<1>1. ASSUME Accrue(c) PROVE ClientOK'
  <2> DEFINE v == [k EXCEPT !.tokens = @ + 1]
  <2>1. v \in ClientRecord /\ v.pc = k.pc /\ v.tokens = k.tokens + 1
    BY <1>0, <1>1 DEF Accrue, ClientRecord
  <2>2. client' = [client EXCEPT ![c] = v]
    BY <1>1 DEF Accrue
  <2>3. k.tokens \in -1 .. Capacity
    BY <1>0 DEF ClientRecord
  <2> HIDE DEF v, k
  <2>4. v.pc # "wait" => v.tokens >= 0
    BY <1>0, <2>1, <2>3
  <2> QED
    BY <2>1, <2>2, <2>4, OneClient
<1>2. ASSUME Acquire(c) PROVE ClientOK'
  <2> DEFINE n == k.tokens - 1
             pc == IF k.tokens < 1 THEN "wait" ELSE "http"
             v == [k EXCEPT !.tokens = n, !.pc = pc]
  <2>1. k.tokens \in 0 .. Capacity
    BY <1>0, <1>2 DEF Acquire, ClientRecord
  <2>2. client' = [client EXCEPT ![c] = v]
    BY <1>2 DEF Acquire
  <2>3. n \in -1 .. Capacity /\ pc \in {"wait", "http"} /\ (pc # "wait" => n >= 0)
    BY <2>1
  <2> HIDE DEF n, pc
  <2>4. v \in ClientRecord /\ v.tokens = n /\ v.pc = pc
    BY <1>0, <2>3 DEF ClientRecord
  <2> HIDE DEF v, k
  <2> QED
    BY <2>2, <2>3, <2>4, OneClient
<1>3. ASSUME NEW pc \in {"idle", "acquire", "http", "backoff", "answered", "failed"},
             NEW a \in 0 .. MaxRetries, k.tokens >= 0, client' = [client EXCEPT ![c].pc = pc, ![c].attempt = a]
      PROVE  ClientOK'
  <2> DEFINE v == [k EXCEPT !.pc = pc, !.attempt = a]
  <2>1. v \in ClientRecord /\ v.tokens = k.tokens
    BY <1>0 DEF ClientRecord
  <2>2. client' = [client EXCEPT ![c] = v]
    BY <1>3
  <2> HIDE DEF v, k
  <2> QED
    BY <1>3, <2>1, <2>2, OneClient
<1>4. ASSUME NEW pc \in {"idle", "acquire", "http", "failed"}, SetClient(c, pc), k.tokens >= 0
      PROVE  ClientOK'
  <2> DEFINE v == [k EXCEPT !.pc = pc]
  <2>1. v \in ClientRecord /\ v.tokens = k.tokens
    BY <1>0 DEF ClientRecord
  <2>2. client' = [client EXCEPT ![c] = v]
    BY <1>4 DEF SetClient
  <2> HIDE DEF v, k
  <2> QED
    BY <1>4, <2>1, <2>2, OneClient
<1>5. ASSUME Retryable(c) PROVE ClientOK'
  <2>1. k.tokens >= 0 /\ k.attempt \in 0 .. MaxRetries
    BY <1>0, <1>5 DEF Retryable, ClientRecord
  <2>2. CASE k.attempt < MaxRetries
    <3>1. k.attempt + 1 \in 0 .. MaxRetries
      BY <2>1, <2>2
    <3> QED
      BY <1>3, <1>5, <2>1, <2>2, <3>1 DEF Retryable
  <2>3. CASE ~(k.attempt < MaxRetries)
    BY <1>3, <1>5, <2>1, <2>3 DEF Retryable
  <2> QED
    BY <2>2, <2>3
<1>6. ASSUME NEW result \in {"answered", "failed"}, Respond(c, result) PROVE ClientOK'
  <2>1. k.tokens >= 0 /\ 0 \in 0 .. MaxRetries
    BY <1>0, <1>6 DEF Respond
  <2> QED
    BY <1>3, <1>6, <2>1 DEF Respond
<1>7. ASSUME Wake(c) \/ BackedOff(c) \/ Request(c) PROVE ClientOK'
  <2>1. k.tokens >= 0
    BY <1>0, <1>7 DEF Wake, BackedOff, Request
  <2> QED
    BY <1>4, <1>7, <2>1 DEF Wake, BackedOff, Request
<1> QED
  BY <1>1, <1>2, <1>5, <1>6, <1>7 DEF ClientStep

\* The client goes with the result.
LEMMA ClientLeft == ASSUME ClientOK, NEW c \in Callers, Take(c) PROVE ClientOK'
<1>1. Fresh \in ClientRecord /\ Fresh.tokens >= 0
  BY DEF Fresh, ClientRecord
<1> QED
  BY <1>1, OneClient DEF Take

-----------------------------------------------------------------------------
(* One lemma for each action.                                               *)

LEMMA Replies ==
    ASSUME IInv, NEW r \in Callers, NEW e, Reply(r, e),
           RowOK(e, published, named', raced'), e # NoRow => e.product = req[r].product,
           published' = published, requests' = requests, HistoryOK', Grows,
           RowOK(row', published, named', raced'), row # NoRow => row' # NoRow, ClientOK'
    PROVE  IInv'
<1> DEFINE v == [Resting EXCEPT !.pc = "done", !.product = req[r].product, !.out = e]
<1>1. req[r].product \in Products \cup {NoProduct}
  BY DEF IInv, LocalOK, Locals
<1>2. LocalOK(v, row', published, named', raced')
  BY <1>1, RestingOK
<1>3. req' = [req EXCEPT ![r] = v]
  BY DEF Reply
<1>4. requests' \in 0 .. MaxRequests
  BY DEF IInv
<1> HIDE DEF v
<1> QED
  BY <1>2, <1>3, <1>4, OneCaller

\* An answer, or an error, that leaves the row and the history as they are.
LEMMA RepliesOnly ==
    ASSUME IInv, NEW r \in Callers, NEW e, Reply(r, e),
           RowOK(e, published, named, raced), e # NoRow => e.product = req[r].product,
           UNCHANGED <<published, row, requests, history>>, ClientOK'
    PROVE  IInv'
<1>1. named' = named /\ raced' = raced /\ HistoryOK' /\ Grows
  BY SameHistory DEF history
<1>2. RowOK(e, published, named', raced') /\ RowOK(row', published, named', raced')
  BY <1>1 DEF IInv
<1> QED
  BY <1>1, <1>2, Replies

\* The caller's own answer makes a row.
LEMMA OwnRow ==
    ASSUME IInv, NEW r \in Callers, req[r].pc = "write"
    PROVE  /\ RowOK(Own(r), published, named, raced)
           /\ Own(r).product = req[r].product /\ Own(r) # NoRow
<1>1. /\ req[r].product \in Products /\ req[r].product \in named
      /\ req[r].payload \in Dimensions /\ req[r].payload.rev <= published
      /\ req[r].payload.of = req[r].product
  BY DEF IInv, LocalOK, HistoryOK
<1>2. req[r].payload.rev \in 1 .. published /\ published \in Nat
  BY <1>1 DEF IInv, Dimensions
<1>3. Own(r) \in Rows /\ Own(r).product = req[r].product /\ Own(r).dims = req[r].payload
  BY <1>1 DEF Own, Rows
<1> QED
  BY <1>1, <1>2, <1>3 DEF RowOK, NoRow

LEMMA AskKept == ASSUME IInv, NEW r \in Callers, NEW p \in Products, Ask(r, p) PROVE IInv'
<1> DEFINE v == [Resting EXCEPT !.pc = "read", !.product = p]
<1>1. NoRow \in Rows /\ v \in Locals
  BY NoRowOK DEF RowOK, Resting, Locals
<1>2. v.pc = "read" /\ v.product = p /\ v.base = NoRow /\ v.out = NoRow
  BY DEF Resting
<1>3. req' = [req EXCEPT ![r] = v] /\ UNCHANGED <<client, published, row>>
  BY DEF Ask
<1>4. requests' \in 0 .. MaxRequests
  BY DEF Ask, IInv
<1>5. named' = named \cup {p} /\ raced' = raced
  BY DEF Ask
<1>6. HistoryOK' /\ Grows
  BY <1>5 DEF IInv, HistoryOK, RaceNeedsDispute, Grows
<1> HIDE DEF v
<1>7. LocalOK(v, row', published, named', raced')
  BY <1>1, <1>2, <1>5, NoRowOK DEF LocalOK
<1>8. published \in Nat /\ RowOK(row, published, named, raced)
  BY DEF IInv
<1>9. RowOK(row', published, named', raced')
  BY <1>3, <1>6, <1>8, RowStays DEF Grows
<1>10. ClientOK'
  BY <1>3 DEF IInv, ClientOK, ClientTypeOK, Owing
<1>11. published' = published /\ (row # NoRow => row' # NoRow)
  BY <1>3
<1> QED
  BY <1>3, <1>4, <1>6, <1>7, <1>9, <1>10, <1>11, OneCaller

\* A caller's own step that leaves the row and the history as they are.
LEMMA OneMoves ==
    ASSUME IInv, NEW r \in Callers, NEW v,
           req' = [req EXCEPT ![r] = v], LocalOK(v, row, published, named, raced),
           UNCHANGED <<published, row, requests, history>>, ClientOK'
    PROVE  IInv'
<1>1. named' = named /\ raced' = raced /\ HistoryOK' /\ Grows
  BY SameHistory DEF history
<1>2. RowOK(row', published, named', raced') /\ LocalOK(v, row', published, named', raced')
  BY <1>1 DEF IInv
<1>3. requests' \in 0 .. MaxRequests /\ (row # NoRow => row' # NoRow) /\ published' = published
  BY DEF IInv
<1> QED
  BY <1>1, <1>2, <1>3, OneCaller

LEMMA SweepKept == ASSUME IInv, Sweep PROVE IInv'
<1> DEFINE v == [Resting EXCEPT !.pc = "read", !.product = row.product]
<1>1. row.product \in named /\ named \subseteq Products
  BY DEF Sweep, IInv, RowOK, NoRow, HistoryOK
<1>2. NoRow \in Rows /\ v \in Locals
  BY <1>1, NoRowOK DEF RowOK, Resting, Locals
<1>3. v.pc = "read" /\ v.product = row.product /\ v.base = NoRow /\ v.out = NoRow
  BY DEF Resting
<1>4. req' = [req EXCEPT ![Sweeper] = v] /\ UNCHANGED <<client, published, row, requests, history>>
  BY DEF Sweep
<1> HIDE DEF v
<1>5. LocalOK(v, row, published, named, raced)
  BY <1>1, <1>2, <1>3, NoRowOK DEF LocalOK
<1>6. ClientOK'
  BY <1>4 DEF IInv, ClientOK, ClientTypeOK, Owing
<1> QED
  BY <1>4, <1>5, <1>6, OneMoves

LEMMA ReadRowKept == ASSUME IInv, NEW r \in Callers, ReadRow(r) PROVE IInv'
<1>1. /\ LocalOK(req[r], row, published, named, raced)
      /\ RowOK(row, published, named, raced) /\ ClientOK
      /\ UNCHANGED <<published, row, requests, history>>
  BY DEF IInv, ReadRow
<1>2. CASE ServesHit(r) /\ Reply(r, row) /\ UNCHANGED <<client>>
  <2>1. row.product = req[r].product
    BY <1>2 DEF ServesHit, Hit
  <2>2. ClientOK'
    BY <1>1, <1>2 DEF ClientOK, ClientTypeOK, Owing
  <2> QED
    BY <1>1, <1>2, <2>1, <2>2, RepliesOnly
<1>3. CASE Raise(r) /\ UNCHANGED <<client>>
  <2>1. ClientOK'
    BY <1>1, <1>3 DEF ClientOK, ClientTypeOK, Owing
  <2> QED
    BY <1>1, <1>3, <2>1, NoRowOK, RepliesOnly DEF Raise
<1>4. CASE req[r].pc = "read" /\ req' = [req EXCEPT ![r].pc = "fetch"] /\ Request(r)
  <2> DEFINE v == [req[r] EXCEPT !.pc = "fetch"]
  <2>1. /\ v \in Locals /\ v.pc = "fetch" /\ v.product = req[r].product /\ v.base = req[r].base
        /\ v.out = req[r].out
    BY <1>1 DEF LocalOK, Locals
  <2>2. req' = [req EXCEPT ![r] = v]
    BY <1>4
  <2> HIDE DEF v
  <2>3. LocalOK(v, row, published, named, raced)
    BY <1>1, <1>4, <2>1 DEF LocalOK
  <2>4. ClientOK'
    BY <1>1, <1>4, ClientKept
  <2> QED
    BY <1>1, <2>2, <2>3, <2>4, OneMoves
<1> QED
  BY <1>2, <1>3, <1>4 DEF ReadRow

LEMMA FetchedKept == ASSUME IInv, NEW r \in Callers, Fetched(r) PROVE IInv'
<1>1. /\ LocalOK(req[r], row, published, named, raced) /\ ClientOK /\ HistoryOK
      /\ UNCHANGED <<published, row, requests, history>> /\ published \in 1 .. MaxRevision
  BY DEF IInv, Fetched
<1> DEFINE a == [of |-> req[r].product, rev |-> published]
           v == [req[r] EXCEPT !.pc = "select", !.payload = a]
<1>2. req[r].product \in named /\ req[r].product \in Products /\ req[r].out = NoRow
  BY <1>1 DEF LocalOK, Fetched, HistoryOK
<1>3. a \in Dimensions /\ a.rev <= published /\ a.of = req[r].product
  BY <1>1, <1>2 DEF Dimensions
<1>4. req' = [req EXCEPT ![r] = v]
  BY DEF Fetched
<1> HIDE DEF a
<1>5. /\ v \in Locals /\ v.pc = "select" /\ v.product = req[r].product /\ v.base = req[r].base
      /\ v.out = req[r].out /\ v.payload = a
  BY <1>1, <1>3 DEF LocalOK, Locals
<1> HIDE DEF v
<1>6. LocalOK(v, row, published, named, raced)
  BY <1>1, <1>2, <1>3, <1>5 DEF LocalOK
<1>7. ClientOK'
  BY <1>1, ClientLeft DEF Fetched
<1> QED
  BY <1>1, <1>4, <1>6, <1>7, OneMoves

LEMMA FetchFailsKept == ASSUME IInv, NEW r \in Callers, FetchFails(r) PROVE IInv'
<1>1. ClientOK'
  BY ClientLeft DEF IInv, FetchFails
<1> QED
  BY <1>1, NoRowOK, RepliesOnly DEF FetchFails, Raise

LEMMA SelectKept == ASSUME IInv, NEW r \in Callers, Select(r) PROVE IInv'
<1>1. LocalOK(req[r], row, published, named, raced) /\ RowOK(row, published, named, raced)
  BY DEF IInv
<1> DEFINE v == [req[r] EXCEPT !.pc = "write", !.base = row]
<1>2. /\ v \in Locals /\ v.pc = "write" /\ v.product = req[r].product /\ v.base = row
      /\ v.out = req[r].out /\ v.payload = req[r].payload
  BY <1>1 DEF LocalOK, Locals, RowOK
<1>3. req' = [req EXCEPT ![r] = v] /\ UNCHANGED <<client, published, row, requests, history>>
  BY DEF Select
<1> HIDE DEF v
<1>4. LocalOK(v, row, published, named, raced)
  BY <1>1, <1>2 DEF LocalOK, Select
<1>5. ClientOK'
  BY <1>3 DEF IInv, ClientOK, ClientTypeOK, Owing
<1> QED
  BY <1>3, <1>4, <1>5, OneMoves

LEMMA InsertKept == ASSUME IInv, NEW r \in Callers, Insert(r) PROVE IInv'
<1>1. /\ RowOK(Own(r), published, named, raced)
      /\ Own(r).product = req[r].product /\ Own(r) # NoRow
  BY OwnRow DEF Insert
<1>2. /\ Reply(r, Own(r)) /\ row' = Own(r)
      /\ UNCHANGED <<client, published, requests, history>>
  BY DEF Insert
<1>3. named' = named /\ raced' = raced /\ HistoryOK' /\ Grows
  BY <1>2, SameHistory DEF history
<1>4. ClientOK'
  BY <1>2 DEF IInv, ClientOK, ClientTypeOK, Owing
<1>5. RowOK(Own(r), published, named', raced') /\ RowOK(row', published, named', raced')
  BY <1>1, <1>2, <1>3
<1>6. published' = published /\ requests' = requests /\ row' # NoRow
  BY <1>1, <1>2
<1> HIDE DEF Own
<1> QED
  BY <1>1, <1>2, <1>3, <1>4, <1>5, <1>6, Replies

LEMMA InsertLosesKept == ASSUME IInv, NEW r \in Callers, InsertLoses(r) PROVE IInv'
<1>1. \E e : /\ Reply(r, e) /\ RowOK(e, published, named, raced)
             /\ e # NoRow => e.product = req[r].product
  <2>1. CASE Hit(r)
    BY <2>1 DEF InsertLoses, Hit, IInv
  <2>2. CASE ~Hit(r)
    BY <2>2, NoRowOK DEF InsertLoses, Raise
  <2> QED
    BY <2>1, <2>2
<1>2. ClientOK' /\ UNCHANGED <<published, row, requests, history>>
  BY DEF InsertLoses, IInv, ClientOK, ClientTypeOK, Owing
<1> QED
  BY <1>1, <1>2, RepliesOnly

\* An UPDATE that still finds the product its SELECT has found leaves a row that is all of
\* one product: a column it does not write is one that already agreed with its answer.  When
\* it finds another, two products have been named.
LEMMA UpdateKept == ASSUME IInv, NEW r \in Callers, Update(r) PROVE IInv'
<1>1. /\ LocalOK(req[r], row, published, named, raced) /\ RowOK(row, published, named, raced)
      /\ RowOK(Own(r), published, named, raced) /\ Own(r).product = req[r].product
      /\ Own(r) # NoRow /\ published \in 1 .. MaxRevision /\ HistoryOK
  BY OwnRow DEF IInv, Update
<1>2. /\ Reply(r, Own(r)) /\ row' = Written(r) /\ raced' = (raced \/ row.product # req[r].base.product)
      /\ UNCHANGED <<client, published, requests, named>>
      /\ req[r].pc = "write" /\ req[r].base # NoRow
  BY DEF Update
<1>3. /\ req[r].product \in named /\ req[r].product \in Products /\ row # NoRow
      /\ req[r].payload \in Dimensions /\ req[r].payload.of = req[r].product
      /\ req[r].payload.rev <= published
      /\ RowOK(req[r].base, published, named, raced)
  BY <1>1, <1>2 DEF LocalOK, HistoryOK
<1>4. req[r].payload.rev \in 1 .. published
  BY <1>1, <1>3 DEF Dimensions
<1>5. /\ row.product \in named /\ req[r].base.product \in named
      /\ row.dims.rev \in 1 .. published
      /\ row.dims.of = row.product \/ raced
      /\ req[r].base.dims.of = req[r].base.product \/ raced
  BY <1>1, <1>2, <1>3 DEF RowOK
<1>6. HistoryOK' /\ Grows
  <2>1. raced' \in BOOLEAN /\ Grows
    BY <1>1, <1>2 DEF HistoryOK, Grows
  <2>2. RaceNeedsDispute'
    BY <1>1, <1>2, <1>5 DEF HistoryOK, RaceNeedsDispute
  <2> QED
    BY <1>1, <1>2, <2>1, <2>2 DEF HistoryOK
<1>7. /\ Written(r) \in Rows /\ Written(r).product \in {row.product, req[r].product}
      /\ Written(r).dims \in {row.dims, req[r].payload}
  BY <1>1, <1>3 DEF Written, RowOK, Rows
<1>8. Written(r).dims.of = Written(r).product \/ raced'
  <2>1. SUFFICES ASSUME ~raced, row.product = req[r].base.product
                 PROVE  Written(r).dims.of = Written(r).product
    BY <1>2
  <2>2. Written(r).product = req[r].product
    BY <2>1 DEF Written
  <2>3. CASE req[r].base.dims = req[r].payload
    <3>1. Written(r).dims = row.dims
      BY <2>3 DEF Written
    <3>2. row.dims.of = row.product /\ req[r].base.dims.of = req[r].base.product
      BY <1>5, <2>1
    <3>3. req[r].base.product = req[r].product
      BY <1>3, <2>3, <3>2
    <3> QED
      BY <2>1, <2>2, <3>1, <3>2, <3>3
  <2>4. CASE req[r].base.dims # req[r].payload
    BY <1>3, <2>2, <2>4 DEF Written
  <2> QED
    BY <2>3, <2>4
<1>9. Written(r).product \in named /\ Written(r).dims.rev \in 1 .. published
  BY <1>3, <1>4, <1>5, <1>7
<1>10. named \subseteq Products
  BY <1>1 DEF HistoryOK
<1>11. RowOK(Written(r), published, named', raced') /\ Written(r) # NoRow
  BY <1>2, <1>7, <1>8, <1>9, <1>10 DEF RowOK, NoRow
<1>12. RowOK(Own(r), published, named', raced')
  BY <1>1, <1>6, RowStays DEF Grows
<1>13. ClientOK' /\ requests' = requests /\ published' = published
  BY <1>2 DEF IInv, ClientOK, ClientTypeOK, Owing
<1> HIDE DEF Own, Written
<1> QED
  BY <1>1, <1>2, <1>6, <1>11, <1>12, <1>13, Replies

LEMMA WriteFailsKept == ASSUME IInv, NEW r \in Callers, WriteFails(r) PROVE IInv'
<1>1. ClientOK' /\ UNCHANGED <<published, row, requests, history>>
  BY DEF WriteFails, IInv, ClientOK, ClientTypeOK, Owing
<1> QED
  BY <1>1, NoRowOK, RepliesOnly DEF WriteFails, Raise

LEMMA FinishKept == ASSUME IInv, NEW r \in Callers, Finish(r) PROVE IInv'
<1>1. ClientOK' /\ UNCHANGED <<published, row, requests, history>>
  BY DEF Finish, IInv, ClientOK, ClientTypeOK, Owing
<1>2. LocalOK(Resting, row, published, named, raced)
  BY RestingOK, NoRowOK
<1> QED
  BY <1>1, <1>2, OneMoves DEF Finish

\* The row, the callers and the client while a revision is published or a day passes.
LEMMA OthersKept ==
    ASSUME IInv,
           \/ Publish \/ Age
           \/ \E r \in Callers : ClientStep(r) /\ UNCHANGED <<published, row, req, requests, history>>
    PROVE  IInv'
<1>1. /\ published \in 1 .. MaxRevision /\ published' \in 1 .. MaxRevision /\ published <= published'
      /\ UNCHANGED <<req, requests, history>>
  BY DEF IInv, Publish, Age
<1>2. named' = named /\ raced' = raced /\ HistoryOK'
  BY <1>1, SameHistory DEF history
<1>3. ClientOK'
  BY ClientKept DEF IInv, Publish, Age, ClientOK, ClientTypeOK, Owing
<1>4. RowOK(row', published', named, raced) /\ (row # NoRow => row' # NoRow)
  <2>1. RowOK(row, published', named, raced)
    BY <1>1, RowStays DEF IInv
  <2>2. CASE row' = row
    BY <2>1, <2>2
  <2>3. CASE Age
    <3>1. row' \in Rows /\ row'.product = row.product /\ row'.dims = row.dims /\ row # NoRow
      BY <2>1, <2>3 DEF Age, RowOK, Rows
    <3>2. row'.product \in Products
      BY <2>1, <3>1 DEF RowOK, IInv, HistoryOK
    <3> QED
      BY <2>1, <3>1, <3>2 DEF RowOK, NoRow
  <2> QED
    BY <2>2, <2>3 DEF Publish
<1>5. \A r \in Callers : LocalOK(req[r], row', published', named, raced)
  BY <1>1, <1>4, LocalStays DEF IInv
<1> QED
  BY <1>1, <1>2, <1>3, <1>4, <1>5 DEF IInv

-----------------------------------------------------------------------------
LEMMA InvariantHolds == Spec => []IInv
<1>1. Init => IInv
  <2> SUFFICES ASSUME Init PROVE IInv
    OBVIOUS
  <2>1. ClientOK
    BY DEF Init, ClientInit, Fresh, ClientOK, ClientTypeOK, Owing
  <2>2. LocalOK(Resting, row, published, named, raced)
    BY RestingOK, NoRowOK
  <2>3. HistoryOK
    BY DEF Init, HistoryOK, RaceNeedsDispute
  <2> QED
    BY <2>1, <2>2, <2>3, NoRowOK DEF Init, IInv
<1>2. IInv /\ [Next]_mvars => IInv'
  <2> SUFFICES ASSUME IInv, [Next]_mvars PROVE IInv'
    OBVIOUS
  <2>1. ASSUME NEW r \in Callers, Step(r) PROVE IInv'
    BY <2>1, ReadRowKept, FetchedKept, FetchFailsKept, SelectKept, InsertKept, InsertLosesKept,
       UpdateKept, WriteFailsKept, FinishKept, OthersKept DEF Step
  <2>2. CASE UNCHANGED mvars
    BY <2>2 DEF mvars, history, IInv, ClientOK, ClientTypeOK, Owing, HistoryOK, RaceNeedsDispute
  <2> QED
    BY <2>1, <2>2, AskKept, SweepKept, OthersKept DEF Next
<1> QED
  BY <1>1, <1>2, PTL DEF Spec

\* MetadataCache: whatever requests, sweeps, failures and revisions overlap, a caller is
\* answered under the product it has named, with dimensions that were published, and of
\* that product unless an UPDATE has lost a race for the row's product, which takes
\* requests that name two products; a bucket never owes more than the token its one
\* request waits for.
THEOREM MetadataServed == Spec => []MetaInv
<1>1. IInv => MetaInv
  <2> SUFFICES ASSUME IInv PROVE MetaInv
    OBVIOUS
  <2>1. TypeOK
    BY DEF IInv, ClientOK, HistoryOK, TypeOK, RowOK, LocalOK, Locals
  <2>2. Served
    BY DEF IInv, LocalOK, RowOK, Served
  <2> QED
    BY <2>1, <2>2 DEF MetaInv, IInv, HistoryOK
<1> QED
  BY <1>1, InvariantHolds, PTL

\* What a caller is answered: a row that is all of the product it has named.
ServedOwn ==
    \A r \in Callers : req[r].out # NoRow =>
        req[r].out.product = req[r].product /\ req[r].out.dims.of = req[r].product

\* MetadataCache: while all requests name one product for the cube, the mapping that the
\* comparisons are there to guard (metadata_cache.py:253-257), a caller is answered with that product's
\* dimensions, however fetches, inserts and updates overlap.
THEOREM AgreementSuffices == Spec /\ [](\A p, q \in named : p = q) => []ServedOwn
<1>1. MetaInv /\ (\A p, q \in named : p = q) => ServedOwn
  BY DEF MetaInv, Served, RaceNeedsDispute, ServedOwn
<1> QED
  BY <1>1, MetadataServed, PTL
=============================================================================

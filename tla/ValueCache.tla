------------------------------ MODULE ValueCache ------------------------------
(***************************************************************************)
(* The semantic value cache: StatCanValueCacheService with its repository, *)
(* and ResolveService, the only reader.  One mapping (cube_id and          *)
(* semantic_key) is modelled.  It pins one cell of its cube, named by its  *)
(* coord, and an edit may pin another: rows stay cached under every coord  *)
(* the mapping has had.                                                    *)
(*                                                                         *)
(* Three kinds of writer overlap: a resolve that primes on a miss, the     *)
(* prime that follows the save of a mapping, and refresh_all.  Each asks   *)
(* StatCan, awaits the answer and stores it later, in a transaction of its *)
(* own; nothing compares the age of two answers.                           *)
(*                                                                         *)
(* refresh_all is there for a nightly job that does not get to it: the     *)
(* job's wrapper calls AsyncTokenBucket() without its two arguments and    *)
(* logs the TypeError (core/scheduler.py:270).  Whatever calls the service *)
(* directly may run it at any time, or never; nothing here relies on it.   *)
(*                                                                         *)
(* A row's content is the revision StatCan had published when it answered; *)
(* two rows have one source_hash exactly when they have one revision.      *)
(***************************************************************************)
EXTENDS Naturals, FiniteSets

CONSTANTS
    Coords,
    Requests,       \* tasks of the API: resolves and saves of the mapping
    MaxPeriod,      \* bound: reference periods with a date StatCan publishes
    MaxRevision,    \* bound: revisions of one data point
    MaxVersion,     \* bound: versions of the mapping
    MaxReleases,    \* bound: data points StatCan publishes or revises
    AskedPeriods,   \* the periods callers ask for; Latest is none
    PrimeWindow,    \* _n_for_frequency of the frequency a prime uses: the mapping's own
    RefreshWindow   \* _n_for_frequency of the frequency in the metadata cache

\* The periods that parse_ref_period_to_date can read, in order; 0 is a label it
\* cannot read, whose period_start is NULL.
Periods == 0 .. MaxPeriod
NoDate == 0
Latest == MaxPeriod + 1    \* the caller named no period

ASSUME ValueConstants ==
    /\ Coords # {} /\ MaxPeriod \in Nat /\ MaxReleases \in Nat
    /\ MaxRevision \in Nat \ {0} /\ MaxVersion \in Nat \ {0}
    /\ AskedPeriods \subseteq 0 .. MaxPeriod + 1
    /\ PrimeWindow \in Nat \ {0}
    /\ RefreshWindow \in Nat \ {0}

VARIABLES
    published,  \* StatCan: the current revision of every data point, 0 if there is none
    releases,   \* how often StatCan has published
    cache,      \* semantic_value_cache: revision (0: no row) and is_stale
    mapping,    \* semantic_mappings: is_active and version
    pins,       \* history: the coord each version of the mapping pins
    refresh,    \* the local variables of refresh_all
    req         \* the local variables of resolve_value and of the prime after a save

vvars == <<published, releases, cache, mapping, pins, refresh, req>>

NoRow == [rev |-> 0, stale |-> FALSE]
NoAnswer == [p \in Periods |-> 0]
Unserved == [kind |-> "none", period |-> NoDate, rev |-> 0, stale |-> FALSE]

-----------------------------------------------------------------------------
(* StatCan and the table.                                                   *)

Dated(rows) == {p \in Periods : rows[p] # 0}

\* ORDER BY period_start DESC NULLS LAST LIMIT n: NoDate is below every period.
LatestOf(S, n) == {p \in S : Cardinality({q \in S : q > p}) < n}

\* getDataFromCubePidCoordAndLatestNPeriods.
AnswerFor(c, n) ==
    [p \in Periods |-> IF p \in LatestOf(Dated(published[c]), n) THEN published[c][p] ELSE 0]

\* get_data_from_cube_pid_coord_and_latest_n_periods: the answer, or none when StatCan
\* reports no success for the cell; what is raised leaves the caller no answer either.
GetData(c, n) == {AnswerFor(c, n), NoAnswer}

CachedPeriods(c) == {p \in Periods : cache[c][p].rev # 0}
\* list_active_lookup_keys: the coords with a row, if the mapping is active; an active
\* mapping without rows has no coord and is passed over.
LookupKeys == {c \in Coords : mapping.active /\ CachedPeriods(c) # {}}

FoundAnyPeriod(c, period) == CachedPeriods(c)
\* get_by_lookup, narrowed to the period when the caller pinned one.
Found(c, period) == {p \in CachedPeriods(c) : period \in {p, Latest}}

\* pick_row takes the last of the rows, which get_by_lookup orders by period_start
\* ASC NULLS LAST: a row whose period has no date is the "latest" of its coord.
PickRow(found) ==
    IF NoDate \in found THEN NoDate ELSE CHOOSE p \in found : \A q \in found : q <= p

\* ON CONFLICT DO UPDATE WHERE the source_hash differs: a row that is equal is not
\* written and not returned; it is fetched instead, and counts as verified again.
UpsertPeriodPg(row, rev) ==
    IF row.rev = rev THEN [row EXCEPT !.stale = FALSE] ELSE [rev |-> rev, stale |-> FALSE]
UpsertPeriodOrDrop(row, rev) == IF rev # 0 THEN UpsertPeriodPg(row, rev) ELSE NoRow
\* upsert_period, for a period the answer holds; any other keeps its row.
UpsertPeriod(row, rev) == IF rev # 0 THEN UpsertPeriodPg(row, rev) ELSE row

\* The data points of an answer are stored together.
Stored(c, answer) ==
    [cache EXCEPT ![c] = [p \in Periods |-> UpsertPeriod(cache[c][p], answer[p])]]

\* The UPDATE of mark_stale_outside_window, with the periods its SELECT has kept.
Marked(c, keep) ==
    [cache EXCEPT ![c] = [p \in Periods |->
        IF p \in CachedPeriods(c) \ keep THEN [rev |-> cache[c][p].rev, stale |-> TRUE]
                                         ELSE cache[c][p]]]

\* StatCan publishes a data point or revises one.
Release(c, p) ==
    /\ published[c][p] < MaxRevision
    /\ releases < MaxReleases
    /\ releases' = releases + 1
    /\ published' = [published EXCEPT ![c][p] = @ + 1]
    /\ UNCHANGED <<cache, mapping, pins, refresh, req>>

-----------------------------------------------------------------------------
(* The mapping: SemanticMappingService, whose own steps are another module's.*)

\* An edit pins another cell or reactivates the mapping; a service that was built with a
\* value cache goes on to prime the cell's values, best effort.  (Neither the router nor
\* the seed script passes it one.)
SaveMapping(r, c) ==
    /\ req[r].pc = "idle"
    /\ mapping.version < MaxVersion
    /\ c # pins[mapping.version] \/ ~mapping.active
    /\ mapping' = [active |-> TRUE, version |-> mapping.version + 1]
    /\ pins' = [pins EXCEPT ![mapping.version + 1] = c]
    /\ \E next \in {"prime", "done"} :
         req' = [req EXCEPT ![r] = [@ EXCEPT !.pc = next, !.task = "save", !.coord = c,
                                             !.version = mapping.version + 1]]
    /\ UNCHANGED <<published, releases, cache, refresh>>

SoftDelete ==
    /\ mapping.active
    /\ mapping' = [mapping EXCEPT !.active = FALSE]
    /\ UNCHANGED <<published, releases, cache, pins, refresh, req>>

-----------------------------------------------------------------------------
(* resolve_value.                                                           *)

Idle == [pc |-> "idle", task |-> "none", coord |-> CHOOSE c \in Coords : TRUE, period |-> NoDate,
         version |-> 0, answer |-> NoAnswer, out |-> Unserved]

Goto(r, pc) == req' = [req EXCEPT ![r] = [@ EXCEPT !.pc = pc]]

Reply(r, kind) ==
    req' = [req EXCEPT ![r] = [@ EXCEPT !.pc = "done", !.answer = NoAnswer, !.out = [Unserved EXCEPT !.kind = kind]]]

\* map_to_resolved: the row found, with the version of the mapping read at the start.
Serve(r, kind, p) ==
    req' = [req EXCEPT ![r] = [@ EXCEPT !.pc = "done", !.answer = NoAnswer,
              !.out = [kind |-> kind, period |-> p, rev |-> cache[req[r].coord][p].rev,
                       stale |-> cache[req[r].coord][p].stale]]]

\* Step 1: the active mapping.  The caller names a cell by its dims and members, and
\* a period or none; `task` is "compare" when allow_auto_prime is off.
Ask(r, task, c, period) ==
    /\ req[r].pc = "idle"
    /\ req' = [req EXCEPT ![r] = [@ EXCEPT !.task = task, !.coord = c, !.period = period,
                !.version = mapping.version,
                !.pc = IF mapping.active THEN "validate" ELSE "done",
                !.out = [Unserved EXCEPT !.kind = IF mapping.active THEN "none" ELSE "unmapped"]]]
    /\ UNCHANGED <<published, releases, cache, mapping, pins, refresh>>

\* Step 2: the cube's metadata may be out of reach or no longer match the mapping; the
\* cell must be the one the mapping pins.
MatchesAny(r) == TRUE
Matches(r) == req[r].coord = pins[req[r].version]
Validate(r) ==
    /\ req[r].pc = "validate"
    /\ \/ Matches(r) /\ Goto(r, "read")
       \/ Reply(r, "invalid")
    /\ UNCHANGED <<published, releases, cache, mapping, pins, refresh>>

\* Step 4: a hit is served whether it is stale or not; a compare stops at a miss.
Read(r) ==
    /\ req[r].pc = "read"
    /\ LET found == Found(req[r].coord, req[r].period) IN
       \/ /\ found # {}
          /\ Serve(r, "hit", PickRow(found))
       \/ /\ found = {} /\ req[r].task = "compare"
          /\ Reply(r, "miss")
       \/ /\ found = {} /\ req[r].task # "compare"
          /\ Goto(r, "prime")
    /\ UNCHANGED <<published, releases, cache, mapping, pins, refresh>>

-----------------------------------------------------------------------------
(* auto_prime, for a resolve and after a save.                              *)

AfterPrime(r) == IF req[r].task = "save" THEN "done" ELSE "requery"

\* The fetch: StatCan answers, or it fails or has nothing.
Prime(r) ==
    /\ req[r].pc = "prime"
    /\ \E answer \in GetData(req[r].coord, PrimeWindow) :
         req' = [req EXCEPT ![r] = [@ EXCEPT
                   !.pc = IF answer = NoAnswer THEN AfterPrime(r) ELSE "persist", !.answer = answer]]
    /\ UNCHANGED <<published, releases, cache, mapping, pins, refresh>>

\* _persist_response: a failure is an AutoPrimeResult with an error, no more.
Persist(r) ==
    /\ req[r].pc = "persist"
    /\ cache' \in {cache, Stored(req[r].coord, req[r].answer)}
    /\ req' = [req EXCEPT ![r] = [@ EXCEPT !.pc = AfterPrime(r), !.answer = NoAnswer]]
    /\ UNCHANGED <<published, releases, mapping, pins, refresh>>

\* Steps 6 to 8: the second read comes whether the prime succeeded or not.
Requery(r) ==
    /\ req[r].pc = "requery"
    /\ LET found == Found(req[r].coord, req[r].period) IN
       \/ found # {} /\ Serve(r, "primed", PickRow(found))
       \/ found = {} /\ Reply(r, "miss")
    /\ UNCHANGED <<published, releases, cache, mapping, pins, refresh>>

Finish(r) ==
    /\ req[r].pc = "done"
    /\ req' = [req EXCEPT ![r] = Idle]
    /\ UNCHANGED <<published, releases, cache, mapping, pins, refresh>>

-----------------------------------------------------------------------------
(* refresh_all, one at a time: the wrapper would be its only caller, with   *)
(* max_instances=1.                                                         *)

Resting == [pc |-> "idle", todo |-> {}, coord |-> CHOOSE c \in Coords : TRUE,
            answer |-> NoAnswer, keep |-> {}]

\* The loop goes on with one of the coords left, or the job is over.
NextCoord(todo) ==
    IF todo = {} THEN {Resting}
    ELSE {[Resting EXCEPT !.pc = "fetch", !.todo = todo \ {c}, !.coord = c] : c \in todo}

RefreshStart ==
    /\ refresh.pc = "idle"
    /\ LookupKeys # {}
    /\ refresh' \in NextCoord(LookupKeys)
    /\ UNCHANGED <<published, releases, cache, mapping, pins, req>>

RefreshFetch(c) ==
    /\ refresh.pc = "fetch"
    /\ refresh.coord = c
    /\ \E answer \in GetData(c, RefreshWindow) \ {NoAnswer} :
         refresh' = [refresh EXCEPT !.pc = "persist", !.answer = answer]
    /\ UNCHANGED <<published, releases, cache, mapping, pins, req>>

\* A DataSourceError or an empty answer passes the coord over; any other exception
\* of the client ends the whole job.
RefreshFetchFails ==
    /\ refresh.pc = "fetch"
    /\ refresh' \in NextCoord(refresh.todo) \cup {Resting}
    /\ UNCHANGED <<published, releases, cache, mapping, pins, req>>

RefreshPersist(c) ==
    /\ refresh.pc = "persist"
    /\ refresh.coord = c
    /\ cache' = Stored(c, refresh.answer)
    /\ refresh' = [refresh EXCEPT !.pc = "select", !.answer = NoAnswer]
    /\ UNCHANGED <<published, releases, mapping, pins, req>>

\* mark_stale_outside_window: two statements of a READ COMMITTED transaction.
RefreshSelect ==
    /\ refresh.pc = "select"
    /\ refresh' = [refresh EXCEPT !.pc = "update",
                                  !.keep = LatestOf(CachedPeriods(refresh.coord), RefreshWindow)]
    /\ UNCHANGED <<published, releases, cache, mapping, pins, req>>

RefreshUpdate ==
    /\ refresh.pc = "update"
    /\ cache' = Marked(refresh.coord, refresh.keep)
    /\ refresh' \in NextCoord(refresh.todo)
    /\ UNCHANGED <<published, releases, mapping, pins, req>>

\* A failure of the storing or the marking is counted, and the loop goes on.
RefreshStoreFails ==
    /\ refresh.pc \in {"persist", "select", "update"}
    /\ refresh' \in NextCoord(refresh.todo)
    /\ UNCHANGED <<published, releases, cache, mapping, pins, req>>

-----------------------------------------------------------------------------
ValueInit ==
    /\ published \in [Coords -> {[p \in Periods |-> IF p = 1 THEN 1 ELSE 0]}]
    /\ releases = 0
    /\ cache = [c \in Coords |-> [p \in Periods |-> NoRow]]
    /\ mapping = [active |-> TRUE, version |-> 1]
    /\ pins = [v \in 1 .. MaxVersion |-> Idle.coord]
    /\ refresh = Resting
    /\ req = [r \in Requests |-> Idle]

\* GET /resolve and the save of a mapping.
CallerStep(r) ==
    \E c \in Coords :
        \/ SaveMapping(r, c)
        \/ \E p \in AskedPeriods : Ask(r, "resolve", c, p)

RequestStep(r) == Validate(r) \/ Read(r) \/ Prime(r) \/ Persist(r) \/ Requery(r)

RefreshStep ==
    \/ RefreshStart \/ RefreshFetchFails \/ RefreshSelect \/ RefreshUpdate \/ RefreshStoreFails
    \/ \E c \in Coords : RefreshFetch(c) \/ RefreshPersist(c)

StatCanStep == \E c \in Coords, p \in Periods : Release(c, p)

ValueNext ==
    \/ StatCanStep
    \/ SoftDelete
    \/ RefreshStep
    \/ \E r \in Requests : CallerStep(r) \/ RequestStep(r) \/ Finish(r)
    \/ \E r \in Requests, c \in Coords, p \in AskedPeriods : Ask(r, "compare", c, p)

ValueSpec == ValueInit /\ [][ValueNext]_vvars

-----------------------------------------------------------------------------
(* Properties.                                                              *)

Rows == [rev : 0 .. MaxRevision, stale : BOOLEAN]
Answers == [Periods -> 0 .. MaxRevision]

TypeOK ==
    /\ published \in [Coords -> Answers]
    /\ releases \in 0 .. MaxReleases
    /\ cache \in [Coords -> [Periods -> Rows]]
    /\ mapping \in [active : BOOLEAN, version : 1 .. MaxVersion]
    /\ pins \in [1 .. MaxVersion -> Coords]
    /\ refresh \in [pc : {"idle", "fetch", "persist", "select", "update"}, todo : SUBSET Coords,
                    coord : Coords, answer : Answers, keep : SUBSET Periods]
    /\ req \in [Requests ->
          [pc : {"idle", "validate", "read", "prime", "persist", "requery", "done"},
           task : {"none", "resolve", "compare", "save"}, coord : Coords,
           period : Periods \cup {Latest}, version : 0 .. MaxVersion, answer : Answers,
           out : [kind : {"none", "hit", "primed", "miss", "invalid", "unmapped"},
                  period : Periods, rev : 0 .. MaxRevision, stale : BOOLEAN]]]

\* Nothing is cached, in flight or served that StatCan has not published.
Genuine ==
    /\ \A c \in Coords, p \in Periods : cache[c][p].rev <= published[c][p]
    /\ \A p \in Periods : refresh.answer[p] <= published[refresh.coord][p]
    /\ \A r \in Requests, p \in Periods : req[r].answer[p] <= published[req[r].coord][p]
    /\ \A r \in Requests : req[r].out.rev <= published[req[r].coord][req[r].out.period]

\* A request past the validation works on the cell that the version it read pins.
OnPinnedCell ==
    \A r \in Requests :
        \/ req[r].pc \in {"read", "prime", "persist", "requery"}
        \/ req[r].out.kind \in {"hit", "primed"}
        => req[r].version \in 1 .. mapping.version /\ req[r].coord = pins[req[r].version]

\* What the cache holds and serves is genuine (value_cache.py:376, _persist_response,
\* and resolve/service.py:190), in whatever order the answers are stored.
ValueInv == TypeOK /\ Genuine /\ OnPinnedCell

\* A served value belongs to the cell pinned by the version it is served with and to
\* the period asked for, although the mapping is edited during the request: "preventing
\* silent coord drift" (resolve/filters.py:107).
NoCoordDrift ==
    \A r \in Requests : req[r].out.kind \in {"hit", "primed"} =>
        /\ req[r].coord = pins[req[r].version]
        /\ req[r].period \in {req[r].out.period, Latest}
        /\ req[r].out.rev # 0
=============================================================================

-------------------------- MODULE SemanticMappings --------------------------
(***************************************************************************)
(* The writers of the semantic_mappings table: POST /upsert, the seed      *)
(* script's batch of upserts, and DELETE, which only deactivates.  `version`*)
(* is what If-Match names and what a publication's snapshots are compared   *)
(* with, so it has to tell the contents of a mapping apart.                *)
(*                                                                         *)
(* A call of SemanticMappingService is one session and one transaction at  *)
(* READ COMMITTED.  INSERT and UPDATE wait while another transaction has   *)
(* written the same row, and then meet what it left; an uncommitted row is *)
(* in `pending`, and holding it is holding the lock.  The validation       *)
(* against the metadata cache comes first and writes nothing here.         *)
(***************************************************************************)
EXTENDS Naturals

CONSTANTS
    Keys,        \* pairs of cube_id and semantic_key
    Writers,     \* concurrent calls of the service
    NoKey,
    MaxCalls,    \* bound: calls made
    MaxFaults    \* bound: calls that fail half-way

ASSUME MappingConstants ==
    /\ NoKey \notin Keys
    /\ MaxCalls \in Nat
    /\ MaxFaults \in Nat

VARIABLES
    row,        \* the committed rows; what a call writes is named by its number
    calls,      \* the number of the next call
    asked,      \* what the caller wants stored, and the row it has seen
    writer,     \* the local variables of _upsert_atomic and soft_delete
    pending,    \* rows written and not committed
    faults,
    written,    \* history: every row that was ever committed
    overtaken   \* history: keys with a deletion that was overtaken

vars == <<row, calls, asked, writer, pending, faults, written, overtaken>>

Absent == [version |-> 0, content |-> 0, active |-> FALSE]
NothingAsked == [content |-> 0, active |-> FALSE, guarded |-> FALSE, seen |-> Absent]
Closed == [pc |-> "idle", key |-> NoKey, todo |-> {}, read |-> Absent]
Nothing == [k \in Keys |-> Absent]

-----------------------------------------------------------------------------
(* Sessions.                                                                *)

Unlocked(w, k) == \A v \in Writers \ {w} : pending[v][k] = Absent

Close(w) ==
    /\ asked' = [asked EXCEPT ![w] = NothingAsked]
    /\ writer' = [writer EXCEPT ![w] = Closed]
    /\ pending' = [pending EXCEPT ![w] = Nothing]

LeftOpen(w) ==
    /\ writer' = [writer EXCEPT ![w] = [@ EXCEPT !.pc = "refused"]]
    /\ UNCHANGED <<asked, pending>>
\* A refusal (412, or 400 after the retry) leaves the session: rolled back.
Refuse(w) == Close(w)

\* The item is written; the next one of a batch follows, in the file's order.
WriteItem(w, new) ==
    /\ pending' = [pending EXCEPT ![w] = [@ EXCEPT ![writer[w].key] = new]]
    /\ \/ /\ writer[w].todo = {}
          /\ writer' = [writer EXCEPT ![w] = [@ EXCEPT !.pc = "commit"]]
       \/ \E k \in writer[w].todo :
            writer' = [writer EXCEPT ![w] = [pc |-> "insert", key |-> k, read |-> Absent,
                                             todo |-> writer[w].todo \ {k}]]
    /\ UNCHANGED asked

-----------------------------------------------------------------------------
(* _upsert_atomic.                                                          *)

\* The session of a call that stores k first and the rows of todo after it.
Begin(w, k, todo, active, guarded) ==
    /\ writer[w].pc = "idle"
    /\ calls <= MaxCalls
    /\ k \notin todo
    /\ guarded => todo = {} /\ row[k] # Absent
    /\ calls' = calls + 1
    /\ asked' = [asked EXCEPT ![w] =
                   [content |-> calls, active |-> active, guarded |-> guarded,
                    seen |-> IF guarded THEN row[k] ELSE Absent]]
    /\ writer' = [writer EXCEPT ![w] =
                    [pc |-> "insert", key |-> k, todo |-> todo, read |-> Absent]]
    /\ UNCHANGED <<row, pending, faults, written, overtaken>>

\* upsert_validated, for POST /upsert: a caller may send the version of the row it has
\* seen, in If-Match or in the body.
Upsert(w, k, active, guarded) == Begin(w, k, {}, active, guarded)

\* upsert_many_validated, for the seed script: every item is validated before the session
\* opens, and one that is refused leaves nothing stored; no versions are sent.
UpsertMany(w, k, todo, active) == Begin(w, k, todo, active, FALSE)

\* What the call stores, in the place of a row with that version.
SameVersion(w, version) ==
    [version |-> IF version = 0 THEN 1 ELSE version, content |-> asked[w].content,
     active |-> asked[w].active]
Stored(w, version) ==
    [version |-> version + 1, content |-> asked[w].content, active |-> asked[w].active]

\* INSERT in a savepoint; on a conflict only the savepoint is rolled back.
Insert(w) ==
    LET k == writer[w].key
    IN  /\ writer[w].pc = "insert"
        /\ Unlocked(w, k)
        /\ \/ row[k] = Absent /\ WriteItem(w, Stored(w, 0))
           \/ /\ row[k] # Absent
              /\ writer' = [writer EXCEPT ![w] = [@ EXCEPT !.pc = "select"]]
              /\ UNCHANGED <<asked, pending>>
        /\ UNCHANGED <<row, calls, faults, written, overtaken>>

Select(w) ==
    /\ writer[w].pc = "select"
    /\ writer' = [writer EXCEPT ![w] = [@ EXCEPT !.pc = "update",
                                                 !.read = row[writer[w].key]]]
    /\ UNCHANGED <<row, calls, asked, pending, faults, written, overtaken>>

Expected(w) == IF asked[w].guarded THEN asked[w].seen.version ELSE writer[w].read.version
MatchesAny(w) == TRUE
Matches(w) == row[writer[w].key].version = Expected(w)

\* UPDATE ... WHERE version = expected, tested once the row is free.
Update(w) ==
    LET k == writer[w].key
    IN  /\ writer[w].pc \in {"update", "retry"}
        /\ Unlocked(w, k)
        /\ Matches(w)
        /\ WriteItem(w, Stored(w, row[k].version))
        /\ UNCHANGED <<row, calls, faults, written, overtaken>>

\* Without If-Match the row is selected once more and the update tried again.
\* The session still has the object of the first select, and a SELECT does not
\* overwrite what is loaded: `fresh` is `existing`, version included.
Fresh(w) == writer[w].read
UpdateMisses(w) ==
    /\ writer[w].pc \in {"update", "retry"}
    /\ Unlocked(w, writer[w].key)
    /\ ~Matches(w)
    /\ \/ /\ asked[w].guarded \/ writer[w].pc = "retry"
          /\ Refuse(w)
       \/ /\ ~asked[w].guarded /\ writer[w].pc = "update"
          /\ writer' = [writer EXCEPT ![w] = [@ EXCEPT !.pc = "retry", !.read = Fresh(w)]]
          /\ UNCHANGED <<asked, pending>>
    /\ UNCHANGED <<row, calls, faults, written, overtaken>>

-----------------------------------------------------------------------------
(* soft_delete.                                                             *)

\* session.get; an inactive row is returned as it is.
Delete(w, k) ==
    /\ writer[w].pc = "idle"
    /\ calls <= MaxCalls
    /\ row[k].active
    /\ calls' = calls + 1
    /\ writer' = [writer EXCEPT ![w] = [pc |-> "flush", key |-> k, todo |-> {}, read |-> row[k]]]
    /\ UNCHANGED <<row, asked, pending, faults, written, overtaken>>

\* The flush: the before_update listener has counted up the version that was
\* read, and the UPDATE by id writes it with is_active and nothing else.
Deactivated(w, current) == [current EXCEPT !.active = FALSE, !.version = writer[w].read.version + 1]
Deactivate(w) ==
    LET k == writer[w].key
    IN  /\ writer[w].pc = "flush"
        /\ Unlocked(w, k)
        /\ WriteItem(w, Deactivated(w, row[k]))
        /\ overtaken' = IF row[k] # writer[w].read THEN overtaken \cup {k} ELSE overtaken
        /\ UNCHANGED <<row, calls, faults, written>>

-----------------------------------------------------------------------------
(* The end of a session.                                                    *)

Commit(w) ==
    LET wrote(k) == pending[w][k] # Absent
    IN  /\ writer[w].pc = "commit"
        /\ row' = [k \in Keys |-> IF wrote(k) THEN pending[w][k] ELSE row[k]]
        /\ written' = [k \in Keys |-> IF wrote(k) THEN written[k] \cup {pending[w][k]}
                                                  ELSE written[k]]
        /\ Close(w)
        /\ UNCHANGED <<calls, faults, overtaken>>

\* A statement or the commit raises, or the process exits.
CallFails(w) ==
    /\ writer[w].pc # "idle"
    /\ faults < MaxFaults
    /\ faults' = faults + 1
    /\ Close(w)
    /\ UNCHANGED <<row, calls, written, overtaken>>

\* PostgreSQL fails one of the calls that wait for each other.
Waits(w) == /\ writer[w].pc \in {"insert", "update", "retry", "flush"}
            /\ ~Unlocked(w, writer[w].key)
Deadlocked(w) ==
    \E cycle \in SUBSET Writers :
        /\ w \in cycle
        /\ \A v \in cycle : /\ Waits(v)
                            /\ \E u \in cycle \ {v} : pending[u][writer[v].key] # Absent
DeadlockBroken(w) ==
    /\ Deadlocked(w)
    /\ Close(w)
    /\ UNCHANGED <<row, calls, faults, written, overtaken>>

-----------------------------------------------------------------------------
Init ==
    /\ row = Nothing
    /\ calls = 1
    /\ asked = [w \in Writers |-> NothingAsked]
    /\ writer = [w \in Writers |-> Closed]
    /\ pending = [w \in Writers |-> Nothing]
    /\ faults = 0
    /\ written = [k \in Keys |-> {}]
    /\ overtaken = {}

Call(w) ==
    \/ \E k \in Keys, active, guarded \in BOOLEAN : Upsert(w, k, active, guarded)
    \/ \E k \in Keys, todo \in (SUBSET Keys) \ {{}}, active \in BOOLEAN : UpsertMany(w, k, todo, active)
    \/ \E k \in Keys : Delete(w, k)
Step(w) ==
    \/ Insert(w) \/ Select(w) \/ Update(w) \/ UpdateMisses(w) \/ Deactivate(w)
    \/ Commit(w) \/ DeadlockBroken(w)
Next == \E w \in Writers : Call(w) \/ Step(w) \/ CallFails(w)

Spec == Init /\ [][Next]_vars

-----------------------------------------------------------------------------
(* Correctness.                                                             *)

Row == [version : Nat, content : Nat, active : BOOLEAN]
WriterPcs == {"idle", "insert", "select", "update", "retry", "flush", "commit"}

\* Every variable has its type: rows, committed and pending, and the local
\* variables of the calls.
TypeOK ==
    /\ row \in [Keys -> Row]
    /\ calls \in Nat
    /\ asked \in [Writers -> [content : Nat, active : BOOLEAN, guarded : BOOLEAN, seen : Row]]
    /\ writer \in [Writers -> [pc : WriterPcs, key : Keys \cup {NoKey},
                               todo : SUBSET Keys, read : Row]]
    /\ pending \in [Writers -> [Keys -> Row]]
    /\ faults \in Nat
    /\ written \in [Keys -> SUBSET Row]
    /\ overtaken \subseteq Keys

\* models/semantic_mapping.py:113, a snapshot with another version is stale,
\* and so one with the same version is not: no two rows that were ever committed
\* for a key have the same version, unless a deletion of it was overtaken.
VersionNamesRow ==
    \A k \in Keys \ overtaken : \A a, b \in written[k] : a.version = b.version => a = b

\* The row an update with If-Match is about to replace is the very row that its
\* caller has seen, unless a deletion was overtaken.
ReplacesSeen(w) == row[writer[w].key] = asked[w].seen
Guarded(w) == asked[w].guarded /\ writer[w].pc = "commit"
GuardKept == \A w \in Writers : Guarded(w) /\ writer[w].key \notin overtaken => ReplacesSeen(w)

-----------------------------------------------------------------------------
(* The inductive invariant behind them.                                     *)

\* A row is written by one call at a time.
LockInv ==
    \A v, w \in Writers : \A k \in Keys :
        pending[v][k] # Absent /\ pending[w][k] # Absent => v = w

\* An idle call has nothing; a guarded call and a deletion are about one row.
ControlInv ==
    \A w \in Writers :
        /\ writer[w].pc = "idle" =>
              writer[w] = Closed /\ asked[w] = NothingAsked /\ pending[w] = Nothing
        /\ writer[w].pc # "idle" => writer[w].key \in Keys
        /\ writer[w].pc = "flush" => writer[w].todo = {} /\ ~asked[w].guarded
        /\ asked[w].guarded => writer[w].todo = {}

\* Items are written one after the other: the current one last, the rest not yet.
ItemInv ==
    \A w \in Writers :
        /\ writer[w].key \in Keys =>
              (writer[w].pc = "commit" <=> pending[w][writer[w].key] # Absent)
        /\ \A k \in writer[w].todo : pending[w][k] = Absent
        /\ writer[w].key \notin writer[w].todo

\* The committed row is the one with the highest version.
HistoryInv ==
    /\ \A k \in Keys : row[k] # Absent => row[k] \in written[k]
    /\ \A k \in Keys \ overtaken : \A a \in written[k] : a.version \in 1..row[k].version

\* What is pending will be the next version.
PendingInv ==
    \A w \in Writers : \A k \in Keys \ overtaken :
        pending[w][k] # Absent => pending[w][k].version = row[k].version + 1

\* What a caller or a call has seen was once committed.
SeenInv ==
    \A w \in Writers :
        /\ asked[w].guarded => asked[w].seen \in written[writer[w].key]
        /\ writer[w].pc = "flush" => writer[w].read \in written[writer[w].key]

MappingInv == /\ TypeOK /\ LockInv /\ ControlInv /\ ItemInv /\ HistoryInv /\ PendingInv /\ SeenInv
              /\ VersionNamesRow /\ GuardKept

-----------------------------------------------------------------------------
(* Fairness: the event loop goes on with every call, and PostgreSQL looks    *)
(* for deadlocks.  A row that was waited for is handed on in turn, which      *)
(* weak fairness leaves open: no more is needed, as calls are finitely many. *)
FairSpec == Spec /\ \A w \in Writers : WF_vars(Step(w))

\* Every call ends, although batches hold the rows they have written while they
\* wait for the next one.
CallsFinish == \A w \in Writers : writer[w].pc # "idle" ~> writer[w].pc = "idle"
=============================================================================

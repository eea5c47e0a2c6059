----------------------- MODULE SemanticMappingsProofs -----------------------
(***************************************************************************)
(* Theorems about SemanticMappings for every number of mappings, callers   *)
(* and items of a batch, and every failure.                                *)
(***************************************************************************)
EXTENDS SemanticMappings, TLAPS

Asked == [content : Nat, active : BOOLEAN, guarded : BOOLEAN, seen : Row]
Writer == [pc : WriterPcs, key : Keys \cup {NoKey}, todo : SUBSET Keys, read : Row]

Table == <<row, written>>

-----------------------------------------------------------------------------
(* Values.                                                                  *)

LEMMA InitialValues ==
    /\ Absent \in Row
    /\ NothingAsked \in Asked
    /\ Closed \in Writer
    /\ Nothing \in [Keys -> Row]
<1>1. Absent \in Row
  BY DEF Absent, Row
<1>2. NothingAsked \in Asked
  BY <1>1 DEF NothingAsked, Asked
<1>3. Closed \in Writer
  BY <1>1 DEF Closed, Writer, WriterPcs
<1>4. Nothing \in [Keys -> Row]
  BY <1>1 DEF Nothing
<1> QED BY <1>1, <1>2, <1>3, <1>4

\* What a call stores is a row with the version after the given one.
LEMMA StoredValue ==
    ASSUME TypeOK, NEW w \in Writers, NEW version \in Nat
    PROVE  Stored(w, version) \in Row /\ Stored(w, version).version = version + 1
BY DEF TypeOK, Stored, Row

LEMMA DeactivatedValue ==
    ASSUME TypeOK, NEW w \in Writers, NEW current \in Row
    PROVE  /\ Deactivated(w, current) \in Row
           /\ Deactivated(w, current).version = writer[w].read.version + 1
<1>1. writer[w].read.version + 1 \in Nat
  BY DEF TypeOK, Row
<1>2. \A n \in Nat : LET new == [current EXCEPT !.active = FALSE, !.version = n]
                     IN  new \in Row /\ new.version = n
  BY DEF Row
<1> QED BY <1>1, <1>2 DEF Deactivated

\* A row that is there is told from one that is not by its version.
LEMMA VersionOfRow ==
    ASSUME MappingInv, NEW k \in Keys \ overtaken
    PROVE  row[k] # Absent <=> row[k].version # 0
<1>1. row[k] # Absent => row[k].version \in 1..row[k].version
  BY DEF MappingInv, HistoryInv
<1>2. row[k].version \in Nat
  BY DEF MappingInv, TypeOK, Row
<1> QED BY <1>1, <1>2 DEF Absent

-----------------------------------------------------------------------------
(* The common parts of the actions.                                         *)

\* A step that commits nothing keeps what the invariant says of the table.
LEMMA TableKeeps ==
    ASSUME MappingInv, UNCHANGED Table, overtaken \subseteq overtaken'
    PROVE  HistoryInv' /\ VersionNamesRow'
<1>1. HistoryInv'
  BY DEF MappingInv, HistoryInv, Table
<1>2. VersionNamesRow'
  BY DEF MappingInv, VersionNamesRow, Table
<1> QED BY <1>1, <1>2

\* The end of a session, when nothing is committed.
LEMMA CloseKeeps ==
    ASSUME MappingInv, NEW w \in Writers, Close(w), UNCHANGED <<row, calls, written, overtaken>>,
           faults' \in Nat
    PROVE  MappingInv'
<1> USE DEF MappingInv
<1>0. /\ asked' \in [Writers -> Asked] /\ writer' \in [Writers -> Writer]
      /\ pending' \in [Writers -> [Keys -> Row]]
  BY InitialValues DEF Close, TypeOK, Asked, Writer
<1>1. TypeOK'
  BY <1>0 DEF TypeOK, Asked, Writer
<1>2. \A v \in Writers : \/ v # w /\ asked'[v] = asked[v] /\ writer'[v] = writer[v]
                            /\ pending'[v] = pending[v]
                         \/ v = w /\ asked'[v] = NothingAsked /\ writer'[v] = Closed
                            /\ pending'[v] = Nothing
  BY DEF Close, TypeOK
<1>3. LockInv'
  BY <1>2 DEF LockInv, Nothing
<1>4. ControlInv'
  <2>1. ASSUME NEW v \in Writers, v # w
        PROVE  /\ writer'[v].pc = "idle" =>
                     writer'[v] = Closed /\ asked'[v] = NothingAsked /\ pending'[v] = Nothing
               /\ writer'[v].pc # "idle" => writer'[v].key \in Keys
               /\ writer'[v].pc = "flush" => writer'[v].todo = {} /\ ~asked'[v].guarded
               /\ asked'[v].guarded => writer'[v].todo = {}
    BY <1>2, <2>1 DEF ControlInv
  <2>2. /\ Closed.pc = "idle" /\ ~NothingAsked.guarded
        /\ writer'[w] = Closed /\ asked'[w] = NothingAsked /\ pending'[w] = Nothing
    BY <1>2 DEF Closed, NothingAsked
  <2> QED BY <2>1, <2>2 DEF ControlInv
<1>5. ItemInv'
  BY <1>2, MappingConstants DEF ItemInv, Closed, Nothing
<1>6. HistoryInv' /\ VersionNamesRow'
  BY TableKeeps DEF Table
<1>7. PendingInv'
  BY <1>2 DEF PendingInv, Nothing
<1>8. SeenInv'
  BY <1>2 DEF SeenInv, Closed, NothingAsked
<1>9. GuardKept'
  BY <1>2 DEF GuardKept, Guarded, ReplacesSeen, Closed, NothingAsked
<1> QED BY <1>1, <1>3, <1>4, <1>5, <1>6, <1>7, <1>8, <1>9

\* A step of a call between its statements: it writes nothing.
LEMMA MoveKeeps ==
    ASSUME MappingInv, NEW w \in Writers, NEW pc \in {"select", "update", "retry"},
           NEW read \in Row,
           writer[w].pc \in {"insert", "select", "update", "retry"},
           writer' = [writer EXCEPT ![w] = [@ EXCEPT !.pc = pc, !.read = read]],
           UNCHANGED <<row, calls, asked, pending, faults, written, overtaken>>
    PROVE  MappingInv'
<1> USE DEF MappingInv
<1>0. writer' \in [Writers -> Writer]
  <2>1. \A x \in Writer : [x EXCEPT !.pc = pc, !.read = read] \in Writer
    BY DEF Writer, WriterPcs
  <2>2. writer \in [Writers -> Writer]
    BY DEF TypeOK, Writer
  <2> QED
    BY <2>1, <2>2
<1>1. TypeOK'
  BY <1>0 DEF TypeOK, Writer
<1>2. /\ \A v \in Writers : v # w => writer'[v] = writer[v]
      /\ writer'[w].pc = pc /\ writer'[w].key = writer[w].key
      /\ writer'[w].todo = writer[w].todo
  BY DEF TypeOK
<1>3. LockInv'
  BY DEF LockInv
<1>4. ControlInv'
  BY <1>2 DEF ControlInv
<1>5. ItemInv'
  BY <1>2 DEF ItemInv
<1>6. HistoryInv' /\ VersionNamesRow'
  BY TableKeeps DEF Table
<1>7. PendingInv'
  BY DEF PendingInv
<1>8. SeenInv'
  BY <1>2 DEF SeenInv
<1>9. GuardKept'
  BY <1>2 DEF GuardKept, Guarded, ReplacesSeen
<1> QED BY <1>1, <1>3, <1>4, <1>5, <1>6, <1>7, <1>8, <1>9

\* An item is written: nobody else has the row, the version is the next one, and
\* a guarded call replaces what its caller has seen.
LEMMA WriteItemKeeps ==
    ASSUME MappingInv, NEW w \in Writers, NEW new \in Row, WriteItem(w, new),
           writer[w].pc \in {"insert", "update", "retry", "flush"},
           Unlocked(w, writer[w].key),
           new.version # 0,
           overtaken \subseteq overtaken', overtaken' \subseteq Keys,
           writer[w].key \notin overtaken' => new.version = row[writer[w].key].version + 1,
           asked[w].guarded /\ writer[w].key \notin overtaken' => ReplacesSeen(w),
           UNCHANGED <<row, calls, faults, written>>
    PROVE  MappingInv'
<1> USE DEF MappingInv
<1> DEFINE k == writer[w].key
<1>0. k \in Keys /\ new # Absent /\ k \notin writer[w].todo
  BY DEF ControlInv, ItemInv, Absent
<1>1. /\ pending' = [pending EXCEPT ![w] = [@ EXCEPT ![k] = new]]
      /\ asked' = asked
  BY DEF WriteItem
<1>2. /\ pending' \in [Writers -> [Keys -> Row]]
      /\ \A v \in Writers, i \in Keys :
            pending'[v][i] = IF v = w /\ i = k THEN new ELSE pending[v][i]
  BY <1>0, <1>1 DEF TypeOK
<1>3. /\ writer' \in [Writers -> Writer]
      /\ \A v \in Writers : v # w => writer'[v] = writer[v]
      /\ writer'[w].todo \subseteq writer[w].todo
      /\ writer'[w].key \notin writer'[w].todo
      /\ \/ writer'[w].pc = "commit" /\ writer'[w].key = k /\ writer[w].todo = {}
         \/ writer'[w].pc = "insert" /\ writer'[w].key \in writer[w].todo
  <2>1. CASE /\ writer[w].todo = {}
             /\ writer' = [writer EXCEPT ![w] = [@ EXCEPT !.pc = "commit"]]
    BY <2>1, <1>0 DEF TypeOK, Writer, WriterPcs
  <2>2. ASSUME NEW i \in writer[w].todo,
               writer' = [writer EXCEPT ![w] = [pc |-> "insert", key |-> i, read |-> Absent,
                                                todo |-> writer[w].todo \ {i}]]
        PROVE  <1>3!1 /\ <1>3!2 /\ <1>3!3 /\ <1>3!4 /\ <1>3!5
    <3>1. /\ i \in Keys /\ writer[w].todo \ {i} \in SUBSET Keys
          /\ writer \in [Writers -> Writer]
      BY DEF TypeOK, Writer
    <3>2. [pc |-> "insert", key |-> i, read |-> Absent, todo |-> writer[w].todo \ {i}] \in Writer
      BY <3>1, InitialValues DEF Writer, WriterPcs
    <3> QED BY <2>2, <3>1, <3>2
  <2> QED BY <2>1, <2>2 DEF WriteItem
<1>4. TypeOK'
  BY <1>1, <1>2, <1>3 DEF TypeOK, Writer
<1>5. LockInv'
  BY <1>0, <1>2 DEF LockInv, Unlocked
<1>6. ControlInv'
  BY <1>0, <1>1, <1>2, <1>3 DEF ControlInv, TypeOK
<1>7. ItemInv'
  <2> SUFFICES ASSUME NEW v \in Writers
               PROVE  /\ writer'[v].key \in Keys =>
                           (writer'[v].pc = "commit" <=> pending'[v][writer'[v].key] # Absent)
                      /\ \A i \in writer'[v].todo : pending'[v][i] = Absent
                      /\ writer'[v].key \notin writer'[v].todo
    BY DEF ItemInv
  <2>1. CASE v # w
    BY <2>1, <1>2, <1>3 DEF ItemInv, TypeOK
  <2>2. CASE v = w
    <3>1. \A i \in writer[w].todo : i \in Keys /\ i # k /\ pending'[w][i] = Absent
      BY <1>0, <1>2 DEF ItemInv, TypeOK
    <3>2. pending'[w][k] = new
      BY <1>0, <1>2
    <3>3. writer'[w].pc = "commit" <=> pending'[w][writer'[w].key] # Absent
      BY <3>1, <3>2, <1>0, <1>3
    <3> QED BY <2>2, <3>1, <3>3, <1>3
  <2> QED BY <2>1, <2>2
<1>8. HistoryInv' /\ VersionNamesRow'
  BY TableKeeps DEF Table
<1>9. PendingInv'
  BY <1>0, <1>2 DEF PendingInv
<1>10. SeenInv'
  BY <1>1, <1>3 DEF SeenInv, ControlInv
<1>11. GuardKept'
  <2> SUFFICES ASSUME NEW v \in Writers, asked[v].guarded, writer'[v].pc = "commit",
                      writer'[v].key \notin overtaken'
               PROVE  row[writer'[v].key] = asked[v].seen
    BY <1>1 DEF GuardKept, Guarded, ReplacesSeen
  <2>1. CASE v # w
    BY <2>1, <1>3 DEF GuardKept, Guarded, ReplacesSeen
  <2>2. CASE v = w
    BY <2>2, <1>3 DEF ReplacesSeen
  <2> QED BY <2>1, <2>2
<1> QED BY <1>4, <1>5, <1>6, <1>7, <1>8, <1>9, <1>10, <1>11

-----------------------------------------------------------------------------
(* Init and the actions.                                                    *)

LEMMA InitKeeps == Init => MappingInv
<1> SUFFICES ASSUME Init PROVE MappingInv
  OBVIOUS
<1> USE DEF Init
<1>1. TypeOK
  BY InitialValues DEF TypeOK, Asked, Writer
<1>2. LockInv /\ HistoryInv /\ PendingInv /\ VersionNamesRow
  BY DEF LockInv, HistoryInv, PendingInv, VersionNamesRow, Nothing
<1>3. \A w \in Writers : /\ writer[w] = Closed /\ Closed.pc = "idle" /\ Closed.key = NoKey
                         /\ Closed.todo = {} /\ asked[w] = NothingAsked
                         /\ ~asked[w].guarded /\ pending[w] = Nothing
  BY DEF Closed, NothingAsked
<1>4. ControlInv
  BY <1>3 DEF ControlInv
<1>5. ItemInv
  BY <1>3, MappingConstants DEF ItemInv
<1>6. SeenInv
  BY <1>3 DEF SeenInv
<1>7. GuardKept
  BY <1>3 DEF GuardKept, Guarded
<1> QED BY <1>1, <1>2, <1>4, <1>5, <1>6, <1>7 DEF MappingInv

\* A call begins: what its caller or soft_delete has seen is a committed row.
LEMMA BeginKeeps ==
    ASSUME MappingInv, NEW w \in Writers, writer[w].pc = "idle", NEW k \in Keys,
           NEW start \in Writer, NEW ask \in Asked,
           writer' = [writer EXCEPT ![w] = start], asked' = [asked EXCEPT ![w] = ask],
           start.pc \in {"insert", "flush"}, start.key = k, k \notin start.todo,
           start.pc = "flush" => start.todo = {} /\ ~ask.guarded /\ start.read \in written[k],
           ask.guarded => start.todo = {} /\ ask.seen \in written[k],
           calls' \in Nat, UNCHANGED <<row, pending, faults, written, overtaken>>
    PROVE  MappingInv'
<1> USE DEF MappingInv
<1>1. \A v \in Writers : \/ v # w /\ asked'[v] = asked[v] /\ writer'[v] = writer[v]
                         \/ v = w /\ asked'[v] = ask /\ writer'[v] = start
  BY DEF TypeOK
<1>2. TypeOK'
  BY DEF TypeOK, Asked, Writer
<1>3. LockInv'
  BY DEF LockInv
<1>4. ControlInv'
  BY <1>1 DEF ControlInv
<1>5. ItemInv'
  <2>1. pending[w] = Nothing /\ start.todo \subseteq Keys
    BY DEF ControlInv, Writer
  <2> QED BY <1>1, <2>1 DEF ItemInv, Nothing
<1>6. HistoryInv' /\ VersionNamesRow'
  BY TableKeeps DEF Table
<1>7. PendingInv'
  BY DEF PendingInv
<1>8. SeenInv'
  BY <1>1 DEF SeenInv
<1>9. GuardKept'
  BY <1>1 DEF GuardKept, Guarded, ReplacesSeen
<1> QED BY <1>2, <1>3, <1>4, <1>5, <1>6, <1>7, <1>8, <1>9

LEMMA SessionKeeps ==
    ASSUME MappingInv, NEW w \in Writers, NEW k \in Keys, NEW todo \in SUBSET Keys,
           NEW active \in BOOLEAN, NEW guarded \in BOOLEAN, Begin(w, k, todo, active, guarded)
    PROVE  MappingInv'
<1> DEFINE start == [pc |-> "insert", key |-> k, todo |-> todo, read |-> Absent]
           ask == [content |-> calls, active |-> active, guarded |-> guarded,
                   seen |-> IF guarded THEN row[k] ELSE Absent]
<1>1. start \in Writer
  BY InitialValues DEF Writer, WriterPcs
<1>2. ask \in Asked /\ calls + 1 \in Nat
  BY InitialValues DEF MappingInv, TypeOK, Asked
<1>3. guarded => row[k] \in written[k]
  BY DEF MappingInv, HistoryInv, Begin
<1> QED BY <1>1, <1>2, <1>3, BeginKeeps DEF Begin

LEMMA DeleteKeeps ==
    ASSUME MappingInv, NEW w \in Writers, NEW k \in Keys, Delete(w, k)
    PROVE  MappingInv'
<1> DEFINE start == [pc |-> "flush", key |-> k, todo |-> {}, read |-> row[k]]
<1>1. start \in Writer
  BY DEF MappingInv, TypeOK, Writer, WriterPcs
<1>2. asked[w] \in Asked /\ ~asked[w].guarded /\ calls + 1 \in Nat
  BY DEF MappingInv, TypeOK, Asked, ControlInv, Delete, NothingAsked
<1>3. asked' = [asked EXCEPT ![w] = asked[w]]
  BY DEF MappingInv, TypeOK, Delete
<1>4. row[k] \in written[k]
  BY DEF MappingInv, HistoryInv, Delete, Absent
<1>5. /\ start.pc = "flush" /\ start.key = k /\ start.todo = {} /\ k \notin start.todo
      /\ start.read \in written[k]
  BY <1>4
<1>6. /\ writer[w].pc = "idle" /\ writer' = [writer EXCEPT ![w] = start] /\ calls' \in Nat
      /\ UNCHANGED <<row, pending, faults, written, overtaken>>
  BY <1>2 DEF Delete
<1> HIDE DEF start
<1> QED BY <1>1, <1>2, <1>3, <1>5, <1>6, BeginKeeps

\* A call that is not idle works on a mapping whose row is a row.
LEMMA KeyOfCall ==
    ASSUME MappingInv, NEW w \in Writers, writer[w].pc # "idle"
    PROVE  writer[w].key \in Keys /\ row[writer[w].key] \in Row /\ writer[w].read \in Row
BY DEF MappingInv, ControlInv, TypeOK

\* A guarded call never creates a row: the one its caller has seen is there.
LEMMA InsertKeeps ==
    ASSUME MappingInv, NEW w \in Writers, Insert(w)
    PROVE  MappingInv'
<1> DEFINE k == writer[w].key
<1>1. k \in Keys /\ writer[w].read \in Row /\ row[k] \in Row
  BY KeyOfCall DEF Insert
<1>2. CASE row[k] = Absent /\ WriteItem(w, Stored(w, 0))
  <2>1. Stored(w, 0) \in Row /\ Stored(w, 0).version = 1
    BY StoredValue DEF MappingInv
  <2>2. row[k].version = 0
    BY <1>2 DEF Absent
  <2>3. asked[w].guarded => k \in overtaken
    BY <1>1, <2>2 DEF MappingInv, SeenInv, HistoryInv
  <2>4. overtaken \subseteq Keys
    BY DEF MappingInv, TypeOK
  <2>5. UNCHANGED overtaken /\ UNCHANGED <<row, calls, faults, written>>
        /\ Unlocked(w, k) /\ writer[w].pc = "insert"
    BY DEF Insert
  <2> QED BY <1>2, <2>1, <2>2, <2>3, <2>4, <2>5, WriteItemKeeps
<1>3. CASE /\ writer' = [writer EXCEPT ![w] = [@ EXCEPT !.pc = "select"]]
           /\ UNCHANGED <<asked, pending>>
  <2>1. writer' = [writer EXCEPT ![w] = [@ EXCEPT !.pc = "select", !.read = writer[w].read]]
    BY <1>3 DEF MappingInv, TypeOK
  <2> QED BY <1>1, <1>3, <2>1, MoveKeeps DEF Insert
<1> QED BY <1>2, <1>3 DEF Insert

LEMMA SelectKeeps ==
    ASSUME MappingInv, NEW w \in Writers, Select(w)
    PROVE  MappingInv'
<1>1. row[writer[w].key] \in Row
  BY KeyOfCall DEF Select
<1> QED BY <1>1, MoveKeeps DEF Select

\* The version test is sound for rows whose versions tell them apart.
LEMMA UpdateKeeps ==
    ASSUME MappingInv, NEW w \in Writers, Update(w)
    PROVE  MappingInv'
<1> DEFINE k == writer[w].key
<1>1. k \in Keys /\ row[k] \in Row /\ row[k].version \in Nat
  BY KeyOfCall DEF Update, Row
<1>2. /\ Stored(w, row[k].version) \in Row
      /\ Stored(w, row[k].version).version = row[k].version + 1
      /\ row[k].version + 1 # 0
  BY <1>1, StoredValue DEF MappingInv
<1>3. asked[w].guarded /\ k \notin overtaken => ReplacesSeen(w)
  <2> SUFFICES ASSUME asked[w].guarded, k \notin overtaken PROVE row[k] = asked[w].seen
    BY DEF ReplacesSeen
  <2>1. asked[w].seen \in written[k] /\ row[k].version = asked[w].seen.version
    BY DEF MappingInv, SeenInv, Update, Matches, Expected
  <2>2. asked[w].seen.version \in 1..row[k].version
    BY <1>1, <2>1 DEF MappingInv, HistoryInv
  <2>3. row[k] \in written[k]
    BY <1>1, <2>1, <2>2, VersionOfRow DEF MappingInv, HistoryInv
  <2> QED BY <1>1, <2>1, <2>3 DEF MappingInv, VersionNamesRow
<1>4. overtaken \subseteq Keys
  BY DEF MappingInv, TypeOK
<1> QED BY <1>2, <1>3, <1>4, WriteItemKeeps DEF Update

LEMMA UpdateMissesKeeps ==
    ASSUME MappingInv, NEW w \in Writers, UpdateMisses(w)
    PROVE  MappingInv'
<1>1. faults \in Nat
  BY DEF MappingInv, TypeOK
<1>2. CASE Refuse(w)
  BY <1>1, <1>2, CloseKeeps DEF Refuse, UpdateMisses
<1>3. CASE /\ writer' = [writer EXCEPT ![w] = [@ EXCEPT !.pc = "retry", !.read = Fresh(w)]]
           /\ UNCHANGED <<asked, pending>>
  <2>1. Fresh(w) \in Row
    BY KeyOfCall DEF Fresh, UpdateMisses
  <2> QED BY <1>3, <2>1, MoveKeeps DEF UpdateMisses
<1> QED BY <1>2, <1>3 DEF UpdateMisses

\* A deletion writes the next version, unless the row it read has been replaced.
LEMMA DeactivateKeeps ==
    ASSUME MappingInv, NEW w \in Writers, Deactivate(w)
    PROVE  MappingInv'
<1> DEFINE k == writer[w].key
           new == Deactivated(w, row[k])
<1>1. k \in Keys /\ row[k] \in Row /\ writer[w].read.version \in Nat
  BY KeyOfCall DEF Deactivate, Row
<1>2. new \in Row /\ new.version = writer[w].read.version + 1
  BY <1>1, DeactivatedValue DEF MappingInv
<1>3. new.version # 0
  BY <1>1, <1>2
<1>4. k \notin overtaken' => row[k] = writer[w].read
  BY DEF Deactivate
<1>5. overtaken \subseteq overtaken' /\ overtaken' \subseteq Keys
  BY <1>1 DEF MappingInv, TypeOK, Deactivate
<1>6. ~asked[w].guarded
  BY DEF MappingInv, ControlInv, Deactivate
<1>7. k \notin overtaken' => new.version = row[k].version + 1
  BY <1>2, <1>4
<1> QED BY <1>2, <1>3, <1>5, <1>6, <1>7, WriteItemKeeps DEF Deactivate

\* A commit adds the highest version so far.
LEMMA CommitKeeps ==
    ASSUME MappingInv, NEW w \in Writers, Commit(w)
    PROVE  MappingInv'
<1> USE DEF MappingInv
<1>0. /\ asked' \in [Writers -> Asked] /\ writer' \in [Writers -> Writer]
      /\ pending' \in [Writers -> [Keys -> Row]]
  BY InitialValues DEF Commit, Close, TypeOK, Asked, Writer
<1>1. \A k \in Keys :
        \/ /\ pending[w][k] = Absent /\ row'[k] = row[k] /\ written'[k] = written[k]
        \/ /\ pending[w][k] # Absent /\ row'[k] = pending[w][k]
           /\ written'[k] = written[k] \cup {pending[w][k]}
  BY DEF Commit
<1>2. \A v \in Writers : \/ v # w /\ asked'[v] = asked[v] /\ writer'[v] = writer[v]
                            /\ pending'[v] = pending[v]
                         \/ v = w /\ asked'[v] = NothingAsked /\ writer'[v] = Closed
                            /\ pending'[v] = Nothing
  BY DEF Commit, Close, TypeOK
<1>3. /\ Closed.pc = "idle" /\ Closed.key = NoKey /\ Closed.todo = {}
      /\ ~NothingAsked.guarded /\ UNCHANGED overtaken
  BY DEF Closed, NothingAsked, Commit
<1>4. TypeOK'
  <2>1. row' \in [Keys -> Row] /\ written' \in [Keys -> SUBSET Row]
    BY DEF TypeOK, Commit
  <2> QED BY <1>0, <2>1 DEF TypeOK, Asked, Writer, Commit
<1>5. LockInv'
  BY <1>2 DEF LockInv, Nothing
<1>6. ControlInv'
  BY <1>2, <1>3 DEF ControlInv
<1>7. ItemInv'
  BY <1>2, <1>3, MappingConstants DEF ItemInv, Nothing
<1>8. \A k \in Keys \ overtaken : pending[w][k] # Absent =>
        /\ pending[w][k].version = row[k].version + 1 /\ row[k].version \in Nat
        /\ \A a \in written[k] : a.version \in 1..row[k].version
  BY DEF PendingInv, HistoryInv, TypeOK, Row
<1>9. HistoryInv'
  <2>1. \A k \in Keys : row'[k] # Absent => row'[k] \in written'[k]
    BY <1>1 DEF HistoryInv
  <2>2. ASSUME NEW k \in Keys \ overtaken, NEW a \in written'[k]
        PROVE  a.version \in 1..row'[k].version
    <3>1. CASE pending[w][k] = Absent
      BY <3>1, <1>1, <2>2 DEF HistoryInv
    <3>2. CASE pending[w][k] # Absent
      BY <3>2, <1>1, <1>8, <2>2
    <3> QED BY <3>1, <3>2
  <2> QED BY <1>3, <2>1, <2>2 DEF HistoryInv
<1>10. VersionNamesRow'
  <2> SUFFICES ASSUME NEW k \in Keys \ overtaken, NEW a \in written'[k], NEW b \in written'[k],
                      a.version = b.version
               PROVE  a = b
    BY <1>3 DEF VersionNamesRow
  <2>1. CASE pending[w][k] = Absent
    BY <2>1, <1>1 DEF VersionNamesRow
  <2>2. CASE pending[w][k] # Absent
    BY <2>2, <1>1, <1>8 DEF VersionNamesRow
  <2> QED BY <2>1, <2>2
<1>11. PendingInv'
  <2> SUFFICES ASSUME NEW v \in Writers, NEW k \in Keys \ overtaken, pending'[v][k] # Absent
               PROVE  pending'[v][k].version = row'[k].version + 1
    BY <1>3 DEF PendingInv
  <2>1. v # w /\ pending'[v] = pending[v]
    BY <1>2 DEF Nothing
  <2>2. pending[w][k] = Absent /\ row'[k] = row[k]
    BY <1>1, <2>1 DEF LockInv
  <2> QED BY <2>1, <2>2 DEF PendingInv
<1>12. SeenInv'
  <2>1. \A k \in Keys : written[k] \subseteq written'[k]
    BY <1>1
  <2> QED BY <1>2, <1>3, <2>1 DEF SeenInv, ControlInv
<1>13. GuardKept'
  <2> SUFFICES ASSUME NEW v \in Writers, Guarded(v)', writer'[v].key \notin overtaken
               PROVE  row'[writer'[v].key] = asked'[v].seen
    BY <1>3 DEF GuardKept, ReplacesSeen
  <2>1. /\ v # w /\ Guarded(v) /\ asked'[v] = asked[v] /\ writer'[v] = writer[v]
        /\ row[writer[v].key] = asked[v].seen
    BY <1>2, <1>3 DEF Guarded, GuardKept, ReplacesSeen
  <2>2. writer[v].key \in Keys /\ pending[v][writer[v].key] # Absent
    BY <2>1 DEF Guarded, ControlInv, ItemInv
  <2>3. row'[writer[v].key] = row[writer[v].key]
    BY <1>1, <2>1, <2>2 DEF LockInv
  <2> QED BY <2>1, <2>3
<1> QED BY <1>4, <1>5, <1>6, <1>7, <1>9, <1>10, <1>11, <1>12, <1>13

-----------------------------------------------------------------------------
(* The theorems.                                                            *)

LEMMA NextKeeps == MappingInv /\ [Next]_vars => MappingInv'
<1> SUFFICES ASSUME MappingInv, [Next]_vars PROVE MappingInv'
  OBVIOUS
<1>1. CASE UNCHANGED vars
  BY <1>1 DEF vars, MappingInv, TypeOK, LockInv, ControlInv, ItemInv, HistoryInv, PendingInv,
              SeenInv, VersionNamesRow, GuardKept, Guarded, ReplacesSeen
<1>2. ASSUME NEW w \in Writers, Call(w) PROVE MappingInv'
  BY <1>2, SessionKeeps, DeleteKeeps DEF Call, Upsert, UpsertMany
<1>3. ASSUME NEW w \in Writers, Step(w) PROVE MappingInv'
  <2>1. CASE DeadlockBroken(w)
    BY <2>1, CloseKeeps DEF DeadlockBroken, MappingInv, TypeOK
  <2> QED BY <1>3, <2>1, InsertKeeps, SelectKeeps, UpdateKeeps, UpdateMissesKeeps,
             DeactivateKeeps, CommitKeeps DEF Step
<1>4. ASSUME NEW w \in Writers, CallFails(w) PROVE MappingInv'
  <2>1. faults' \in Nat
    BY <1>4 DEF CallFails, MappingInv, TypeOK
  <2> QED BY <1>4, <2>1, CloseKeeps DEF CallFails
<1> QED BY <1>1, <1>2, <1>3, <1>4 DEF Next

\* The inductive invariant holds in every reachable state.
THEOREM MappingInvariance == Spec => []MappingInv
<1> QED BY InitKeeps, NextKeeps, PTL DEF Spec

\* Rows and local variables always have their types.
THEOREM TypeCorrect == Spec => []TypeOK
<1>1. MappingInv => TypeOK
  BY DEF MappingInv
<1> QED BY <1>1, MappingInvariance, PTL

\* A version is the name of one content of a mapping, for a mapping without an
\* overtaken deletion: the comparison of versions decides staleness.
THEOREM VersionsNameRows == Spec => []VersionNamesRow
<1>1. MappingInv => VersionNamesRow
  BY DEF MappingInv
<1> QED BY <1>1, MappingInvariance, PTL

\* For such a mapping an update with If-Match replaces what its caller has seen,
\* however many writers there are.
THEOREM GuardsKept == Spec => []GuardKept
<1>1. MappingInv => GuardKept
  BY DEF MappingInv
<1> QED BY <1>1, MappingInvariance, PTL
=============================================================================

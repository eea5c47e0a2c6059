---------------------------- MODULE DataWorkbench ----------------------------
(***************************************************************************)
(* POST /data/transform: load one or more stored tables, merge them, apply *)
(* the requested operations one after the other and store the result.      *)
(*                                                                         *)
(* A table is a set of rows; a row is a month, a geography and a cell per  *)
(* value column.  A cell is where its value comes from and not the number: *)
(* a source cell, a null, or an operation and the cells it was applied to. *)
(* A column is a name and the suffixes that merges have appended to it, as *)
(* in VALUE_1.  Polars promises no order of rows after a join or between   *)
(* equal dates of a sort, so an operation that needs one takes several.    *)
(***************************************************************************)
EXTENDS Integers, Sequences, FiniteSets

CONSTANTS
    Geos,
    Months,        \* bound: the last month
    Year,          \* months in a year (12 in the code)
    Transforms     \* bound: the requests, [sources, operations]

VARIABLES
    phase,     \* of transform_data: idle, loaded, apply, saved or failed
    sources,   \* the tables as loaded
    table,     \* df
    todo       \* operations not applied yet

wbVars == <<phase, sources, table, todo>>

-----------------------------------------------------------------------------
(* Tables.                                                                  *)

Column(name) == [name |-> name, suffixes |-> <<>>]
Value == Column("VALUE")
ChangeColumn == Column("CHANGE_PCT")      \* of a year or of a month
AverageColumn == Column("ROLLING_AVG")
Everywhere == "everywhere"    \* the geography in a table without the column GEO
Unparsed == 0                 \* a date that no format parses: null once parsed

Cell(op, of, at) == [op |-> op, of |-> of, at |-> at]
Null == Cell("null", {}, <<>>)
NoTable == [columns |-> {}, geo |-> TRUE, dated |-> TRUE, rows |-> {}]

\* The columns of a row are those of its table; a cell of a source knows its place.
Shaped(t) ==
    /\ DOMAIN t = {"columns", "geo", "dated", "rows"}
    /\ IsFiniteSet(t.rows)
    /\ \A r \in t.rows : /\ DOMAIN r = {"month", "geo", "vals"}
                        /\ r.month \in Int /\ DOMAIN r.vals = t.columns
Located(t) ==
    \A r \in t.rows : \A c \in t.columns :
        r.vals[c].op = "cell" => Tail(r.vals[c].at) = <<r.month, r.geo>>

ASSUME WorkbenchConstants ==
    /\ Months \in Nat /\ Year \in Nat \ {0}
    /\ \A r \in Transforms : /\ Len(r.sources) \in Nat \ {0}
                            /\ DOMAIN r.sources = 1..Len(r.sources)
                            /\ \A i \in DOMAIN r.sources : Shaped(r.sources[i]) /\ Located(r.sources[i])

Key(row) == <<row.month, row.geo>>
UniqueKeys(t) == \A r, s \in t.rows : Key(r) = Key(s) => r = s

\* _ensure_date_column: dates that are strings are parsed, and what cannot be
\* becomes null; a column of which nothing can be parsed is refused.
DatesParse(t) == \/ t.dated
                 \/ t.rows = {}
                 \/ \E r \in t.rows : r.month # Unparsed
Dated(t) == [t EXCEPT !.dated = TRUE]

-----------------------------------------------------------------------------
(* merge_cubes.                                                             *)

\* Columns of the i-th right table that the result already has get a suffix.
Renamed(left, column, i) == IF column \in left.columns THEN [column EXCEPT !.suffixes = Append(@, i)]
                             ELSE column
RenameFails(left, right, i) ==
    \/ \E c, d \in right.columns : c # d /\ Renamed(left, c, i) = Renamed(left, d, i)
    \/ \E c \in right.columns : Renamed(left, c, i) \in left.columns

At(t, key) == {r \in t.rows : Key(r) = key}
CellsAt(t, key, column) == IF At(t, key) = {} THEN Null
                           ELSE (CHOOSE r \in At(t, key) : TRUE).vals[column]

JoinedKeys(left, right, how) ==
    LET keys(t) == {Key(r) : r \in t.rows}
    IN  CASE how = "inner" -> keys(left) \cap keys(right)
          [] how = "left" -> keys(left)
          [] OTHER -> keys(left) \cup keys(right)

\* One sequential join, with the keys of both sides coalesced.
Join(left, right, how, i) ==
    LET original(column) == CHOOSE c \in right.columns : Renamed(left, c, i) = column
        columns == left.columns \cup {Renamed(left, c, i) : c \in right.columns}
    IN  [left EXCEPT
          !.columns = columns,
          !.rows = {[month |-> key[1], geo |-> key[2],
                     vals |-> [column \in columns |->
                                 IF column \in left.columns THEN CellsAt(left, key, column)
                                 ELSE CellsAt(right, key, original(column))]]
                    : key \in JoinedKeys(left, right, how)}]

\* The result of the first n tables.
MergeCubes(tables, how) ==
    LET merged[n \in 1..Len(tables)] ==
          IF n = 1 THEN tables[1] ELSE Join(merged[n - 1], tables[n], how, n - 1)
    IN  merged

JoinTypes == {"inner", "left", "outer", "full", "cross"}

\* R14: a table with duplicate keys would multiply rows.  A cross join takes no
\* keys, so Polars refuses it.
Mergeable(tables, how) ==
    /\ how \in JoinTypes \ {"cross"}
    /\ Len(tables) >= 2
    /\ \A i \in DOMAIN tables : tables[i].geo /\ UniqueKeys(tables[i])
    /\ \A i, j \in DOMAIN tables : tables[i].dated = tables[j].dated
    /\ \A n \in 2..Len(tables) :
         ~RenameFails(MergeCubes(tables, how)[n - 1], tables[n], n - 1)

-----------------------------------------------------------------------------
(* The operations on one table.                                             *)

FilterGeo(t, op) == [t EXCEPT !.rows = {r \in @ : r.geo \in op.geos}]

\* A null date is in no range; without a start and an end every row stays.
FilterDateRange(t, op) ==
    [Dated(t) EXCEPT !.rows = {r \in @ : \/ ~op.bounded
                                         \/ /\ r.month \in op.from..op.to
                                            /\ r.month # Unparsed}]

\* The period a month is truncated to, and the table of one cell per group.
Period(month, freq) == IF freq = "M" \/ month = Unparsed THEN month
                       ELSE month - ((month - 1) % Year)
AggregateTime(t, op) ==
    LET group(r) == <<Period(r.month, op.freq), IF op.grouped THEN r.geo ELSE Everywhere>>
        cells(g) == {r.vals[Value] : r \in {s \in t.rows : group(s) = g}} \ {Null}
    IN  [columns |-> {Value}, geo |-> op.grouped, dated |-> TRUE,
         rows |-> {[month |-> g[1], geo |-> g[2],
                    vals |-> [c \in {Value} |-> Cell(op.method, cells(g), <<>>)]]
                   : g \in {group(r) : r \in t.rows}}]

\* Rows a row is computed with, in the order of a sort by date: those of its
\* geography, or of the whole table.
Peers(t, op, r) == {s \in t.rows : op.grouped => s.geo = r.geo}
Before(s, r, tie) == \/ s.month < r.month
                     \/ s.month = r.month /\ tie[s] < tie[r]
Place(t, op, r, tie) == Cardinality({s \in Peers(t, op, r) : Before(s, r, tie)})
\* calc_yoy_change shifts by a year of rows and calc_mom_change by one.
Shift(op) == IF op.yearly THEN Year ELSE 1
ShiftedAcross(t, op, r, tie) ==
    {s \in t.rows : Place(t, [op EXCEPT !.grouped = FALSE], s, tie) + Shift(op)
                      = Place(t, [op EXCEPT !.grouped = FALSE], r, tie)}
Shifted(t, op, r, tie) ==
    {s \in Peers(t, op, r) : Place(t, op, s, tie) + Shift(op) = Place(t, op, r, tie)}

\* The table with a column of a cell for each row.
WithColumn(t, column, cell) ==
    [Dated(t) EXCEPT
       !.columns = @ \cup {column},
       !.rows = {[r EXCEPT !.vals = [c \in t.columns \cup {column} |->
                                       IF c = column THEN cell[r] ELSE r.vals[c]]] : r \in @}]

\* A change without a value on both sides is null.
CalcChange(t, op, tie) ==
    LET earlier(r) == {s.vals[Value] : s \in Shifted(t, op, r, tie)} \ {Null}
        change == [r \in t.rows |->
                     IF earlier(r) = {} \/ r.vals[Value] = Null THEN Null
                     ELSE Cell("change", earlier(r), <<>>)]
    IN  WithColumn(t, ChangeColumn, change)

CalcRollingAvg(t, op, tie) ==
    LET place(r) == Place(t, op, r, tie)
        window(r) == {s \in Peers(t, op, r) : place(s) \in place(r) - op.window + 1..place(r)}
        average == [r \in t.rows |->
                      IF Cardinality(window(r)) < op.window THEN Null
                      ELSE Cell("mean", {s.vals[Value] : s \in window(r)}, <<>>)]
    IN  WithColumn(t, AverageColumn, average)

\* _validate_monthly_continuity: twice the median interval of a geography, in
\* months of a month or so each: 20 to 45 days are twice one month, and perhaps
\* the mean of one month and two.
Dates(t, g) == {r \in t.rows : r.geo = g /\ r.month # Unparsed}
TwiceMedian(t, g, tie) ==
    LET next(r, s) == Place(t, [grouped |-> TRUE], r, tie) + 1
                        = Place(t, [grouped |-> TRUE], s, tie)
        steps == {i \in Dates(t, g) \X Dates(t, g) : next(i[1], i[2])}
        upTo(n) == Cardinality({i \in steps : i[2].month - i[1].month <= n})
        nth(k) == CHOOSE n \in 0..Months : upTo(n) >= k /\ upTo(n - 1) < k
    IN  IF Cardinality({r \in t.rows : r.geo = g}) < 3 \/ steps = {} THEN 2
        ELSE nth((Cardinality(steps) + 1) \div 2) + nth(Cardinality(steps) \div 2 + 1)
TooFewRows(t) == ~t.geo \/ t.rows = {} \/ Cardinality(t.rows) < 3

\* The geography that is looked at is the first one that unique() returns.
LooksMonthly(t, tie) ==
    TooFewRows(t) \/ \E r \in t.rows : TwiceMedian(t, r.geo, tie) \in {2, 3}
LooksOtherwise(t, tie) ==
    ~TooFewRows(t) /\ \E r \in t.rows : TwiceMedian(t, r.geo, tie) # 2

-----------------------------------------------------------------------------
(* The request.                                                             *)

\* Orders of rows with equal dates: one and its reverse stand for all.
Ties(t) ==
    LET position == CHOOSE p \in [t.rows -> 1..Cardinality(t.rows)] :
                      \A r, s \in t.rows : p[r] = p[s] => r = s
    IN  {position, [r \in t.rows |-> 0 - position[r]]}

Receive(r) ==
    /\ phase' = "loaded" /\ sources' = r.sources /\ todo' = r.operations
    /\ UNCHANGED table

Merges(ops) == SelectSeq(ops, LAMBDA op : op.type = "merge_cubes")
Others(ops) == SelectSeq(ops, LAMBDA op : op.type # "merge_cubes")
How == IF Merges(todo) = <<>> THEN "outer" ELSE Head(Merges(todo)).how

\* Several sources are merged first, wherever the merge stands in the list.
Start ==
    /\ phase = "loaded"
    /\ IF Len(sources) = 1
       THEN table' = sources[1] /\ phase' = "apply" /\ UNCHANGED todo
       ELSE IF Mergeable(sources, How)
            THEN /\ table' = MergeCubes(sources, How)[Len(sources)]
                 /\ phase' = "apply" /\ todo' = Others(todo)
            ELSE phase' = "failed" /\ UNCHANGED <<table, todo>>
    /\ UNCHANGED sources

\* What the operation returns, for every order of rows it may meet; none at all
\* when it raises.  Parameters it does not know or cannot parse are not `valid`.
Results(t, op) ==
    LET valued == Value \in t.columns /\ DatesParse(t)
    IN  CASE ~op.valid -> {}
          [] op.type = "filter_geo" -> IF t.geo THEN {FilterGeo(t, op)} ELSE {}
          [] op.type = "filter_date_range" ->
               IF DatesParse(t) THEN {FilterDateRange(t, op)} ELSE {}
          [] op.type = "aggregate_time" ->
               IF valued /\ (op.grouped => t.geo) THEN {AggregateTime(t, op)} ELSE {}
          [] op.type = "change" ->
               IF ~valued \/ (op.grouped /\ ~t.geo) THEN {}
               ELSE {CalcChange(t, op, tie) : tie \in {o \in Ties(t) : LooksMonthly(t, o)}}
          [] op.type = "rolling" ->
               IF valued /\ op.window >= 1 /\ (op.grouped => t.geo)
               THEN {CalcRollingAvg(t, op, tie) : tie \in Ties(t)} ELSE {}
          [] OTHER -> {}    \* unknown, or a merge of one table

MayFail(t, op) == \/ Results(t, op) = {}
                  \/ op.type = "change" /\ \E tie \in Ties(t) : LooksOtherwise(t, tie)

Apply ==
    /\ phase = "apply" /\ todo # <<>>
    /\ \/ \E result \in Results(table, Head(todo)) :
            table' = result /\ todo' = Tail(todo) /\ UNCHANGED phase
       \/ MayFail(table, Head(todo)) /\ phase' = "failed" /\ UNCHANGED <<table, todo>>
    /\ UNCHANGED sources

Save ==
    /\ phase = "apply" /\ todo = <<>>
    /\ phase' = "saved"
    /\ UNCHANGED <<sources, table, todo>>

WorkbenchInit == phase = "idle" /\ sources = <<>> /\ table = NoTable /\ todo = <<>>
WorkbenchNext == \/ phase = "idle" /\ \E r \in Transforms : Receive(r)
                 \/ Start \/ Apply \/ Save
WorkbenchSpec == WorkbenchInit /\ [][WorkbenchNext]_wbVars

-----------------------------------------------------------------------------
(* Correctness.                                                             *)

\* Every source cell of the tables that are joined.
MergeStep ==
    phase = "loaded" /\ phase' = "apply" /\ Len(sources) > 1 =>
      LET tables == DOMAIN sources
          keys(i) == {Key(r) : r \in sources[i].rows}
          kept == {r \in UNION {sources[i].rows : i \in tables} : Key(r) \in {Key(s) : s \in table'.rows}}
          values(rows) == (UNION {{r.vals[c] : c \in DOMAIN r.vals} : r \in rows}) \ {Null}
      IN  /\ UniqueKeys(table')
          /\ {Key(r) : r \in table'.rows} =
               CASE How = "inner" -> {k \in keys(1) : \A i \in tables : k \in keys(i)}
                 [] How = "left" -> keys(1)
                 [] OTHER -> UNION {keys(i) : i \in tables}
          /\ values(table'.rows) = values(kept)
          /\ \A r \in table'.rows : \A c \in table'.columns :
               r.vals[c].op = "cell" => <<r.month, r.geo>> = Tail(r.vals[c].at)

\* The table has every month between the first and the last of each geography,
\* once.
Complete(t) ==
    /\ UniqueKeys(t)
    /\ \A r, s \in t.rows : r.geo = s.geo => /\ r.month # Unparsed
                                            /\ \A m \in r.month..s.month : At(t, <<m, r.geo>>) # {}

ChangeStep ==
    phase = "apply" /\ Complete(table) /\ todo # <<>> /\ todo' # todo =>
      (Head(todo).type = "change" /\ (Head(todo).grouped \/ \A r, s \in table.rows : r.geo = s.geo)
        => \A r \in table'.rows :
             LET earlier == CellsAt(table, <<r.month - Shift(Head(todo)), r.geo>>, Value)
             IN  r.vals[ChangeColumn] =
                   IF earlier = Null \/ r.vals[Value] = Null THEN Null
                   ELSE Cell("change", {earlier}, <<>>))

\* merge_cubes and calc_yoy_change: a merge has one row for every key that the
\* join type promises, with the cells of that key and no others; and where the
\* months of every geography are complete, each change compares a row with the
\* same geography exactly a year (or a month) earlier.
TransformSteps == [][MergeStep /\ ChangeStep]_wbVars
=============================================================================

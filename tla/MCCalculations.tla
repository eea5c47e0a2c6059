--------------------------- MODULE MCCalculations ---------------------------
(* Small instances of the calculations that keep nothing between requests.  *)
(* They have nothing in common: a behaviour is about one of them.           *)
EXTENDS MetrCurve, DataWorkbench, MappingPins

CONSTANTS ca, on

-----------------------------------------------------------------------------
(* Households: every province and family, up to two children.               *)

Households == {h \in [province : {Province[i] : i \in DOMAIN Province}, family : FamilyType,
                      children : 0..2, under6 : 0..2] : h.under6 <= h.children}
Curve(h, min, max, step) ==
    [kind |-> "curve", province |-> h.province, family |-> h.family, children |-> h.children,
     under6 |-> h.under6, min |-> min, max |-> max, step |-> step]
MCCurveRequests ==
    {Curve(h, 15000, 155000, 5000) : h \in Households}
    \cup {Curve(h, 40000, 50000, 500) : h \in {g \in Households : g.family = "couple"}}
    \cup {Curve(h, 18000, 48000, 500) : h \in {g \in Households : g.children = 2 /\ g.under6 = 1}}
    \cup {Curve([province |-> "ON", family |-> "single", children |-> 0, under6 |-> u],
                20000, 15000, 1000) : u \in 0..1}
MCCompareRequests ==
    [kind : {"compare"}, income : {15000, 47000, 90000}, family : FamilyType,
     children : {0, 2}, under6 : {0, 2}]
    \cup [kind : {"calculate"}, income : {0, 3000, 47000}, province : {"ON", "QC"},
          family : {"single"}, children : {0, 1}, under6 : {0}]
-----------------------------------------------------------------------------
(* Tables of two geographies and up to four months, two of them to a year.  *)

\* The table of source k with the given keys, columns and form of dates.
Table(k, keys, columns, dated) ==
    [columns |-> columns, geo |-> TRUE, dated |-> dated,
     rows |-> {[month |-> key[1], geo |-> key[2],
                vals |-> [c \in columns |-> Cell("cell", {}, <<k, key[1], key[2]>>)]]
               : key \in keys}]
Value1 == [Value EXCEPT !.suffixes = <<1>>]

Operation == [type |-> "merge_cubes", how |-> "outer", geos |-> Geos,
              bounded |-> TRUE, from |-> 1, to |-> Months, freq |-> "M", method |-> "mean",
              grouped |-> TRUE, yearly |-> FALSE, window |-> 2, valid |-> TRUE]
Op(type) == [Operation EXCEPT !.type = type]
Unbounded == [Op("filter_date_range") EXCEPT !.bounded = FALSE]
Single == {Op("filter_geo"), [Op("filter_geo") EXCEPT !.geos = {ca}],
           [Op("filter_date_range") EXCEPT !.to = 2],
           Op("aggregate_time"), [Op("aggregate_time") EXCEPT !.freq = "Y", !.grouped = FALSE],
           Op("change"), [Op("change") EXCEPT !.yearly = TRUE],
           [Op("change") EXCEPT !.grouped = FALSE],
           Op("rolling"), [Op("rolling") EXCEPT !.window = 0],
           [Op("aggregate_time") EXCEPT !.valid = FALSE], Op("pivot")}
Merging == {[Operation EXCEPT !.how = h] : h \in {"inner", "left", "outer", "cross"}}

Keys == {<<1, ca>>, <<2, ca>>, <<1, on>>}
Twice(t) == [t EXCEPT !.rows = @ \cup {[r EXCEPT !.vals = [c \in t.columns |-> Null]] : r \in @}]
Long == {Table(1, ks \cup ms, {Value}, d) :
           ks \in SUBSET ((2..4) \X {ca}), ms \in {{}, {<<1, on>>}, {<<2, on>>, <<3, on>>}},
           d \in BOOLEAN}
        \cup {Table(1, {<<Unparsed, ca>>}, {Value}, FALSE),
              Twice(Table(1, {<<1, ca>>, <<3, ca>>}, {Value}, TRUE))}
Joined == {Table(1, ks, cs, TRUE) : ks \in SUBSET Keys, cs \in {{Value}, {Value, Value1}}}
          \cup {Twice(Table(1, {<<1, ca>>}, {Value}, TRUE))}
Second == {Table(2, ks, {Value}, TRUE) : ks \in SUBSET Keys}
Third == {Table(3, {<<2, ca>>, <<1, on>>}, cs, TRUE) : cs \in {{Value}, {Value, Value1}}}
MCTransforms ==
    {[sources |-> <<t>>, operations |-> <<o, p>>] : t \in Long, o \in Single, p \in Single}
    \cup {[sources |-> <<t>>, operations |-> <<Unbounded, Op("aggregate_time")>>] : t \in Long}
    \cup {[sources |-> <<t, u>>, operations |-> ops] :
            t \in Joined, u \in Second,
            ops \in {<<Op("change")>>} \cup {<<Op("rolling"), m>> : m \in Merging}}
    \cup {[sources |-> <<t, u, v>>, operations |-> <<m>>] :
            t \in Joined, u \in Second, v \in Third, m \in Merging}
-----------------------------------------------------------------------------
(* Cubes of up to two dimensions; a name is a letter in one of two cases.   *)

MCNormal(name) == name[1]
Name(letter, case) == <<letter, case>>
MCNoName == Name("none", "lower")
DimensionNames == {Name("geo", "lower"), Name("geo", "upper"), Name("product", "lower")}
MemberNames == {Name("ca", "lower"), Name("ca", "upper"), Name("on", "lower")}
MemberLists == {<<>>} \cup {<<[name |-> x, id |-> 1]>> : x \in MemberNames}
               \cup {<<[name |-> MCNoName, id |-> 2], [name |-> x, id |-> 1]>> : x \in MemberNames}
               \cup {<<[name |-> x, id |-> 1], [name |-> Name("ca", "lower"), id |-> 2]>> : x \in MemberNames}
Dimensions(position) ==
    [name : DimensionNames \cup {MCNoName}, position : {position}, members : MemberLists]
MCCubes ==
    {[product |-> "p", dims |-> <<d>>] : d \in Dimensions(3)}
    \cup {[product |-> "p", dims |-> <<d, e>>] :
            d \in {x \in Dimensions(1) : Len(x.members) = 2 /\ x.name # MCNoName},
            e \in {x \in Dimensions(2) : Len(x.members) = 2 /\ x.name[2] = "lower"}}
MCMappings ==
    {m \in [product : {"p", "q"}, filters : UNION {[names -> MemberNames] : names \in SUBSET DimensionNames}] :
       Cardinality(DOMAIN m.filters) \in 1..2 /\ (m.product = "q" => Cardinality(DOMAIN m.filters) = 1)}
Lists(S) == {<<>>} \cup {<<x>> : x \in S} \cup {<<x, y>> : x, y \in S}
MCRequests == {r \in [dims : Lists(0..2), members : Lists(1..2)] :
                 Len(r.members) \in {Len(r.dims), 1}}
-----------------------------------------------------------------------------
Init == MetrInit /\ WorkbenchInit /\ PinInit
Spec == /\ Init
        /\ [][\/ phase = "idle" /\ pin = "idle" /\ MetrNext /\ UNCHANGED <<wbVars, pinVars>>
              \/ stage = "idle" /\ pin = "idle" /\ WorkbenchNext /\ UNCHANGED <<metrVars, pinVars>>
              \/ stage = "idle" /\ phase = "idle" /\ PinNext /\ UNCHANGED <<metrVars, wbVars>>
           ]_<<metrVars, wbVars, pinVars>>
=============================================================================

----------------------------- MODULE MappingPins -----------------------------
(***************************************************************************)
(* From the names in a mapping's config to the cell it pins: what a save   *)
(* validates and primes, and what a resolve demands of its caller.         *)
(*                                                                         *)
(* A mapping names dimensions and members as an operator types them; the   *)
(* cached metadata of the cube give them positions and ids.  Names are     *)
(* compared stripped and case-folded, which CONSTANT Normal stands for.    *)
(* The metadata may be fetched anew between the save and a resolve.        *)
(***************************************************************************)
EXTENDS Integers, Sequences

CONSTANTS
    Normal(_),       \* _normalize_name
    NoName,          \* an entry of the metadata without an English name
    MaxDimensions,   \* slots of a coord (10 in the code)
    Cubes,           \* bound: metadata, [product, dims]
    Mappings,        \* bound: what is saved, [product, filters]
    Requests         \* bound: what is asked, [dims, members]

IsList(list) == Len(list) \in Nat /\ DOMAIN list = 1..Len(list)

\* In a coord 0 means that the dimension is not used, so no member has that id.
ASSUME PinConstants ==
    /\ MaxDimensions \in Nat \ {0}
    /\ \A c \in Cubes :
         /\ IsList(c.dims)
         /\ \A i \in DOMAIN c.dims :
              /\ IsList(c.dims[i].members)
              /\ \A j \in DOMAIN c.dims[i].members : c.dims[i].members[j].id # 0

VARIABLES
    pin,       \* idle, saved, refused or answered
    cube,      \* the cached metadata of the cube
    mapping,   \* the row
    reply      \* to the request: an outcome and a coord

pinVars == <<pin, cube, mapping, reply>>

Slots == 1..MaxDimensions
NoCoord == [slot \in Slots |-> 0]
Answer(outcome, coord) == [outcome |-> outcome, coord |-> coord]

-----------------------------------------------------------------------------
(* validate_mapping_against_cache.                                          *)

\* A dictionary by name is built from a list: of two equal names the later wins.
Named(list, name) ==
    {i \in DOMAIN list : list[i].name # NoName /\ Normal(list[i].name) = Normal(name)}
Last(indices) == CHOOSE i \in indices : \A j \in indices : j <= i

Dimension(c, name) == c.dims[Last(Named(c.dims, name))]
HasDimension(c, name) == Named(c.dims, name) # {}
HasMember(c, name, member) == HasDimension(c, name) /\ Named(Dimension(c, name).members, member) # {}

Found(c, m) == {d \in DOMAIN m.filters : HasMember(c, d, m.filters[d])}
Errors(c, m) ==
    {"CUBE_PRODUCT_MISMATCH" : x \in {c.product} \ {m.product}}
    \cup {IF HasDimension(c, d) THEN "MEMBER_NOT_FOUND" ELSE "DIMENSION_NOT_FOUND"
          : d \in DOMAIN m.filters \ Found(c, m)}

\* resolved_filters: one for every name of the mapping that is found.
Resolved(c, m) ==
    {[name |-> d, position |-> Dimension(c, d).position,
      member |-> LET members == Dimension(c, d).members
                 IN  members[Last(Named(members, m.filters[d]))].id] : d \in Found(c, m)}

\* _raise_for_validation_result: the error the caller is told, when there are several.
Refusal(errors) ==
    IF "CUBE_PRODUCT_MISMATCH" \in errors THEN "CUBE_PRODUCT_MISMATCH"
    ELSE IF "DIMENSION_NOT_FOUND" \in errors THEN "DIMENSION_NOT_FOUND" ELSE "MEMBER_NOT_FOUND"

-----------------------------------------------------------------------------
(* Coords.                                                                  *)

\* derive_coord: no two filters of one position, and none out of range.
Derivable(filters) ==
    /\ \A f \in filters : f.position \in Slots
    /\ \A f, g \in filters : f.position = g.position => f = g
DeriveCoord(filters) ==
    [slot \in Slots |-> IF \E f \in filters : f.position = slot
                        THEN (CHOOSE f \in filters : f.position = slot).member ELSE 0]

\* parse_filters_from_query, on the parallel lists dims and members.
Parses(r) ==
    /\ Len(r.dims) = Len(r.members)
    /\ \A i \in DOMAIN r.dims : r.dims[i] \in Slots
    /\ \A i, j \in DOMAIN r.dims : r.dims[i] = r.dims[j] => i = j
Provided(r) == {[name |-> NoName, position |-> r.dims[i], member |-> r.members[i]] : i \in DOMAIN r.dims}

Pairs(filters) == {<<f.position, f.member>> : f \in filters}
PairsIncluded(c, m, r) == Pairs(Resolved(c, m)) \subseteq Pairs(Provided(r))
\* validate_filters_against_mapping: the mapping still fits the metadata, and the caller
\* names its pairs and no others.
PairsMatch(c, m, r) == Pairs(Resolved(c, m)) = Pairs(Provided(r))
Accepts(c, m, r) == Parses(r) /\ Errors(c, m) = {} /\ PairsMatch(c, m, r)

-----------------------------------------------------------------------------
\* The coord that is primed after a save; auto_prime reports one it cannot derive.
Primed(c, m) == IF Derivable(Resolved(c, m))
                THEN Answer("primed", DeriveCoord(Resolved(c, m))) ELSE Answer("unprimed", NoCoord)

\* upsert_validated: a mapping with errors is refused and nothing is stored.
SaveMapping(c, m) ==
    /\ pin = "idle"
    /\ cube' = c
    /\ IF Errors(c, m) = {}
       THEN pin' = "saved" /\ mapping' = m /\ reply' = Primed(c, m)
       ELSE pin' = "refused" /\ reply' = Answer(Refusal(Errors(c, m)), NoCoord) /\ UNCHANGED mapping

\* _fetch_cache_entry: StatCan is out of reach, or does not know the cube.
NoEntry ==
    /\ pin = "idle"
    /\ pin' = "refused" /\ reply' = Answer("CUBE_NOT_IN_CACHE", NoCoord)
    /\ UNCHANGED <<cube, mapping>>

\* The metadata cache's refresh, which knows nothing of mappings.
Refetch(c) ==
    /\ pin = "saved"
    /\ c # cube /\ c.product = cube.product
    /\ cube' = c
    /\ reply' = Answer("unprimed", NoCoord)
    /\ UNCHANGED <<pin, mapping>>

\* resolve_value, as far as the coord; metadata that cannot be fetched refuse the request too.
Resolve(r) ==
    /\ pin = "saved"
    /\ pin' = "answered"
    /\ \/ Accepts(cube, mapping, r) /\ reply' = Answer("resolved", DeriveCoord(Provided(r)))
       \/ reply' = Answer("RESOLVE_INVALID_FILTERS", NoCoord)
    /\ UNCHANGED <<cube, mapping>>

-----------------------------------------------------------------------------
PinInit ==
    /\ pin = "idle"
    /\ cube = [product |-> NoName, dims |-> <<>>]
    /\ mapping = [product |-> NoName, filters |-> <<>>]
    /\ reply = Answer("none", NoCoord)
PinNext ==
    \/ pin = "idle" /\ \E c \in Cubes, m \in Mappings : SaveMapping(c, m)
    \/ NoEntry
    \/ pin = "saved" /\ \E c \in Cubes : Refetch(c)
    \/ pin = "saved" /\ \E r \in Requests : Resolve(r)
PinSpec == PinInit /\ [][PinNext]_pinVars

-----------------------------------------------------------------------------
(* Correctness.                                                             *)

\* The coord has the members that the mapping names in the slots of the dimensions that
\* it names, as the metadata read now, and nothing in any other.
DenotesCell(coord) ==
    LET slotOf(d) == Dimension(cube, d).position
    IN  /\ \A d \in DOMAIN mapping.filters :
             LET members == Dimension(cube, d).members
             IN  \E i \in DOMAIN members : /\ members[i].id = coord[slotOf(d)]
                                           /\ Normal(members[i].name) = Normal(mapping.filters[d])
        /\ \A slot \in Slots : coord[slot] # 0 => \E d \in DOMAIN mapping.filters : slotOf(d) = slot

\* The requests that name every slot the coord uses, each once and with its member.
Naming(coord) ==
    {r \in Requests : /\ Len(r.members) = Len(r.dims)
                      /\ {r.dims[i] : i \in DOMAIN r.dims} = {slot \in Slots : coord[slot] # 0}
                      /\ \A i \in DOMAIN r.dims : coord[r.dims[i]] = r.members[i]
                      /\ \A i, j \in DOMAIN r.dims : r.dims[i] = r.dims[j] => i = j}

\* "preventing silent coord drift" (resolve/filters.py:107): whatever the metadata have
\* become since the save, a request that is let through gets the cell that the mapping's
\* names denote; and the cell a save has primed is one that a request can name.
PinsHold ==
    /\ reply.outcome \in {"primed", "resolved"} => DenotesCell(reply.coord)
    /\ reply.outcome = "primed" => \A r \in Naming(reply.coord) : Accepts(cube, mapping, r)
=============================================================================

-------------------------- MODULE CalculationProofs --------------------------
(***************************************************************************)
(* Theorems about the calculations that keep nothing between requests: the *)
(* cell that a mapping pins (MappingPins), for every cube, mapping and     *)
(* request, the METR calculator (MetrCurve), and the merges and changes of *)
(* the data workbench (DataWorkbench), for tables of any size.             *)
(***************************************************************************)
EXTENDS MappingPins, MetrCurve, DataWorkbench, TLAPS, FiniteSetTheorems, WellFoundedInduction

-----------------------------------------------------------------------------
(* Numbers.                                                                 *)

\* A set of numbers that is not empty has a least one: induction without a predicate.
LEMMA LeastNumber ==
    ASSUME NEW T, T \subseteq Nat, T # {}
    PROVE  \E x \in T : \A y \in T : x <= y
<1> DEFINE Smaller == {p \in Nat \X Nat : p[1] < p[2]}
<1>1. IsWellFoundedOn(Smaller, Nat)
  <2>1. OpToRel(<, Nat) = Smaller
    BY DEF OpToRel
  <2> QED
    BY <2>1, NatLessThanWellFounded
<1>2. PICK x \in T : \A y \in T : <<y, x>> \notin Smaller
  <2> HIDE DEF Smaller
  <2> QED
    BY <1>1, WFMin
<1>3. \A y \in T : x <= y
  <2> SUFFICES ASSUME NEW y \in T, y < x PROVE FALSE
    OBVIOUS
  <2>1. <<y, x>> \in Smaller
    OBVIOUS
  <2> QED
    BY <1>2, <2>1
<1> QED
  BY <1>3

-----------------------------------------------------------------------------
(* The cell of a mapping.                                                   *)

\* Of equal names the later counts, so a list must have a last one.
LEMMA LastOfIndices ==
    ASSUME NEW n \in Nat, NEW S, S \subseteq 1..n, S # {}
    PROVE  Last(S) \in S
<1> DEFINE Left == {n - i : i \in S}
<1>1. Left \subseteq Nat /\ Left # {}
  <2>1. \A i \in S : n - i \in Nat
    OBVIOUS
  <2> QED
    BY <2>1
<1>2. PICK k \in Left : \A j \in Left : k <= j
  <2> HIDE DEF Left
  <2> QED
    BY <1>1, LeastNumber
<1>3. PICK i \in S : k = n - i
  BY <1>2
<1>4. ASSUME NEW j \in S PROVE j <= i
  <2>1. n - j \in Left /\ n - i <= n - j
    BY <1>2, <1>3
  <2> QED
    BY <1>3, <2>1
<1> QED
  BY <1>3, <1>4 DEF Last

\* The entry of a list that a name stands for.
LEMMA EntryOfName ==
    ASSUME NEW list, IsList(list), NEW name, Named(list, name) # {}
    PROVE  /\ Last(Named(list, name)) \in DOMAIN list
           /\ Normal(list[Last(Named(list, name))].name) = Normal(name)
<1>1. Last(Named(list, name)) \in Named(list, name)
  BY LastOfIndices DEF IsList, Named
<1> QED
  BY <1>1 DEF Named

\* What a mapping without errors pins, by the name of the dimension.
Pinned(c, m, d) ==
    [name |-> d, position |-> Dimension(c, d).position,
     member |-> LET members == Dimension(c, d).members
                IN  members[Last(Named(members, m.filters[d]))].id]

LEMMA FiltersOfMapping ==
    ASSUME NEW c, NEW m, Errors(c, m) = {}
    PROVE  /\ \A d \in DOMAIN m.filters : HasMember(c, d, m.filters[d])
           /\ Resolved(c, m) = {Pinned(c, m, d) : d \in DOMAIN m.filters}
<1>1. DOMAIN m.filters \ Found(c, m) = {}
  BY DEF Errors
<1>2. Found(c, m) = DOMAIN m.filters
  BY <1>1 DEF Found
<1> QED
  BY <1>2 DEF Found, Resolved, Pinned

\* Each of its filters has a member of the metadata that bears the mapping's name for it.
LEMMA MemberOfFilter ==
    ASSUME NEW c \in Cubes, NEW m, NEW d, HasMember(c, d, m.filters[d])
    PROVE  LET members == Dimension(c, d).members
           IN  /\ Pinned(c, m, d).member # 0
               /\ \E i \in DOMAIN members :
                    /\ members[i].id = Pinned(c, m, d).member
                    /\ Normal(members[i].name) = Normal(m.filters[d])
<1> DEFINE at == Last(Named(c.dims, d))
           members == Dimension(c, d).members
           i == Last(Named(members, m.filters[d]))
<1>1. at \in DOMAIN c.dims
  BY EntryOfName, PinConstants DEF HasMember, HasDimension
<1>2. IsList(members) /\ \A j \in DOMAIN members : members[j].id # 0
  BY <1>1, PinConstants DEF Dimension
<1>3. i \in DOMAIN members /\ Normal(members[i].name) = Normal(m.filters[d])
  <2>1. Named(members, m.filters[d]) # {}
    BY DEF HasMember
  <2> HIDE DEF members
  <2> QED
    BY <1>2, <2>1, EntryOfName
<1>4. Pinned(c, m, d).member = members[i].id
  BY DEF Pinned
<1> HIDE DEF members, i
<1>5. members[i].id # 0
  BY <1>2, <1>3
<1> QED
  BY <1>3, <1>4, <1>5 DEF members

-----------------------------------------------------------------------------
(* Coords of filters.                                                       *)

\* A slot holds the member of the one filter of its position.
LEMMA SlotOfFilter ==
    ASSUME NEW filters, NEW f \in filters, f.position \in Slots,
           \A g \in filters : g.position = f.position => g = f
    PROVE  DeriveCoord(filters)[f.position] = f.member
<1> DEFINE g == CHOOSE g \in filters : g.position = f.position
<1>1. g \in filters /\ g.position = f.position
  OBVIOUS
<1>2. g = f
  BY <1>1
<1> QED
  BY <1>2 DEF DeriveCoord

LEMMA FilterOfSlot ==
    ASSUME NEW filters, NEW slot \in Slots, DeriveCoord(filters)[slot] # 0
    PROVE  \E f \in filters : f.position = slot
BY DEF DeriveCoord

\* Filters with the pairs of the mapping, one for a position, give its cell.
LEMMA CellOfFilters ==
    ASSUME cube \in Cubes, Errors(cube, mapping) = {},
           NEW filters, Derivable(filters), Pairs(filters) = Pairs(Resolved(cube, mapping))
    PROVE  DenotesCell(DeriveCoord(filters))
<1> DEFINE Pin(d) == Pinned(cube, mapping, d)
           coord == DeriveCoord(filters)
<1>1. /\ \A d \in DOMAIN mapping.filters : HasMember(cube, d, mapping.filters[d])
      /\ Resolved(cube, mapping) = {Pin(d) : d \in DOMAIN mapping.filters}
  BY FiltersOfMapping
<1>2. \A d : Pin(d).position = Dimension(cube, d).position
  BY DEF Pinned
<1>3. ASSUME NEW d \in DOMAIN mapping.filters
      PROVE  coord[Dimension(cube, d).position] = Pin(d).member
  <2>1. <<Pin(d).position, Pin(d).member>> \in Pairs(filters)
    BY <1>1 DEF Pairs
  <2>2. PICK f \in filters : <<f.position, f.member>> = <<Pin(d).position, Pin(d).member>>
    BY <2>1 DEF Pairs
  <2>3. f.position \in Slots /\ \A g \in filters : g.position = f.position => g = f
    BY DEF Derivable
  <2>4. coord[f.position] = f.member
    BY <2>3, SlotOfFilter
  <2> QED
    BY <1>2, <2>2, <2>4
<1>4. ASSUME NEW slot \in Slots, coord[slot] # 0
      PROVE  \E d \in DOMAIN mapping.filters : Dimension(cube, d).position = slot
  <2>1. PICK f \in filters : f.position = slot
    BY <1>4, FilterOfSlot
  <2>2. <<f.position, f.member>> \in Pairs(Resolved(cube, mapping))
    BY DEF Pairs
  <2>3. PICK d \in DOMAIN mapping.filters : <<f.position, f.member>> = <<Pin(d).position, Pin(d).member>>
    BY <1>1, <2>2 DEF Pairs
  <2> QED
    BY <1>2, <2>1, <2>3
<1>5. \A d \in DOMAIN mapping.filters :
        LET members == Dimension(cube, d).members
        IN  \E i \in DOMAIN members : /\ members[i].id = Pin(d).member
                                      /\ Normal(members[i].name) = Normal(mapping.filters[d])
  BY <1>1, MemberOfFilter
<1> HIDE DEF Pin, coord
<1> QED
  BY <1>3, <1>4, <1>5 DEF DenotesCell, coord

-----------------------------------------------------------------------------
(* What a request provides.                                                 *)

LEMMA ProvidedDerivable ==
    ASSUME NEW r, Parses(r)
    PROVE  Derivable(Provided(r))
<1>1. \A i \in DOMAIN r.dims :
        [name |-> NoName, position |-> r.dims[i], member |-> r.members[i]].position = r.dims[i]
  OBVIOUS
<1> QED
  BY <1>1 DEF Parses, Provided, Derivable

LEMMA PairsOfRequest ==
    ASSUME NEW r
    PROVE  Pairs(Provided(r)) = {<<r.dims[i], r.members[i]>> : i \in DOMAIN r.dims}
<1> DEFINE Filter(i) == [name |-> NoName, position |-> r.dims[i], member |-> r.members[i]]
<1>1. \A i : Filter(i).position = r.dims[i] /\ Filter(i).member = r.members[i]
  OBVIOUS
<1>2. Provided(r) = {Filter(i) : i \in DOMAIN r.dims}
  BY DEF Provided
<1> HIDE DEF Filter
<1>3. Pairs(Provided(r)) = {<<Filter(i).position, Filter(i).member>> : i \in DOMAIN r.dims}
  BY <1>2 DEF Pairs
<1> QED
  BY <1>1, <1>3

\* A request that names the coord a save derived is let through.
LEMMA NamingAccepted ==
    ASSUME cube \in Cubes, Errors(cube, mapping) = {}, Derivable(Resolved(cube, mapping)),
           NEW r \in Naming(DeriveCoord(Resolved(cube, mapping)))
    PROVE  Accepts(cube, mapping, r)
<1> DEFINE Pin(d) == Pinned(cube, mapping, d)
           filters == Resolved(cube, mapping)
           coord == DeriveCoord(filters)
<1>1. /\ \A d \in DOMAIN mapping.filters : HasMember(cube, d, mapping.filters[d])
      /\ filters = {Pin(d) : d \in DOMAIN mapping.filters}
  BY FiltersOfMapping
<1>2. \A f \in filters : f.position \in Slots /\ f.member # 0 /\ coord[f.position] = f.member
  <2>1. ASSUME NEW f \in filters PROVE coord[f.position] = f.member
    BY SlotOfFilter DEF Derivable
  <2>2. ASSUME NEW f \in filters PROVE f.member # 0
    <3>1. PICK d \in DOMAIN mapping.filters : f = Pin(d)
      BY <1>1
    <3> QED
      BY <1>1, <3>1, MemberOfFilter
  <2> QED
    BY <2>1, <2>2 DEF Derivable
<1> HIDE DEF filters, Pin
<1>3. /\ Len(r.members) = Len(r.dims)
      /\ {r.dims[i] : i \in DOMAIN r.dims} = {slot \in Slots : coord[slot] # 0}
      /\ \A i \in DOMAIN r.dims : coord[r.dims[i]] = r.members[i]
      /\ \A i, j \in DOMAIN r.dims : r.dims[i] = r.dims[j] => i = j
  BY DEF Naming, filters
<1>4. Parses(r)
  <2>1. \A i \in DOMAIN r.dims : r.dims[i] \in Slots
    BY <1>3
  <2> QED
    BY <1>3, <2>1 DEF Parses
<1>5. ASSUME NEW f \in filters
      PROVE  \E i \in DOMAIN r.dims : <<f.position, f.member>> = <<r.dims[i], r.members[i]>>
  <2>1. f.position \in {slot \in Slots : coord[slot] # 0}
    BY <1>2
  <2>2. PICK i \in DOMAIN r.dims : r.dims[i] = f.position
    BY <1>3, <2>1
  <2> QED
    BY <1>2, <1>3, <2>2
<1>6. ASSUME NEW i \in DOMAIN r.dims
      PROVE  \E f \in filters : <<f.position, f.member>> = <<r.dims[i], r.members[i]>>
  <2>1. r.dims[i] \in Slots /\ coord[r.dims[i]] # 0
    BY <1>3
  <2>2. PICK f \in filters : f.position = r.dims[i]
    BY <2>1, FilterOfSlot
  <2> QED
    BY <1>2, <1>3, <2>2
<1>7. Pairs(filters) = Pairs(Provided(r))
  BY <1>5, <1>6, PairsOfRequest DEF Pairs
<1> QED
  BY <1>4, <1>7 DEF Accepts, PairsMatch, filters

-----------------------------------------------------------------------------
(* The inductive invariant: how the coord of a reply came about.            *)

CubeKnown == pin = "saved" => cube \in Cubes
PrimedFrom ==
    reply.outcome = "primed" =>
        /\ cube \in Cubes
        /\ Errors(cube, mapping) = {}
        /\ Derivable(Resolved(cube, mapping))
        /\ reply.coord = DeriveCoord(Resolved(cube, mapping))
ResolvedFrom ==
    reply.outcome = "resolved" =>
        /\ cube \in Cubes
        /\ \E r \in Requests : /\ Accepts(cube, mapping, r)
                               /\ reply.coord = DeriveCoord(Provided(r))
PinInv == CubeKnown /\ PrimedFrom /\ ResolvedFrom

LEMMA AnswerFields ==
    ASSUME NEW outcome, NEW coord
    PROVE  Answer(outcome, coord).outcome = outcome /\ Answer(outcome, coord).coord = coord
BY DEF Answer

LEMMA SaveKeepsPins ==
    ASSUME NEW c \in Cubes, NEW m \in Mappings, SaveMapping(c, m)
    PROVE  PinInv'
<1>1. CASE Errors(c, m) = {}
  <2>1. cube' = c /\ mapping' = m /\ reply' = Primed(c, m)
    BY <1>1 DEF SaveMapping
  <2>2. CASE Derivable(Resolved(c, m))
    <3>1. reply'.outcome = "primed" /\ reply'.coord = DeriveCoord(Resolved(c, m))
      BY <2>1, <2>2, AnswerFields DEF Primed
    <3> QED
      BY <1>1, <2>1, <2>2, <3>1 DEF PinInv, CubeKnown, PrimedFrom, ResolvedFrom
  <2>3. CASE ~Derivable(Resolved(c, m))
    <3>1. reply'.outcome = "unprimed"
      BY <2>1, <2>3, AnswerFields DEF Primed
    <3> QED
      BY <2>1, <3>1 DEF PinInv, CubeKnown, PrimedFrom, ResolvedFrom
  <2> QED
    BY <2>2, <2>3
<1>2. CASE Errors(c, m) # {}
  <2>1. pin' = "refused" /\ reply'.outcome = Refusal(Errors(c, m))
    BY <1>2, AnswerFields DEF SaveMapping
  <2>2. Refusal(Errors(c, m)) \notin {"primed", "resolved"}
    BY DEF Refusal
  <2> QED
    BY <2>1, <2>2 DEF PinInv, CubeKnown, PrimedFrom, ResolvedFrom
<1> QED
  BY <1>1, <1>2

LEMMA ResolveKeepsPins ==
    ASSUME PinInv, NEW r \in Requests, Resolve(r)
    PROVE  PinInv'
<1>1. pin = "saved" /\ pin' = "answered" /\ cube' = cube /\ mapping' = mapping /\ cube \in Cubes
  BY DEF Resolve, PinInv, CubeKnown
<1>2. CASE Accepts(cube, mapping, r) /\ reply' = Answer("resolved", DeriveCoord(Provided(r)))
  <2>1. reply'.outcome = "resolved" /\ reply'.coord = DeriveCoord(Provided(r))
    BY <1>2, AnswerFields
  <2>2. Accepts(cube', mapping', r)
    BY <1>1, <1>2
  <2> QED
    BY <1>1, <2>1, <2>2 DEF PinInv, CubeKnown, PrimedFrom, ResolvedFrom
<1>3. CASE reply' = Answer("RESOLVE_INVALID_FILTERS", NoCoord)
  <2>1. reply'.outcome = "RESOLVE_INVALID_FILTERS"
    BY <1>3, AnswerFields
  <2> QED
    BY <1>1, <2>1 DEF PinInv, CubeKnown, PrimedFrom, ResolvedFrom
<1> QED
  BY <1>2, <1>3 DEF Resolve

LEMMA PinsKept == PinInv /\ [PinNext]_pinVars => PinInv'
<1> SUFFICES ASSUME PinInv, [PinNext]_pinVars PROVE PinInv'
  OBVIOUS
<1>1. ASSUME NEW c \in Cubes, NEW m \in Mappings, SaveMapping(c, m) PROVE PinInv'
  BY <1>1, SaveKeepsPins
<1>2. CASE NoEntry
  <2>1. pin' = "refused" /\ reply'.outcome = "CUBE_NOT_IN_CACHE"
    BY <1>2, AnswerFields DEF NoEntry
  <2> QED
    BY <2>1 DEF PinInv, CubeKnown, PrimedFrom, ResolvedFrom
<1>3. ASSUME NEW c \in Cubes, Refetch(c) PROVE PinInv'
  <2>1. cube' = c /\ reply'.outcome = "unprimed"
    BY <1>3, AnswerFields DEF Refetch
  <2> QED
    BY <2>1 DEF PinInv, CubeKnown, PrimedFrom, ResolvedFrom
<1>4. ASSUME NEW r \in Requests, Resolve(r) PROVE PinInv'
  BY <1>4, ResolveKeepsPins
<1>5. CASE UNCHANGED pinVars
  <2>1. pin' = pin /\ cube' = cube /\ mapping' = mapping /\ reply' = reply
    BY <1>5 DEF pinVars
  <2> QED
    BY <2>1 DEF PinInv, CubeKnown, PrimedFrom, ResolvedFrom
<1> QED
  BY <1>1, <1>2, <1>3, <1>4, <1>5 DEF PinNext

LEMMA PinsFollow == PinInv => PinsHold
<1> SUFFICES ASSUME PinInv PROVE PinsHold
  OBVIOUS
<1>1. CASE reply.outcome = "primed"
  <2>1. DenotesCell(reply.coord)
    BY <1>1, CellOfFilters DEF PinInv, PrimedFrom
  <2>2. \A r \in Naming(reply.coord) : Accepts(cube, mapping, r)
    BY <1>1, NamingAccepted DEF PinInv, PrimedFrom
  <2> QED
    BY <1>1, <2>1, <2>2 DEF PinsHold
<1>2. CASE reply.outcome = "resolved"
  <2>1. PICK r \in Requests : Accepts(cube, mapping, r) /\ reply.coord = DeriveCoord(Provided(r))
    BY <1>2 DEF PinInv, ResolvedFrom
  <2>2. Parses(r) /\ Errors(cube, mapping) = {} /\ PairsMatch(cube, mapping, r)
    BY <2>1 DEF Accepts
  <2>3. Derivable(Provided(r)) /\ Pairs(Provided(r)) = Pairs(Resolved(cube, mapping))
    BY <2>2, ProvidedDerivable DEF PairsMatch
  <2>4. DenotesCell(reply.coord)
    BY <1>2, <2>1, <2>2, <2>3, CellOfFilters DEF PinInv, ResolvedFrom
  <2> QED
    BY <1>2, <2>4 DEF PinsHold
<1> QED
  BY <1>1, <1>2 DEF PinsHold

\* A mapping's names, and no operator's memory of them, decide the cell: whatever the
\* metadata have become, a primed or resolved coord has the members that the names stand
\* for now, and a request that names a primed coord is let through (validation.py,
\* resolve/filters.py).  For every cube, mapping and request.
THEOREM PinsAlwaysHold == PinSpec => []PinsHold
<1>1. PinInit => PinInv
  <2> SUFFICES ASSUME PinInit PROVE PinInv
    OBVIOUS
  <2>1. pin = "idle" /\ reply.outcome = "none"
    BY AnswerFields DEF PinInit
  <2> QED
    BY <2>1 DEF PinInv, CubeKnown, PrimedFrom, ResolvedFrom
<1>2. PinInv /\ [PinNext]_pinVars => PinInv'
  BY PinsKept
<1>3. PinInv => PinsHold
  BY PinsFollow
<1> QED
  BY <1>1, <1>2, <1>3, PTL DEF PinSpec

-----------------------------------------------------------------------------
(* Rates and rounding.                                                      *)

LEMMA TimesMonotone ==
    ASSUME NEW a \in Nat, NEW r \in Nat, NEW s \in Nat, r <= s
    PROVE  0 <= a * r /\ a * r <= a * s
<1>1. s = r + (s - r) /\ s - r \in Nat
  OBVIOUS
<1>2. a * s = a * r + a * (s - r)
  BY <1>1
<1>3. a * (s - r) \in Nat /\ a * r \in Nat
  BY <1>1
<1> QED
  BY <1>2, <1>3

LEMMA AtMostAtMost ==
    ASSUME NEW a \in Int, NEW b \in Int, NEW c \in Int, a <= b, b <= c
    PROVE  a <= c
OBVIOUS

LEMMA RateOfMore ==
    ASSUME NEW d \in Nat, NEW h \in Nat, d <= h, NEW r \in Nat
    PROVE  d * r \in Nat /\ h * r \in Nat /\ d * r <= h * r
<1>1. PICK more \in Nat : h = d + more
  <2>1. h - d \in Nat /\ h = d + (h - d)
    OBVIOUS
  <2> QED
    BY <2>1
<1>2. h * r = d * r + more * r /\ d * r \in Nat /\ more * r \in Nat
  BY <1>1
<1> QED
  BY <1>2

\* A rounded amount is within half a dollar.
LEMMA RoundNear ==
    ASSUME NEW a \in Int
    PROVE  /\ Round(a) \in Int
           /\ a - 5000 <= Unit * Round(a)
           /\ Unit * Round(a) <= a + 5000
<1>1. a % 10000 \in 0..9999 /\ a \div 10000 \in Int
  OBVIOUS
<1>2. a % 10000 = a - 10000 * (a \div 10000)
  OBVIOUS
<1> QED
  BY <1>1, <1>2 DEF Round, Unit

LEMMA RoundRises ==
    ASSUME NEW a \in Int, NEW b \in Int, b - a > Unit
    PROVE  Round(a) < Round(b)
BY RoundNear DEF Unit

\* Rounding keeps the sign of what is not negative.
LEMMA RoundNatural ==
    ASSUME NEW a \in Nat
    PROVE  Round(a) \in Nat
BY RoundNear DEF Unit

-----------------------------------------------------------------------------
(* The loop over the brackets.                                              *)

\* One turn of it.
Turn(before, bracket) ==
    [tax |-> before.tax + Lesser(before.remaining, bracket[1]) * bracket[2],
     remaining |-> before.remaining - Lesser(before.remaining, bracket[1])]
\* The turns for the first n brackets, from the state before the first to the one after the last.
Turns(taxable, brackets, n) ==
    {f \in [0..n -> [tax : Nat, remaining : Nat]] :
       /\ f[0] = [tax |-> 0, remaining |-> taxable]
       /\ \A i \in 1..n : f[i] = Turn(f[i - 1], brackets[i])}

LEMMA TurnType ==
    ASSUME NEW before \in [tax : Nat, remaining : Nat], NEW bracket \in Nat \X Nat
    PROVE  Turn(before, bracket) \in [tax : Nat, remaining : Nat]
<1>1. bracket[1] \in Nat /\ bracket[2] \in Nat /\ before.tax \in Nat /\ before.remaining \in Nat
  OBVIOUS
<1>2. /\ Lesser(before.remaining, bracket[1]) \in Nat
      /\ before.remaining - Lesser(before.remaining, bracket[1]) \in Nat
  BY <1>1 DEF Lesser
<1>3. Lesser(before.remaining, bracket[1]) * bracket[2] \in Nat
  BY <1>1, <1>2
<1> QED
  BY <1>1, <1>2, <1>3 DEF Turn

LEMMA TurnsExist ==
    ASSUME NEW taxable \in Nat, NEW n \in Nat, NEW brackets \in [1..n -> Nat \X Nat]
    PROVE  Turns(taxable, brackets, n) # {}
<1> DEFINE Bad == {m \in 0..n : Turns(taxable, brackets, m) = {}}
<1> SUFFICES ASSUME n \in Bad PROVE FALSE
  OBVIOUS
<1>0. Bad \subseteq 0..n /\ Bad \subseteq Nat /\ Bad # {}
  OBVIOUS
<1>1. PICK m \in Bad : \A k \in Bad : m <= k
  <2> HIDE DEF Bad
  <2> QED
    BY <1>0, LeastNumber
<1>2. CASE m = 0
  <2>1. [i \in 0..0 |-> [tax |-> 0, remaining |-> taxable]] \in Turns(taxable, brackets, 0)
    BY DEF Turns
  <2> QED
    BY <1>2, <2>1
<1>3. CASE m # 0
  <2>0. m \in 1..n /\ brackets[m] \in Nat \X Nat
    BY <1>0, <1>3
  <2>1. m - 1 \in 0..n /\ m - 1 \notin Bad
    <3>1. m - 1 \in 0..n /\ ~(m <= m - 1)
      BY <2>0
    <3> QED
      BY <1>1, <3>1
  <2>2. PICK f : f \in Turns(taxable, brackets, m - 1)
    BY <2>1
  <2> DEFINE last == Turn(f[m - 1], brackets[m])
             g == [i \in 0..m |-> IF i = m THEN last ELSE f[i]]
  <2>3. /\ f \in [0..m - 1 -> [tax : Nat, remaining : Nat]]
        /\ f[0] = [tax |-> 0, remaining |-> taxable]
        /\ \A i \in 1..m - 1 : f[i] = Turn(f[i - 1], brackets[i])
    BY <2>2 DEF Turns
  <2>4. last \in [tax : Nat, remaining : Nat]
    <3>1. f[m - 1] \in [tax : Nat, remaining : Nat]
      BY <2>0, <2>3
    <3> QED
      BY <2>0, <3>1, TurnType
  <2> HIDE DEF last
  <2>5. g \in [0..m -> [tax : Nat, remaining : Nat]]
    BY <2>1, <2>3, <2>4
  <2>6. g[0] = f[0]
    BY <1>3
  <2>7. ASSUME NEW i \in 1..m PROVE g[i] = Turn(g[i - 1], brackets[i])
    <3>1. CASE i = m
      <4>1. g[i] = last /\ g[i - 1] = f[m - 1]
        BY <1>3, <3>1
      <4> QED
        BY <3>1, <4>1 DEF last
    <3>2. CASE i # m
      <4>1. i \in 1..m - 1 /\ g[i] = f[i] /\ g[i - 1] = f[i - 1]
        BY <3>2
      <4> QED
        BY <2>3, <4>1
    <3> QED
      BY <3>1, <3>2
  <2> HIDE DEF g
  <2>8. g \in Turns(taxable, brackets, m)
    BY <2>3, <2>5, <2>6, <2>7 DEF Turns
  <2> QED
    BY <2>8
<1> QED
  BY <1>2, <1>3

LEMMA LoopOfBrackets ==
    ASSUME NEW taxable \in Nat, NEW n \in Nat, NEW brackets \in [1..n -> Nat \X Nat],
           Len(brackets) = n
    PROVE  \E f \in Turns(taxable, brackets, n) : ApplyBrackets(taxable, brackets) = f[n].tax
<1> DEFINE Body(f) == [i \in 0..n |->
             IF i = 0 THEN [tax |-> 0, remaining |-> taxable]
             ELSE [tax |-> f[i - 1].tax + Lesser(f[i - 1].remaining, brackets[i][1]) * brackets[i][2],
                   remaining |-> f[i - 1].remaining - Lesser(f[i - 1].remaining, brackets[i][1])]]
           after == CHOOSE f : f = Body(f)
<1>1. PICK g : g \in Turns(taxable, brackets, n)
  BY TurnsExist
<1>2. /\ g \in [0..n -> [tax : Nat, remaining : Nat]]
      /\ g[0] = [tax |-> 0, remaining |-> taxable]
      /\ \A i \in 1..n : g[i] = Turn(g[i - 1], brackets[i])
  BY <1>1 DEF Turns
<1>3. g = Body(g)
  <2>1. ASSUME NEW i \in 0..n PROVE g[i] = Body(g)[i]
    <3>1. CASE i = 0
      BY <1>2, <3>1
    <3>2. CASE i # 0
      <4>1. i \in 1..n /\ g[i] = Turn(g[i - 1], brackets[i])
        BY <1>2, <3>2
      <4> QED
        BY <3>2, <4>1 DEF Turn
    <3> QED
      BY <3>1, <3>2
  <2> QED
    BY <1>2, <2>1
<1>4. after = Body(after)
  <2> HIDE DEF Body
  <2> QED
    BY <1>3
<1>5. ASSUME NEW i \in 0..n, after[i] # g[i]
      PROVE  FALSE
  <2> DEFINE Bad == {k \in 0..n : after[k] # g[k]}
  <2> HIDE DEF after
  <2>1. Bad \subseteq Nat /\ Bad # {}
    BY <1>5
  <2>2. PICK k \in Bad : \A j \in Bad : k <= j
    BY <2>1, LeastNumber
  <2>3. CASE k = 0
    BY <1>2, <1>4, <2>2, <2>3
  <2>4. CASE k # 0
    <3>1. k - 1 \in 0..n /\ k \in 1..n /\ after[k - 1] = g[k - 1]
      BY <2>2, <2>4
    <3>2. after[k] = Turn(g[k - 1], brackets[k])
      BY <1>4, <3>1, <2>4 DEF Turn
    <3> QED
      BY <1>2, <2>2, <3>1, <3>2
  <2> QED
    BY <2>3, <2>4
<1>6. ApplyBrackets(taxable, brackets) = after[n].tax
  BY DEF ApplyBrackets
<1> HIDE DEF after
<1>7. after[n] = g[n]
  BY <1>5
<1> QED
  BY <1>1, <1>6, <1>7

\* A loop over 0..n keeps what holds at its start and after each turn.
LEMMA KeptByLoop ==
    ASSUME NEW n \in Nat, NEW Kept, 0 \in Kept,
           \A i \in 1..n : i - 1 \in Kept => i \in Kept
    PROVE  0..n \subseteq Kept
<1> SUFFICES ASSUME 0..n \ Kept # {} PROVE FALSE
  OBVIOUS
<1>1. 0..n \ Kept \subseteq Nat
  OBVIOUS
<1>2. PICK i \in 0..n \ Kept : \A j \in 0..n \ Kept : i <= j
  BY <1>1, LeastNumber
<1>3. i \in 1..n /\ i - 1 \in 0..n /\ ~(i <= i - 1)
  BY <1>2
<1> QED
  BY <1>2, <1>3

\* Of two incomes the greater pays no less, and no more than the rate on the difference.
LEMMA TurnRises ==
    ASSUME NEW a \in [tax : Nat, remaining : Nat], NEW b \in [tax : Nat, remaining : Nat],
           NEW w \in Nat, NEW r \in Nat, NEW top \in Nat, r <= top,
           a.remaining <= b.remaining, a.tax <= b.tax
    PROVE  LET c == Turn(a, <<w, r>>)
               d == Turn(b, <<w, r>>)
           IN  /\ c.remaining <= d.remaining
               /\ c.tax <= d.tax
               /\ d.tax - c.tax + (d.remaining - c.remaining) * top
                    <= b.tax - a.tax + (b.remaining - a.remaining) * top
<1> DEFINE p == Lesser(a.remaining, w)
           q == Lesser(b.remaining, w)
<1>1. a.remaining \in Nat /\ b.remaining \in Nat /\ a.tax \in Nat /\ b.tax \in Nat
  OBVIOUS
<1>2. p \in Nat /\ q \in Nat /\ p <= q /\ q - p <= b.remaining - a.remaining /\ p <= a.remaining
  BY <1>1 DEF Lesser
<1>3. /\ Turn(a, <<w, r>>).tax = a.tax + p * r
      /\ Turn(a, <<w, r>>).remaining = a.remaining - p
      /\ Turn(b, <<w, r>>).tax = b.tax + q * r
      /\ Turn(b, <<w, r>>).remaining = b.remaining - q
  BY DEF Turn
<1> HIDE DEF p, q
<1>4. PICK more \in Nat : q = p + more /\ more = q - p
  BY <1>2
<1>5. q * r = p * r + more * r /\ p * r \in Nat /\ more * r \in Nat
  BY <1>2, <1>4
<1>6. 0 <= more * r /\ more * r <= more * top
  BY TimesMonotone
<1>7. PICK rest \in Nat : b.remaining - a.remaining = more + rest
  BY <1>1, <1>2, <1>4
<1>8. (b.remaining - q) - (a.remaining - p) = rest
  BY <1>1, <1>2, <1>4, <1>7
<1>9. (more + rest) * top = more * top + rest * top /\ more * top \in Nat /\ rest * top \in Nat
  OBVIOUS
<1>10. /\ a.remaining - p <= b.remaining - q
       /\ a.tax + p * r <= b.tax + q * r
  BY <1>1, <1>2, <1>5, <1>6, <1>8
<1>11. (b.tax + q * r) - (a.tax + p * r) + rest * top
         <= b.tax - a.tax + (more + rest) * top
  BY <1>1, <1>5, <1>6, <1>9
<1> QED
  BY <1>3, <1>7, <1>8, <1>10, <1>11

LEMMA BracketsRise ==
    ASSUME NEW n \in Nat, NEW brackets \in [1..n -> Nat \X Nat], Len(brackets) = n,
           NEW top \in Nat, \A i \in 1..n : brackets[i][2] <= top,
           NEW x \in Nat, NEW y \in Nat, x <= y
    PROVE  /\ ApplyBrackets(x, brackets) \in Nat
           /\ ApplyBrackets(y, brackets) \in Nat
           /\ 0 <= ApplyBrackets(y, brackets) - ApplyBrackets(x, brackets)
           /\ ApplyBrackets(y, brackets) - ApplyBrackets(x, brackets) <= (y - x) * top
<1>1. PICK f \in Turns(x, brackets, n) : ApplyBrackets(x, brackets) = f[n].tax
  BY LoopOfBrackets
<1>2. PICK g \in Turns(y, brackets, n) : ApplyBrackets(y, brackets) = g[n].tax
  BY LoopOfBrackets
<1>3. /\ f \in [0..n -> [tax : Nat, remaining : Nat]]
      /\ f[0] = [tax |-> 0, remaining |-> x]
      /\ \A i \in 1..n : f[i] = Turn(f[i - 1], brackets[i])
  BY DEF Turns
<1>4. /\ g \in [0..n -> [tax : Nat, remaining : Nat]]
      /\ g[0] = [tax |-> 0, remaining |-> y]
      /\ \A i \in 1..n : g[i] = Turn(g[i - 1], brackets[i])
  BY DEF Turns
<1> DEFINE Kept == {i \in 0..n :
                      /\ f[i].remaining <= g[i].remaining
                      /\ f[i].tax <= g[i].tax
                      /\ g[i].tax - f[i].tax + (g[i].remaining - f[i].remaining) * top
                           <= (y - x) * top}
<1>5. 0 \in Kept
  BY <1>3, <1>4
<1> HIDE DEF Kept
<1>6. ASSUME NEW i \in 1..n, i - 1 \in Kept PROVE i \in Kept
  <2>0. i - 1 \in 0..n /\ i \in 0..n
    OBVIOUS
  <2>1. PICK a \in [tax : Nat, remaining : Nat] : a = f[i - 1]
    BY <1>3, <2>0
  <2>2. PICK b \in [tax : Nat, remaining : Nat] : b = g[i - 1]
    BY <1>4, <2>0
  <2>3. PICK w \in Nat, r \in Nat : brackets[i] = <<w, r>> /\ r <= top
    BY SMTT(40)
  <2>4. /\ a.remaining <= b.remaining
        /\ a.tax <= b.tax
        /\ b.tax - a.tax + (b.remaining - a.remaining) * top <= (y - x) * top
    BY <1>6, <2>1, <2>2 DEF Kept
  <2>5. PICK c \in [tax : Nat, remaining : Nat] : c = f[i] /\ c = Turn(a, <<w, r>>)
    <3>1. f[i] = Turn(a, <<w, r>>) /\ f[i] \in [tax : Nat, remaining : Nat]
      BY <1>3, <2>0, <2>1, <2>3
    <3> QED
      BY <3>1
  <2>6. PICK d \in [tax : Nat, remaining : Nat] : d = g[i] /\ d = Turn(b, <<w, r>>)
    <3>1. g[i] = Turn(b, <<w, r>>) /\ g[i] \in [tax : Nat, remaining : Nat]
      BY <1>4, <2>0, <2>2, <2>3
    <3> QED
      BY <3>1
  <2>7. /\ c.remaining <= d.remaining
        /\ c.tax <= d.tax
        /\ d.tax - c.tax + (d.remaining - c.remaining) * top
             <= b.tax - a.tax + (b.remaining - a.remaining) * top
    BY ZenonT(60), <2>3, <2>4, <2>5, <2>6, TurnRises
  <2>8. /\ a.tax \in Nat /\ b.tax \in Nat /\ c.tax \in Nat /\ d.tax \in Nat
        /\ (b.remaining - a.remaining) * top \in Int
        /\ (d.remaining - c.remaining) * top \in Int
        /\ (y - x) * top \in Int
    BY SMTT(40)
  <2>9. d.tax - c.tax + (d.remaining - c.remaining) * top <= (y - x) * top
    <3> DEFINE p == (b.remaining - a.remaining) * top
               q == (d.remaining - c.remaining) * top
               t == (y - x) * top
    <3>1. b.tax - a.tax + p <= t /\ d.tax - c.tax + q <= b.tax - a.tax + p
      BY <2>4, <2>7
    <3>2. p \in Int /\ q \in Int /\ t \in Int
      BY <2>8
    <3> HIDE DEF p, q, t
    <3>3. \A h, k \in Int : h <= k /\ k <= t => h <= t
      BY <3>2
    <3>4. d.tax - c.tax + q \in Int /\ b.tax - a.tax + p \in Int
      <4>1. a.tax \in Int /\ b.tax \in Int /\ c.tax \in Int /\ d.tax \in Int
        BY <2>8
      <4> HIDE <2>1, <2>2, <2>5, <2>6
      <4>2. \A h, k \in Int : h - k \in Int /\ h + k \in Int
        OBVIOUS
      <4> QED
        BY <3>2, <4>1, <4>2
    <3>5. d.tax - c.tax + q <= t
      BY <3>1, <3>3, <3>4
    <3> QED
      BY <3>5 DEF q, t
  <2> QED
    BY <2>0, <2>5, <2>6, <2>7, <2>9 DEF Kept
<1>7. n \in Kept
  <2>1. 0..n \subseteq Kept
    BY <1>5, <1>6, KeptByLoop
  <2> QED
    BY <2>1
<1>8. PICK c \in [tax : Nat, remaining : Nat] : c = f[n]
  BY <1>3
<1>9. PICK d \in [tax : Nat, remaining : Nat] : d = g[n]
  BY <1>4
<1>10. /\ c.remaining <= d.remaining
       /\ c.tax <= d.tax
       /\ d.tax - c.tax + (d.remaining - c.remaining) * top <= (y - x) * top
  BY <1>7, <1>8, <1>9 DEF Kept
<1>11. d.remaining - c.remaining \in Nat /\ (d.remaining - c.remaining) * top \in Nat
       /\ (y - x) * top \in Nat
  BY <1>10
<1>12. d.tax - c.tax <= (y - x) * top
  BY SMTT(40), <1>10, <1>11
<1> QED
  BY <1>1, <1>2, <1>8, <1>9, <1>10, <1>12

\* A table of brackets with rates up to `top`.
IsTable(brackets, top) ==
    /\ Len(brackets) \in Nat \ {0}
    /\ brackets \in [1..Len(brackets) -> Nat \X Nat]
    /\ \A i \in 1..Len(brackets) : brackets[i][2] <= top

\* Who stays in the first bracket pays its rate.
LEMMA FirstBracket ==
    ASSUME NEW brackets, NEW top \in Nat, IsTable(brackets, top),
           NEW x \in Nat, x <= brackets[1][1]
    PROVE  ApplyBrackets(x, brackets) = x * brackets[1][2]
<1>0. PICK n \in Nat \ {0} : Len(brackets) = n /\ brackets \in [1..n -> Nat \X Nat]
  BY Zenon DEF IsTable
<1>1. PICK f \in Turns(x, brackets, n) : ApplyBrackets(x, brackets) = f[n].tax
  BY <1>0, LoopOfBrackets
<1>2. /\ f \in [0..n -> [tax : Nat, remaining : Nat]]
      /\ f[0] = [tax |-> 0, remaining |-> x]
      /\ \A i \in 1..n : f[i] = Turn(f[i - 1], brackets[i])
  BY DEF Turns
<1> DEFINE first == [tax |-> x * brackets[1][2], remaining |-> 0]
           Kept == {i \in 0..n : i = 0 \/ f[i] = first}
<1>3. \A i \in 1..n : brackets[i][1] \in Nat /\ brackets[i][2] \in Nat
  BY <1>0
<1>4. x * brackets[1][2] \in Nat
  BY <1>3
<1>5. ASSUME NEW i \in 1..n, i - 1 \in Kept PROVE i \in Kept
  <2>1. CASE i = 1
    <3>1. f[1] = Turn(f[0], brackets[1])
      BY <1>2, <2>1
    <3>2. Lesser(x, brackets[1][1]) = x
      BY <1>3 DEF Lesser
    <3>3. f[1] = [tax |-> 0 + x * brackets[1][2], remaining |-> x - x]
      BY <1>2, <3>1, <3>2 DEF Turn
    <3> QED
      BY <1>4, <2>1, <3>3
  <2>2. CASE i # 1
    <3>1. i \in 1..n /\ f[i - 1] = first
      BY <1>5, <2>2
    <3>2. Lesser(0, brackets[i][1]) = 0
      BY <1>3 DEF Lesser
    <3>3. f[i] = [tax |-> x * brackets[1][2] + 0 * brackets[i][2], remaining |-> 0 - 0]
      <4>1. f[i] = Turn(first, brackets[i])
        BY <1>2, <3>1
      <4>2. first.tax = x * brackets[1][2] /\ first.remaining = 0
        OBVIOUS
      <4> HIDE DEF first
      <4> QED
        BY <3>2, <4>1, <4>2 DEF Turn
    <3>4. 0 * brackets[i][2] = 0
      BY <1>3
    <3> QED
      BY <1>4, <3>3, <3>4
  <2> QED
    BY <2>1, <2>2
<1>6. 0 \in Kept
  OBVIOUS
<1> HIDE DEF Kept
<1>7. n \in Kept
  <2>1. 0..n \subseteq Kept
    BY <1>5, <1>6, KeptByLoop
  <2> QED
    BY <2>1
<1> QED
  BY SMTT(40), <1>1, <1>7 DEF Kept

-----------------------------------------------------------------------------
(* Taxes and contributions between two incomes.                             *)

LEMMA AboveRises ==
    ASSUME NEW e \in Nat, NEW x \in Nat, NEW y \in Nat, x <= y
    PROVE  /\ Above(x, e) \in Nat /\ Above(y, e) \in Nat
           /\ Above(x, e) <= Above(y, e)
           /\ Above(y, e) - Above(x, e) <= y - x
           /\ \A w \in Nat : y <= e + w => Above(x, e) <= w /\ Above(y, e) <= w
BY DEF Above, Greater

\* The tax on what is above e: never less on more, at most `top` of the difference, and the
\* first rate of it where no more than the first bracket is filled.
TaxBound(brackets, e, top, x, y) ==
    LET tax(gross) == ApplyBrackets(Above(gross, e), brackets)
    IN  /\ tax(x) \in Nat /\ tax(y) \in Nat
        /\ tax(x) <= tax(y)
        /\ tax(y) - tax(x) <= (y - x) * top
        /\ y <= e + brackets[1][1] => tax(y) - tax(x) <= (y - x) * brackets[1][2]

LEMMA TaxRises ==
    ASSUME NEW brackets, NEW top \in Nat, IsTable(brackets, top),
           NEW e \in Nat, NEW x \in Nat, NEW y \in Nat, x <= y
    PROVE  TaxBound(brackets, e, top, x, y)
<1>0. PICK n \in Nat \ {0} :
        /\ Len(brackets) = n /\ brackets \in [1..n -> Nat \X Nat]
        /\ \A i \in 1..n : brackets[i][2] <= top
  BY Zenon DEF IsTable
<1>1. PICK a \in Nat, b \in Nat : a = Above(x, e) /\ b = Above(y, e)
  BY AboveRises
<1>2. a <= b /\ b - a <= y - x /\ \A w \in Nat : y <= e + w => a <= w /\ b <= w
  BY <1>1, AboveRises
<1>3. /\ ApplyBrackets(a, brackets) \in Nat /\ ApplyBrackets(b, brackets) \in Nat
      /\ 0 <= ApplyBrackets(b, brackets) - ApplyBrackets(a, brackets)
      /\ ApplyBrackets(b, brackets) - ApplyBrackets(a, brackets) <= (b - a) * top
  BY <1>0, <1>2, BracketsRise
<1>4. PICK d \in Nat, h \in Nat : d = b - a /\ h = y - x /\ d <= h
  <2>1. b - a \in Nat /\ y - x \in Nat
    BY <1>2
  <2> QED
    BY <1>2, <2>1
<1>5. ASSUME y <= e + brackets[1][1]
      PROVE  ApplyBrackets(b, brackets) - ApplyBrackets(a, brackets) <= h * brackets[1][2]
  <2>1. PICK w \in Nat, r \in Nat : brackets[1] = <<w, r>>
    BY <1>0
  <2>2. brackets[1][1] = w /\ brackets[1][2] = r
    BY <2>1
  <2>3. a <= w /\ b <= w
    BY <1>2, <1>5, <2>2
  <2>4. ApplyBrackets(a, brackets) = a * r /\ ApplyBrackets(b, brackets) = b * r
    BY <1>0, <2>2, <2>3, FirstBracket
  <2>5. b = a + d
    BY <1>4
  <2>6. b * r - a * r = d * r
    BY <2>5
  <2>7. d * r <= h * r
    BY <1>4, RateOfMore
  <2> QED
    BY <2>2, <2>4, <2>6, <2>7
<1>6. ApplyBrackets(b, brackets) - ApplyBrackets(a, brackets) <= h * top
  <2>1. d * top \in Nat /\ h * top \in Nat /\ d * top <= h * top
    BY <1>4, RateOfMore
  <2>2. PICK s \in Nat, t \in Nat : s = ApplyBrackets(a, brackets) /\ t = ApplyBrackets(b, brackets)
    BY <1>3
  <2>3. t - s <= d * top
    BY <1>3, <1>4, <2>2
  <2>4. t - s <= h * top
    <3>1. PICK u \in Nat, v \in Nat : u = d * top /\ v = h * top
      BY <2>1
    <3>2. t - s <= u /\ u <= v /\ t - s \in Int
      BY <2>1, <2>3, <3>1
    <3> QED
      BY <3>1, <3>2, AtMostAtMost
  <2> QED
    BY <2>2, <2>4
<1>7. ApplyBrackets(a, brackets) <= ApplyBrackets(b, brackets)
  BY <1>3
<1> QED
  BY SMTT(40), <1>1, <1>3, <1>4, <1>5, <1>6, <1>7 DEF TaxBound

\* What an income pays and one that is h more: not less, and no more than the rate on h.
Rises(p, q, rate, h) == p \in Nat /\ q \in Nat /\ p <= q /\ q - p <= rate * h
\* What they receive: no more than the rate on h is lost.
Falls(p, q, rate, h) == p \in Int /\ q \in Int /\ p - q <= rate * h

LEMMA FederalRises ==
    ASSUME NEW x \in Nat, NEW y \in Nat, NEW h \in Nat, y = x + h
    PROVE  /\ Rises(FederalTax(x), FederalTax(y), 3300, h)
           /\ y <= 50000 => Rises(FederalTax(x), FederalTax(y), 1500, h)
<1>1. /\ IsTable(FED_BRACKETS, 3300)
      /\ FED_BRACKETS[1][1] = 57375 /\ FED_BRACKETS[1][2] = 1500
  BY DEF IsTable, FED_BRACKETS, Rest
<1>2. TaxBound(FED_BRACKETS, 16129, 3300, x, y)
  BY <1>1, TaxRises
<1> QED
  BY SMT, <1>1, <1>2 DEF TaxBound, FederalTax, FED_BASIC_PERSONAL, Rises

\* The first threshold of the surtax.
SurtaxFrom == 53150000

LEMMA SurtaxRises ==
    ASSUME NEW a \in Nat, NEW b \in Nat, a <= b
    PROVE  /\ OntarioSurtax(a) \in Nat /\ OntarioSurtax(b) \in Nat
           /\ OntarioSurtax(a) <= OntarioSurtax(b)
           /\ 100 * (OntarioSurtax(b) - OntarioSurtax(a)) <= 56 * (b - a) + 200
           /\ b <= SurtaxFrom => OntarioSurtax(a) = 0 /\ OntarioSurtax(b) = 0
<1> DEFINE p(c) == Greater(0, c - SurtaxFrom)
           q(c) == Greater(0, c - 68020000)
<1>1. \A c \in Nat : OntarioSurtax(c) = p(c) \div 5 + (9 * q(c)) \div 25
  BY SMT DEF OntarioSurtax, ON, Unit, SurtaxFrom
<1>2. /\ p(a) \in Nat /\ p(b) \in Nat /\ p(a) <= p(b) /\ p(b) - p(a) <= b - a
      /\ q(a) \in Nat /\ q(b) \in Nat /\ q(a) <= q(b) /\ q(b) - q(a) <= b - a
      /\ b <= SurtaxFrom => p(a) = 0 /\ p(b) = 0 /\ q(a) = 0 /\ q(b) = 0
  BY SMT DEF Greater, SurtaxFrom
<1> HIDE DEF p, q
<1>3. \A m, n \in Nat : m <= n =>
        /\ m \div 5 \in Nat /\ n \div 5 \in Nat /\ m \div 5 <= n \div 5
        /\ 5 * (n \div 5 - m \div 5) <= n - m + 5
        /\ (9 * m) \div 25 \in Nat /\ (9 * n) \div 25 \in Nat /\ (9 * m) \div 25 <= (9 * n) \div 25
        /\ 25 * ((9 * n) \div 25 - (9 * m) \div 25) <= 9 * (n - m) + 25
  BY SMT
<1>4. 0 \div 5 = 0 /\ (9 * 0) \div 25 = 0
  BY SMT
<1>5. PICK pa \in Nat, pb \in Nat, qa \in Nat, qb \in Nat :
        /\ pa = p(a) \div 5 /\ pb = p(b) \div 5 /\ pa <= pb
        /\ 5 * (pb - pa) <= p(b) - p(a) + 5
        /\ qa = (9 * q(a)) \div 25 /\ qb = (9 * q(b)) \div 25 /\ qa <= qb
        /\ 25 * (qb - qa) <= 9 * (q(b) - q(a)) + 25
  <2>1. PICK ap \in Nat, bp \in Nat, aq \in Nat, bq \in Nat :
          /\ ap = p(a) /\ bp = p(b) /\ ap <= bp
          /\ aq = q(a) /\ bq = q(b) /\ aq <= bq
    BY SMT, <1>2
  <2>2. /\ ap \div 5 \in Nat /\ bp \div 5 \in Nat /\ ap \div 5 <= bp \div 5
        /\ 5 * (bp \div 5 - ap \div 5) <= bp - ap + 5
    BY SMT, <1>3, <2>1
  <2>3. /\ (9 * aq) \div 25 \in Nat /\ (9 * bq) \div 25 \in Nat
        /\ (9 * aq) \div 25 <= (9 * bq) \div 25
        /\ 25 * ((9 * bq) \div 25 - (9 * aq) \div 25) <= 9 * (bq - aq) + 25
    BY SMT, <1>3, <2>1
  <2>4. PICK pa \in Nat, pb \in Nat : pa = ap \div 5 /\ pb = bp \div 5
    BY SMT, <2>2
  <2>5. PICK qa \in Nat, qb \in Nat : qa = (9 * aq) \div 25 /\ qb = (9 * bq) \div 25
    BY SMT, <2>3
  <2>6. /\ pa = p(a) \div 5 /\ pb = p(b) \div 5
        /\ qa = (9 * q(a)) \div 25 /\ qb = (9 * q(b)) \div 25
    BY SMT, <2>1, <2>4, <2>5
  <2>7. pa <= pb /\ 5 * (pb - pa) <= p(b) - p(a) + 5
    BY SMT, <2>1, <2>2, <2>4
  <2>8. qa <= qb /\ 25 * (qb - qa) <= 9 * (q(b) - q(a)) + 25
    BY SMT, <2>1, <2>3, <2>5
  <2> QED
    BY SMT, <2>6, <2>7, <2>8
<1>6. OntarioSurtax(a) = pa + qa /\ OntarioSurtax(b) = pb + qb
  BY SMT, <1>1, <1>5
<1>7. 5 * (pb - pa) <= (b - a) + 5 /\ 25 * (qb - qa) <= 9 * (b - a) + 25
  BY SMT, <1>2, <1>5
<1>8. 100 * ((pb + qb) - (pa + qa)) <= 56 * (b - a) + 200
  BY SMT, <1>7
<1>9. ASSUME b <= SurtaxFrom PROVE pa = 0 /\ pb = 0 /\ qa = 0 /\ qb = 0
  BY SMT, <1>2, <1>4, <1>5, <1>9
<1> QED
  BY SMT, <1>5, <1>6, <1>8, <1>9

Provinces == {"ON", "BC", "AB", "QC"}

LEMMA ProvinceSet == {Province[i] : i \in DOMAIN Province} = Provinces
<1>1. DOMAIN Province = 1..4
  BY DEF Province
<1>2. Province[1] = "ON" /\ Province[2] = "BC" /\ Province[3] = "AB" /\ Province[4] = "QC"
  BY DEF Province
<1>3. \A i \in 1..4 : i = 1 \/ i = 2 \/ i = 3 \/ i = 4
  OBVIOUS
<1> QED
  BY <1>1, <1>2, <1>3 DEF Provinces

LEMMA TaxOfProvince ==
    ASSUME NEW gross
    PROVE  /\ ProvincialTax(gross, "ON") = OntarioTax(gross)
           /\ ProvincialTax(gross, "BC") = ApplyBrackets(Above(gross, BC_BASIC_PERSONAL), BC_BRACKETS)
           /\ ProvincialTax(gross, "AB") = ApplyBrackets(Above(gross, AB_BASIC_PERSONAL), AB_BRACKETS)
           /\ ProvincialTax(gross, "QC") = ApplyBrackets(Above(gross, QC_BASIC_PERSONAL), QC_BRACKETS)
BY Zenon DEF ProvincialTax

LEMMA BenefitOfProvince ==
    ASSUME NEW inp
    PROVE  /\ inp.province = "ON" => ProvincialBenefits(inp) = OntarioTrillium(inp.gross, inp.family)
           /\ inp.province = "BC" => ProvincialBenefits(inp) = BcFamilyBenefit(inp.gross, inp.children)
           /\ inp.province = "AB" => ProvincialBenefits(inp) = AlbertaCfb(inp.gross, inp.children)
           /\ inp.province = "QC" => ProvincialBenefits(inp) = QcSolidarity(inp.gross, inp.family)
BY Zenon DEF ProvincialBenefits

\* The provincial tax, and below 50000 dollars the rate of the first bracket alone.
LEMMA ProvincialRises ==
    ASSUME NEW province \in Provinces, NEW x \in Nat, NEW y \in Nat, NEW h \in Nat, y = x + h
    PROVE  LET tax(gross) == ProvincialTax(gross, province)
           IN  /\ Rises(tax(x), tax(y), 2577, h)
               /\ y <= 50000 => Rises(tax(x), tax(y), IF province = "ON" THEN 505 ELSE 1400, h)
<1> DEFINE tax(gross) == ProvincialTax(gross, province)
<1>1. CASE province = "ON"
  <2> DEFINE base(gross) == ApplyBrackets(Above(gross, 11865), ON_BRACKETS)
  <2>1. /\ IsTable(ON_BRACKETS, 1316)
        /\ ON_BRACKETS[1][1] = 52886 /\ ON_BRACKETS[1][2] = 505
    BY SMT DEF IsTable, ON_BRACKETS, Rest
  <2>2. TaxBound(ON_BRACKETS, 11865, 1316, x, y) /\ TaxBound(ON_BRACKETS, 11865, 1316, 0, y)
    BY SMT, <2>1, TaxRises
  <2>3. PICK a \in Nat, b \in Nat : a = base(x) /\ b = base(y) /\ a <= b
    BY SMT, <2>2 DEF TaxBound
  <2>4. b - a <= 1316 * (y - x) /\ (y <= 50000 => b - a <= 505 * (y - x))
    BY SMT, <2>1, <2>2, <2>3 DEF TaxBound
  <2>5. tax(x) = a + OntarioSurtax(a) /\ tax(y) = b + OntarioSurtax(b)
    BY SMT, <1>1, <2>3, TaxOfProvince DEF OntarioTax, ON
  <2>6. PICK s \in Nat, t \in Nat :
          /\ s = OntarioSurtax(a) /\ t = OntarioSurtax(b) /\ s <= t
          /\ 100 * (t - s) <= 56 * (b - a) + 200
          /\ b <= SurtaxFrom => s = 0 /\ t = 0
    <3>1. /\ OntarioSurtax(a) \in Nat /\ OntarioSurtax(b) \in Nat
          /\ OntarioSurtax(a) <= OntarioSurtax(b)
          /\ 100 * (OntarioSurtax(b) - OntarioSurtax(a)) <= 56 * (b - a) + 200
          /\ b <= SurtaxFrom => OntarioSurtax(a) = 0 /\ OntarioSurtax(b) = 0
      BY <2>3, SurtaxRises
    <3> QED
      BY SMT, <3>1
  <2>7. 100 * ((b + t) - (a + s)) <= 205296 * (y - x) + 200
    BY SMT, <2>4, <2>6
  <2>8. (b + t) - (a + s) <= 2575 * (y - x) + 2
    BY SMT, <2>7
  <2>9. ASSUME y <= 50000 PROVE b <= SurtaxFrom
    <3>1. Above(0, 11865) = 0
      BY SMT DEF Above, Greater
    <3>2. base(0) = 0 * 505
      <4>1. ApplyBrackets(0, ON_BRACKETS) = 0 * 505
        BY SMT, <2>1, FirstBracket
      <4> QED
        BY SMT, <3>1, <4>1
    <3>3. base(y) - base(0) <= y * 505
      BY SMT, <2>1, <2>2, <2>9 DEF TaxBound
    <3>4. 0 * 505 = 0
      BY SMT
    <3> HIDE DEF base
    <3> QED
      BY SMT, <2>3, <2>9, <3>2, <3>3, <3>4 DEF SurtaxFrom
  <2>10. ASSUME y <= 50000 PROVE (b + t) - (a + s) <= 505 * (y - x)
    BY SMT, <2>4, <2>6, <2>9, <2>10
  <2>11. a + s \in Nat /\ b + t \in Nat /\ a + s <= b + t
    BY SMT, <2>3, <2>6
  <2> QED
    BY SMT, <1>1, <2>5, <2>6, <2>8, <2>10, <2>11 DEF Rises
<1>2. CASE province = "BC"
  <2>1. /\ IsTable(BC_BRACKETS, 2050)
        /\ BC_BRACKETS[1][1] = 47937 /\ BC_BRACKETS[1][2] = 506
    BY SMT DEF IsTable, BC_BRACKETS, Rest
  <2>2. TaxBound(BC_BRACKETS, 12580, 2050, x, y)
    BY SMT, <2>1, TaxRises
  <2> QED
    BY SMT, <1>2, <2>1, <2>2, TaxOfProvince DEF TaxBound, BC_BASIC_PERSONAL, Rises
<1>3. CASE province = "AB"
  <2>1. IsTable(AB_BRACKETS, 1000)
    BY SMT DEF IsTable, AB_BRACKETS, Rest
  <2>2. TaxBound(AB_BRACKETS, 21885, 1000, x, y)
    BY SMT, <2>1, TaxRises
  <2> QED
    BY SMT, <1>3, <2>2, TaxOfProvince DEF TaxBound, AB_BASIC_PERSONAL, Rises
<1>4. CASE province = "QC"
  <2>1. /\ IsTable(QC_BRACKETS, 2575)
        /\ QC_BRACKETS[1][1] = 51780 /\ QC_BRACKETS[1][2] = 1400
    BY SMT DEF IsTable, QC_BRACKETS, Rest
  <2>2. TaxBound(QC_BRACKETS, 18056, 2575, x, y)
    BY SMT, <2>1, TaxRises
  <2> QED
    BY SMT, <1>4, <2>1, <2>2, TaxOfProvince DEF TaxBound, QC_BASIC_PERSONAL, Rises
<1> QED
  BY SMT, <1>1, <1>2, <1>3, <1>4 DEF Provinces

LEMMA ContributionsRise ==
    ASSUME NEW x \in Nat, NEW y \in Nat, NEW h \in Nat, y = x + h
    PROVE  /\ Rises(CppContribution(x), CppContribution(y), 595, h)
           /\ Rises(Cpp2Contribution(x), Cpp2Contribution(y), 400, h)
           /\ Rises(EiPremium(x), EiPremium(y), 166, h)
           /\ y <= 50000 => Rises(Cpp2Contribution(x), Cpp2Contribution(y), 0, h)
BY SMT DEF CppContribution, Cpp2Contribution, EiPremium, CPP, CPP2, EI, Lesser, Greater, Rises

\* The health premium band by band.
LEMMA PremiumByBand ==
    ASSUME NEW gross \in Nat
    PROVE  OntarioHealthPremium(gross) =
             IF gross <= 20000 THEN 0
             ELSE IF gross <= 25000 THEN Lesser(3000000, (gross - 20000) * 600)
             ELSE IF gross <= 36000 THEN Lesser(4500000, 3000000 + (gross - 25000) * 600)
             ELSE IF gross <= 38500 THEN Lesser(6000000, 4500000 + (gross - 36000) * 2500)
             ELSE IF gross <= 48000 THEN Lesser(7500000, 6000000 + (gross - 38500) * 2500)
             ELSE IF gross <= 72000 THEN Lesser(9000000, 7500000 + (gross - 48000) * 2500)
             ELSE 9000000
<1> DEFINE Highest(b) == /\ b.from < gross
                         /\ \A c \in OhpBands : c.from < gross => c.from <= b.from
           band == CHOOSE b \in OhpBands : Highest(b)
<1>1. \A b, c \in OhpBands : b.from = c.from => b = c
  BY SMT DEF OhpBands
<1>2. \A b \in OhpBands : b.from \in Nat
  BY SMT DEF OhpBands
<1>3. ASSUME NEW b \in OhpBands, Highest(b) PROVE band = b
  <2>1. band \in OhpBands /\ Highest(band)
    BY SMT, <1>3
  <2>2. band.from <= b.from /\ b.from <= band.from
    BY SMT, <1>3, <2>1
  <2> QED
    BY SMT, <1>1, <1>2, <2>1, <2>2
<1>4. gross > 20000 => OntarioHealthPremium(gross) =
        Lesser(band.cap * Unit, band.base * Unit + (gross - band.from) * band.rate)
  BY SMT DEF OntarioHealthPremium
<1> HIDE DEF band
<1>5. ASSUME gross > 20000 /\ gross <= 25000
      PROVE  OntarioHealthPremium(gross) = Lesser(3000000, (gross - 20000) * 600)
  <2>1. PICK b \in OhpBands : b = [from |-> 20000, cap |-> 300, base |-> 0, rate |-> 600]
    BY SMT DEF OhpBands
  <2>2. Highest(b)
    BY SMT, <1>5, <2>1 DEF OhpBands
  <2>3. band = b
    BY SMT, <1>3, <2>2
  <2> QED
    BY SMT, <1>4, <1>5, <2>1, <2>3 DEF Unit, Lesser
<1>6. ASSUME gross > 25000 /\ gross <= 36000
      PROVE  OntarioHealthPremium(gross) = Lesser(4500000, 3000000 + (gross - 25000) * 600)
  <2>1. PICK b \in OhpBands : b = [from |-> 25000, cap |-> 450, base |-> 300, rate |-> 600]
    BY SMT DEF OhpBands
  <2>2. Highest(b)
    BY SMT, <1>6, <2>1 DEF OhpBands
  <2>3. band = b
    BY SMT, <1>3, <2>2
  <2> QED
    BY SMT, <1>4, <1>6, <2>1, <2>3 DEF Unit, Lesser
<1>7. ASSUME gross > 36000 /\ gross <= 38500
      PROVE  OntarioHealthPremium(gross) = Lesser(6000000, 4500000 + (gross - 36000) * 2500)
  <2>1. PICK b \in OhpBands : b = [from |-> 36000, cap |-> 600, base |-> 450, rate |-> 2500]
    BY SMT DEF OhpBands
  <2>2. Highest(b)
    BY SMT, <1>7, <2>1 DEF OhpBands
  <2>3. band = b
    BY SMT, <1>3, <2>2
  <2> QED
    BY SMT, <1>4, <1>7, <2>1, <2>3 DEF Unit, Lesser
<1>8. ASSUME gross > 38500 /\ gross <= 48000
      PROVE  OntarioHealthPremium(gross) = Lesser(7500000, 6000000 + (gross - 38500) * 2500)
  <2>1. PICK b \in OhpBands : b = [from |-> 38500, cap |-> 750, base |-> 600, rate |-> 2500]
    BY SMT DEF OhpBands
  <2>2. Highest(b)
    BY SMT, <1>8, <2>1 DEF OhpBands
  <2>3. band = b
    BY SMT, <1>3, <2>2
  <2> QED
    BY SMT, <1>4, <1>8, <2>1, <2>3 DEF Unit, Lesser
<1>9. ASSUME gross > 48000 /\ gross <= 72000
      PROVE  OntarioHealthPremium(gross) = Lesser(9000000, 7500000 + (gross - 48000) * 2500)
  <2>1. PICK b \in OhpBands : b = [from |-> 48000, cap |-> 900, base |-> 750, rate |-> 2500]
    BY SMT DEF OhpBands
  <2>2. Highest(b)
    BY SMT, <1>9, <2>1 DEF OhpBands
  <2>3. band = b
    BY SMT, <1>3, <2>2
  <2> QED
    BY SMT, <1>4, <1>9, <2>1, <2>3 DEF Unit, Lesser
<1>10. ASSUME gross > 72000
      PROVE  OntarioHealthPremium(gross) = 9000000
  <2>1. PICK b \in OhpBands : b = [from |-> 72000, cap |-> 900, base |-> 900, rate |-> 0]
    BY SMT DEF OhpBands
  <2>2. Highest(b)
    BY SMT, <1>10, <2>1 DEF OhpBands
  <2>3. band = b
    BY SMT, <1>3, <2>2
  <2> QED
    BY SMT, <1>4, <1>10, <2>1, <2>3 DEF Unit, Lesser
<1>11. gross <= 20000 => OntarioHealthPremium(gross) = 0
  BY SMT DEF OntarioHealthPremium
<1> HIDE DEF Highest
<1> QED
  BY SMT, <1>5, <1>6, <1>7, <1>8, <1>9, <1>10, <1>11

LEMMA PremiumRises ==
    ASSUME NEW x \in Nat, NEW y \in Nat, NEW h \in Nat, y = x + h
    PROVE  /\ Rises(OntarioHealthPremium(x), OntarioHealthPremium(y), 2500, h)
           /\ x >= 50000 => Rises(OntarioHealthPremium(x), OntarioHealthPremium(y), 0, h)
BY SMT, PremiumByBand DEF Lesser, Rises

-----------------------------------------------------------------------------
(* Benefits between two incomes.                                            *)

\* More income costs at most `rate` of the difference.
PhasedOutBound(amount, threshold, rate, x, y) ==
    /\ PhasedOut(amount, x, threshold, rate) \in Int
    /\ PhasedOut(amount, y, threshold, rate) \in Int
    /\ PhasedOut(amount, x, threshold, rate) - PhasedOut(amount, y, threshold, rate)
         <= (y - x) * rate

LEMMA PhasedOutFalls ==
    ASSUME NEW amount \in Int, NEW threshold \in Nat, NEW rate \in Nat,
           NEW x \in Nat, NEW y \in Nat, x <= y
    PROVE  PhasedOutBound(amount, threshold, rate, x, y)
<1>1. PICK a \in Int : a = amount * Unit
  BY DEF Unit
<1>2. PICK h \in Nat, s \in Nat : h = y - x /\ s = h * rate
  <2>1. y - x \in Nat
    OBVIOUS
  <2> QED
    BY <2>1
<1>3. CASE y <= threshold
  <2>1. PhasedOut(amount, x, threshold, rate) = a /\ PhasedOut(amount, y, threshold, rate) = a
    BY <1>1, <1>3 DEF PhasedOut
  <2> QED
    BY <1>2, <2>1 DEF PhasedOutBound
<1>4. CASE y > threshold /\ x <= threshold
  <2>1. PICK d \in Nat : d = y - threshold /\ d <= h
    BY <1>2, <1>4
  <2>2. PICK t \in Nat : t = d * rate /\ t <= s
    BY <1>2, <2>1, RateOfMore
  <2>3. PhasedOut(amount, x, threshold, rate) = a
    BY <1>1, <1>4 DEF PhasedOut
  <2>4. PhasedOut(amount, y, threshold, rate) = Greater(0, a - t)
    BY <1>1, <1>4, <2>1, <2>2 DEF PhasedOut
  <2>5. Greater(0, a - t) \in Int /\ a - Greater(0, a - t) <= s
    BY <2>2 DEF Greater
  <2> QED
    BY <1>2, <2>3, <2>4, <2>5 DEF PhasedOutBound
<1>5. CASE x > threshold
  <2>1. PICK c \in Nat, d \in Nat : c = x - threshold /\ d = y - threshold /\ d = c + h
    BY <1>2, <1>5
  <2>2. PICK u \in Nat, t \in Nat : u = c * rate /\ t = d * rate
    OBVIOUS
  <2>3. t = u + s
    BY <1>2, <2>1, <2>2
  <2>4. /\ PhasedOut(amount, x, threshold, rate) = Greater(0, a - u)
        /\ PhasedOut(amount, y, threshold, rate) = Greater(0, a - t)
    BY <1>1, <1>5, <2>1, <2>2 DEF PhasedOut
  <2>5. /\ Greater(0, a - u) \in Int /\ Greater(0, a - t) \in Int
        /\ Greater(0, a - u) - Greater(0, a - t) <= s
    BY <2>3 DEF Greater
  <2> QED
    BY <1>2, <2>4, <2>5 DEF PhasedOutBound
<1> QED
  BY <1>3, <1>4, <1>5

\* What a household loses of each benefit, at most.
LEMMA CcbFalls ==
    ASSUME NEW children \in Nat, NEW under6 \in Nat, NEW x \in Nat, NEW y \in Nat, NEW h \in Nat, y = x + h
    PROVE  Falls(CcbBenefit(x, children, under6), CcbBenefit(y, children, under6), 1350, h)
<1> DEFINE amount == under6 * CCB.under6 + (children - under6) * CCB.to17
           rate == IF children = 1 THEN CCB.one ELSE CCB.more
<1>1. amount \in Int
  BY SMT DEF CCB
<1>2. rate \in {700, 1350} /\ CCB.threshold \in Nat
  BY SMT DEF CCB
<1>3. \A gross \in Nat : CcbBenefit(gross, children, under6) =
        IF children = 0 THEN 0 ELSE PhasedOut(amount, gross, CCB.threshold, rate)
  BY SMT DEF CcbBenefit
<1> HIDE DEF amount, rate
<1>4. PhasedOutBound(amount, CCB.threshold, rate, x, y)
  BY <1>1, <1>2, PhasedOutFalls
<1>5. (y - x) * rate <= 1350 * (y - x)
  BY SMT, <1>2
<1>6. (y - x) * rate \in Int
  BY SMT, <1>2
<1> QED
  BY SMT, <1>3, <1>4, <1>5, <1>6 DEF PhasedOutBound, Falls

LEMMA GstFalls ==
    ASSUME NEW family, NEW children \in Nat, NEW x \in Nat, NEW y \in Nat, NEW h \in Nat, y = x + h
    PROVE  Falls(GstCredit(x, family, children), GstCredit(y, family, children), 500, h)
<1> DEFINE amount == GST.base + (IF IsFamily(family) THEN GST.spouse ELSE 0) + children * GST.child
<1>1. amount \in Int /\ GST.threshold \in Nat /\ GST.rate = 500
  BY SMT DEF GST
<1>2. \A gross \in Nat : GstCredit(gross, family, children) =
                           PhasedOut(amount, gross, GST.threshold, GST.rate)
  BY DEF GstCredit
<1> HIDE DEF amount
<1>3. PhasedOutBound(amount, GST.threshold, GST.rate, x, y)
  BY <1>1, PhasedOutFalls
<1> QED
  BY SMT, <1>1, <1>2, <1>3 DEF PhasedOutBound, Falls

LEMMA CwbFalls ==
    ASSUME NEW family, NEW x \in Nat, NEW y \in Nat, NEW h \in Nat, y = x + h
    PROVE  /\ Falls(CwbBenefit(x, family), CwbBenefit(y, family), 1500, h)
           /\ x >= 50000 => Falls(CwbBenefit(x, family), CwbBenefit(y, family), 0, h)
<1> DEFINE cwb(gross, top, start) ==
             IF gross < 3000 THEN 0
             ELSE Greater(0, Lesser(top, (gross - 3000) * 2700) - Greater(0, gross - start) * 1500)
<1>1. \A gross \in Nat : CwbBenefit(gross, family) =
        IF IsFamily(family) THEN cwb(gross, 27300000, 28494) ELSE cwb(gross, 15900000, 24975)
  BY SMT DEF CwbBenefit, CWB, Unit, Above
<1>2. /\ cwb(x, 27300000, 28494) \in Nat /\ cwb(y, 27300000, 28494) \in Nat
      /\ cwb(x, 27300000, 28494) - cwb(y, 27300000, 28494) <= 1500 * (y - x)
      /\ x >= 50000 => cwb(x, 27300000, 28494) = 0 /\ cwb(y, 27300000, 28494) = 0
  BY SMT DEF Lesser, Greater
<1>3. /\ cwb(x, 15900000, 24975) \in Nat /\ cwb(y, 15900000, 24975) \in Nat
      /\ cwb(x, 15900000, 24975) - cwb(y, 15900000, 24975) <= 1500 * (y - x)
      /\ x >= 50000 => cwb(x, 15900000, 24975) = 0 /\ cwb(y, 15900000, 24975) = 0
  BY SMT DEF Lesser, Greater
<1> HIDE DEF cwb
<1> QED
  BY SMT, <1>1, <1>2, <1>3 DEF Falls

LEMMA ProvincialBenefitFalls ==
    ASSUME NEW a, NEW b, a.province \in Provinces, b.province = a.province,
           b.family = a.family, a.children \in Nat, b.children = a.children,
           a.gross \in Nat, b.gross \in Nat, NEW h \in Nat, b.gross = a.gross + h
    PROVE  Falls(ProvincialBenefits(a), ProvincialBenefits(b), 600, h)
<1>1. PICK x \in Nat, y \in Nat, children \in Nat :
        x = a.gross /\ y = b.gross /\ children = a.children /\ x <= y
  OBVIOUS
<1>2. CASE a.province = "ON"
  <2> DEFINE amount == IF IsFamily(a.family) THEN OTB.family ELSE OTB.single
  <2>1. amount \in Int /\ OTB.threshold \in Nat /\ OTB.rate = 400
    BY SMT DEF OTB
  <2>2. /\ ProvincialBenefits(a) = PhasedOut(amount, x, OTB.threshold, OTB.rate)
        /\ ProvincialBenefits(b) = PhasedOut(amount, y, OTB.threshold, OTB.rate)
    BY <1>1, <1>2, BenefitOfProvince DEF OntarioTrillium
  <2> HIDE DEF amount
  <2>3. PhasedOutBound(amount, OTB.threshold, OTB.rate, x, y)
    <3>1. PICK m \in Int, t \in Nat, p \in Nat : m = amount /\ t = OTB.threshold /\ p = OTB.rate
      BY <2>1
    <3>2. PhasedOutBound(m, t, p, x, y)
      BY <1>1, PhasedOutFalls
    <3> QED
      BY <3>1, <3>2
  <2> QED
    BY SMT, <1>1, <2>1, <2>2, <2>3 DEF PhasedOutBound, Falls
<1>3. CASE a.province = "BC"
  <2> DEFINE amount == children * BCF.child
             rate == IF children = 1 THEN BCF.one ELSE BCF.more
  <2>1. amount \in Int /\ BCF.threshold \in Nat /\ rate \in {132, 264}
    BY SMT DEF BCF
  <2>2. /\ ProvincialBenefits(a) = PhasedOut(amount, x, BCF.threshold, rate)
        /\ ProvincialBenefits(b) = PhasedOut(amount, y, BCF.threshold, rate)
    BY <1>1, <1>3, BenefitOfProvince DEF BcFamilyBenefit
  <2> HIDE DEF amount, rate
  <2>3. PhasedOutBound(amount, BCF.threshold, rate, x, y)
    <3>1. PICK m \in Int, t \in Nat, p \in Nat : m = amount /\ t = BCF.threshold /\ p = rate
      BY <2>1
    <3>2. PhasedOutBound(m, t, p, x, y)
      BY <1>1, PhasedOutFalls
    <3> QED
      BY <3>1, <3>2
  <2> QED
    BY SMT, <1>1, <2>1, <2>2, <2>3 DEF PhasedOutBound, Falls
<1>4. CASE a.province = "AB"
  <2> DEFINE amount == Lesser(children, 4) * ACFB.child + ACFB.supplement
  <2>1. amount \in Int /\ ACFB.threshold \in Nat /\ ACFB.rate = 400
    BY SMT DEF ACFB, Lesser
  <2>2. /\ ProvincialBenefits(a) = IF children = 0 THEN 0
                                   ELSE PhasedOut(amount, x, ACFB.threshold, ACFB.rate)
        /\ ProvincialBenefits(b) = IF children = 0 THEN 0
                                   ELSE PhasedOut(amount, y, ACFB.threshold, ACFB.rate)
    BY <1>1, <1>4, BenefitOfProvince DEF AlbertaCfb
  <2> HIDE DEF amount
  <2>3. PhasedOutBound(amount, ACFB.threshold, ACFB.rate, x, y)
    <3>1. PICK m \in Int, t \in Nat, p \in Nat : m = amount /\ t = ACFB.threshold /\ p = ACFB.rate
      BY <2>1
    <3>2. PhasedOutBound(m, t, p, x, y)
      BY <1>1, PhasedOutFalls
    <3> QED
      BY <3>1, <3>2
  <2> QED
    BY SMT, <1>1, <2>1, <2>2, <2>3 DEF PhasedOutBound, Falls
<1>5. CASE a.province = "QC"
  <2> DEFINE amount == IF IsFamily(a.family) THEN QCS.family ELSE QCS.single
  <2>1. amount \in Int /\ QCS.threshold \in Nat /\ QCS.rate = 600
    BY SMT DEF QCS
  <2>2. /\ ProvincialBenefits(a) = PhasedOut(amount, x, QCS.threshold, QCS.rate)
        /\ ProvincialBenefits(b) = PhasedOut(amount, y, QCS.threshold, QCS.rate)
    BY <1>1, <1>5, BenefitOfProvince DEF QcSolidarity
  <2> HIDE DEF amount
  <2>3. PhasedOutBound(amount, QCS.threshold, QCS.rate, x, y)
    <3>1. PICK m \in Int, t \in Nat, p \in Nat : m = amount /\ t = QCS.threshold /\ p = QCS.rate
      BY <2>1
    <3>2. PhasedOutBound(m, t, p, x, y)
      BY <1>1, PhasedOutFalls
    <3> QED
      BY <3>1, <3>2
  <2> QED
    BY SMT, <1>1, <2>1, <2>2, <2>3 DEF PhasedOutBound, Falls
<1> QED
  BY <1>2, <1>3, <1>4, <1>5 DEF Provinces

-----------------------------------------------------------------------------
(* Net income between two incomes.                                          *)

Household == [gross : Nat, province : Provinces, children : Nat, under6 : Nat, family : FamilyType]
\* The same household with the income that is not less.
Richer(a, b) ==
    /\ a \in Household /\ b \in Household
    /\ a.gross <= b.gross
    /\ b.province = a.province /\ b.children = a.children
    /\ b.under6 = a.under6 /\ b.family = a.family

\* Before it is rounded.
Unrounded(inp) ==
    inp.gross * Unit - TotalTaxes(METRComponents(inp)) + TotalBenefits(METRComponents(inp))

LEMMA NetIsRounded ==
    ASSUME NEW inp
    PROVE  CalculateNetIncome(inp) = Round(Unrounded(inp))
BY Zenon DEF CalculateNetIncome, Unrounded

Premium(inp) == IF inp.province = "ON" THEN OntarioHealthPremium(inp.gross) ELSE 0

LEMMA ComponentFields ==
    ASSUME NEW inp
    PROVE  LET c == METRComponents(inp)
           IN  /\ c.federal_tax = FederalTax(inp.gross)
               /\ c.provincial_tax = ProvincialTax(inp.gross, inp.province)
               /\ c.cpp = CppContribution(inp.gross)
               /\ c.cpp2 = Cpp2Contribution(inp.gross)
               /\ c.ei = EiPremium(inp.gross)
               /\ c.ohp = Premium(inp)
               /\ c.ccb = CcbBenefit(inp.gross, inp.children, inp.under6)
               /\ c.gst_credit = GstCredit(inp.gross, inp.family, inp.children)
               /\ c.cwb = CwbBenefit(inp.gross, inp.family)
               /\ c.provincial_benefits = ProvincialBenefits(inp)
BY DEF METRComponents, Premium

\* The components of an income x and of y, h more: taxes and contributions never fall, and how
\* much they rise and the benefits fall at most; up to 50000 dollars the first brackets alone,
\* from there no workers' benefit and no rising health premium.
ComponentBound(c, d, h, x, y, province) ==
    /\ Rises(c.federal_tax, d.federal_tax, 3300, h)
    /\ y <= 50000 => Rises(c.federal_tax, d.federal_tax, 1500, h)
    /\ Rises(c.provincial_tax, d.provincial_tax, 2577, h)
    /\ y <= 50000 => Rises(c.provincial_tax, d.provincial_tax,
                           IF province = "ON" THEN 505 ELSE 1400, h)
    /\ Rises(c.cpp, d.cpp, 595, h)
    /\ Rises(c.cpp2, d.cpp2, 400, h)
    /\ y <= 50000 => Rises(c.cpp2, d.cpp2, 0, h)
    /\ Rises(c.ei, d.ei, 166, h)
    /\ Rises(c.ohp, d.ohp, 2500, h)
    /\ x >= 50000 \/ province # "ON" => Rises(c.ohp, d.ohp, 0, h)
    /\ Falls(c.ccb, d.ccb, 1350, h)
    /\ Falls(c.gst_credit, d.gst_credit, 500, h)
    /\ Falls(c.cwb, d.cwb, 1500, h)
    /\ x >= 50000 => Falls(c.cwb, d.cwb, 0, h)
    /\ Falls(c.provincial_benefits, d.provincial_benefits, 600, h)

LEMMA ComponentsRise ==
    ASSUME NEW a, NEW b, Richer(a, b), NEW h \in Nat, b.gross = a.gross + h
    PROVE  ComponentBound(METRComponents(a), METRComponents(b), h, a.gross, b.gross, a.province)
<1>1. PICK x \in Nat, y \in Nat, province \in Provinces, children \in Nat, under6 \in Nat :
        /\ x = a.gross /\ y = b.gross /\ y = x + h
        /\ province = a.province /\ province = b.province
        /\ children = a.children /\ children = b.children
        /\ under6 = a.under6 /\ under6 = b.under6
  BY DEF Richer, Household
<1>2. PICK family : family = a.family /\ family = b.family
  BY DEF Richer
<1>0. x \in Nat /\ y \in Nat /\ h \in Nat /\ children \in Nat /\ y = x + h
  BY <1>1
<1>3. PICK c : c = METRComponents(a)
  OBVIOUS
<1>4. PICK d : d = METRComponents(b)
  OBVIOUS
<1>5. /\ c.federal_tax = FederalTax(x) /\ c.provincial_tax = ProvincialTax(x, province)
      /\ c.cpp = CppContribution(x) /\ c.cpp2 = Cpp2Contribution(x) /\ c.ei = EiPremium(x)
      /\ c.ohp = IF province = "ON" THEN OntarioHealthPremium(x) ELSE 0
      /\ c.ccb = CcbBenefit(x, children, under6)
      /\ c.gst_credit = GstCredit(x, family, children)
      /\ c.cwb = CwbBenefit(x, family)
      /\ c.provincial_benefits = ProvincialBenefits(a)
  BY <1>1, <1>2, <1>3, ComponentFields DEF Premium
<1>6. /\ d.federal_tax = FederalTax(y) /\ d.provincial_tax = ProvincialTax(y, province)
      /\ d.cpp = CppContribution(y) /\ d.cpp2 = Cpp2Contribution(y) /\ d.ei = EiPremium(y)
      /\ d.ohp = IF province = "ON" THEN OntarioHealthPremium(y) ELSE 0
      /\ d.ccb = CcbBenefit(y, children, under6)
      /\ d.gst_credit = GstCredit(y, family, children)
      /\ d.cwb = CwbBenefit(y, family)
      /\ d.provincial_benefits = ProvincialBenefits(b)
  BY <1>1, <1>2, <1>4, ComponentFields DEF Premium
<1>7. /\ Rises(c.federal_tax, d.federal_tax, 3300, h)
      /\ y <= 50000 => Rises(c.federal_tax, d.federal_tax, 1500, h)
  <2>1. /\ Rises(FederalTax(x), FederalTax(y), 3300, h)
        /\ y <= 50000 => Rises(FederalTax(x), FederalTax(y), 1500, h)
    BY SMT, <1>0, FederalRises
  <2>2. c.federal_tax = FederalTax(x) /\ d.federal_tax = FederalTax(y)
    BY <1>5, <1>6
  <2> QED
    BY <2>1, <2>2
<1>8. /\ Rises(c.provincial_tax, d.provincial_tax, 2577, h)
      /\ y <= 50000 => Rises(c.provincial_tax, d.provincial_tax,
                             IF province = "ON" THEN 505 ELSE 1400, h)
  <2>1. /\ Rises(ProvincialTax(x, province), ProvincialTax(y, province), 2577, h)
        /\ y <= 50000 => Rises(ProvincialTax(x, province), ProvincialTax(y, province),
                               IF province = "ON" THEN 505 ELSE 1400, h)
    BY SMT, <1>0, ProvincialRises
  <2> QED
    BY SMT, <1>5, <1>6, <2>1
<1>9. /\ Rises(c.cpp, d.cpp, 595, h)
      /\ Rises(c.cpp2, d.cpp2, 400, h)
      /\ y <= 50000 => Rises(c.cpp2, d.cpp2, 0, h)
      /\ Rises(c.ei, d.ei, 166, h)
  <2>1. /\ Rises(CppContribution(x), CppContribution(y), 595, h)
        /\ Rises(Cpp2Contribution(x), Cpp2Contribution(y), 400, h)
        /\ Rises(EiPremium(x), EiPremium(y), 166, h)
        /\ y <= 50000 => Rises(Cpp2Contribution(x), Cpp2Contribution(y), 0, h)
    BY SMTT(30), <1>0, ContributionsRise
  <2> QED
    BY SMT, <1>5, <1>6, <2>1
<1>10. /\ Rises(c.ohp, d.ohp, 2500, h)
       /\ x >= 50000 \/ province # "ON" => Rises(c.ohp, d.ohp, 0, h)
  <2>1. CASE province = "ON"
    <3>1. /\ Rises(OntarioHealthPremium(x), OntarioHealthPremium(y), 2500, h)
          /\ x >= 50000 => Rises(OntarioHealthPremium(x), OntarioHealthPremium(y), 0, h)
      BY SMT, <1>0, PremiumRises
    <3>2. c.ohp = OntarioHealthPremium(x) /\ d.ohp = OntarioHealthPremium(y)
      BY <1>5, <1>6, <2>1
    <3> QED
      BY <2>1, <3>1, <3>2
  <2>2. CASE province # "ON"
    BY SMT, <1>1, <1>5, <1>6, <2>2 DEF Rises
  <2> QED
    BY <2>1, <2>2
<1>11. Falls(c.ccb, d.ccb, 1350, h)
  <2>1. Falls(CcbBenefit(x, children, under6), CcbBenefit(y, children, under6), 1350, h)
    BY SMT, <1>0, CcbFalls
  <2> QED
    BY SMT, <1>5, <1>6, <2>1
<1>12. Falls(c.gst_credit, d.gst_credit, 500, h)
  <2>1. Falls(GstCredit(x, family, children), GstCredit(y, family, children), 500, h)
    BY ZenonT(60), <1>0, GstFalls
  <2>2. c.gst_credit = GstCredit(x, family, children) /\ d.gst_credit = GstCredit(y, family, children)
    BY <1>5, <1>6
  <2> QED
    BY <2>1, <2>2
<1>13. /\ Falls(c.cwb, d.cwb, 1500, h)
       /\ x >= 50000 => Falls(c.cwb, d.cwb, 0, h)
  <2>1. /\ Falls(CwbBenefit(x, family), CwbBenefit(y, family), 1500, h)
        /\ x >= 50000 => Falls(CwbBenefit(x, family), CwbBenefit(y, family), 0, h)
    BY SMT, <1>0, CwbFalls
  <2>2. c.cwb = CwbBenefit(x, family) /\ d.cwb = CwbBenefit(y, family)
    BY <1>5, <1>6
  <2> QED
    BY <2>1, <2>2
<1>14. Falls(c.provincial_benefits, d.provincial_benefits, 600, h)
  <2>1. /\ a.province \in Provinces /\ b.province = a.province /\ b.family = a.family
        /\ a.children \in Nat /\ b.children = a.children
        /\ a.gross \in Nat /\ b.gross \in Nat
    BY DEF Richer, Household
  <2>2. Falls(ProvincialBenefits(a), ProvincialBenefits(b), 600, h)
    BY <2>1, ProvincialBenefitFalls
  <2> QED
    BY SMT, <1>5, <1>6, <2>2
<1>15. ComponentBound(c, d, h, x, y, province)
  BY SMT, <1>7, <1>8, <1>9, <1>10, <1>11, <1>12, <1>13, <1>14 DEF ComponentBound
<1> QED
  BY <1>1, <1>3, <1>4, <1>15

\* On one side of 50000 dollars a household keeps more than 5.1 cents of a dollar.
LEMMA RawRises ==
    ASSUME NEW a, NEW b, Richer(a, b), b.gross <= 50000 \/ a.gross >= 50000
    PROVE  /\ Unrounded(a) \in Int /\ Unrounded(b) \in Int
           /\ Unrounded(b) - Unrounded(a) >= 512 * (b.gross - a.gross)
<1>1. PICK x \in Nat, y \in Nat, province \in Provinces :
        x = a.gross /\ y = b.gross /\ x <= y /\ province = a.province
  BY DEF Richer, Household
<1>2. PICK c : c = METRComponents(a)
  OBVIOUS
<1>3. PICK d : d = METRComponents(b)
  OBVIOUS
<1>4. PICK h \in Nat : h = y - x /\ y = x + h
  <2>1. y - x \in Nat /\ y = x + (y - x)
    BY <1>1
  <2> QED
    BY <2>1
<1>5. ComponentBound(c, d, h, x, y, province)
  <2>1. b.gross = a.gross + h
    BY <1>1, <1>4
  <2>2. ComponentBound(METRComponents(a), METRComponents(b), h, a.gross, b.gross, a.province)
    BY <2>1, ComponentsRise
  <2> QED
    BY <1>1, <1>2, <1>3, <2>2
<1>6. /\ Unrounded(a) = x * 10000 - TotalTaxes(c) + TotalBenefits(c)
      /\ Unrounded(b) = y * 10000 - TotalTaxes(d) + TotalBenefits(d)
  BY SMT, <1>1, <1>2, <1>3 DEF Unrounded, Unit
<1>7. /\ TotalTaxes(c) \in Int /\ TotalBenefits(c) \in Int
      /\ TotalTaxes(d) \in Int /\ TotalBenefits(d) \in Int
  BY SMT, <1>5 DEF ComponentBound, Rises, Falls, TotalTaxes, TotalBenefits
<1>8. (TotalTaxes(d) - TotalTaxes(c)) + (TotalBenefits(c) - TotalBenefits(d)) <= 9488 * h
  <2>1. CASE y <= 50000 /\ province = "ON"
    BY SMT, <1>5, <2>1 DEF ComponentBound, Rises, Falls, TotalTaxes, TotalBenefits
  <2>2. CASE y <= 50000 /\ province # "ON"
    BY SMT, <1>5, <2>2 DEF ComponentBound, Rises, Falls, TotalTaxes, TotalBenefits
  <2>3. CASE x >= 50000
    BY SMT, <1>5, <2>3 DEF ComponentBound, Rises, Falls, TotalTaxes, TotalBenefits
  <2> QED
    BY <1>1, <2>1, <2>2, <2>3
<1> QED
  BY SMT, <1>1, <1>4, <1>6, <1>7, <1>8

\* A raise of 500 dollars is more than one dollar more to keep.
LEMMA NetRises ==
    ASSUME NEW a, NEW b, Richer(a, b), b.gross - a.gross >= 500
    PROVE  /\ CalculateNetIncome(a) \in Int /\ CalculateNetIncome(b) \in Int
           /\ CalculateNetIncome(a) < CalculateNetIncome(b)
<1> DEFINE middle == [a EXCEPT !.gross = 50000]
<1>0. a.gross \in Nat /\ b.gross \in Nat
  BY DEF Richer, Household
<1>1. /\ Unrounded(a) \in Int /\ Unrounded(b) \in Int
      /\ Unrounded(b) - Unrounded(a) >= 512 * (b.gross - a.gross)
  <2>1. CASE b.gross <= 50000 \/ a.gross >= 50000
    BY SMT, <1>0, <2>1, RawRises
  <2>2. CASE a.gross < 50000 /\ 50000 < b.gross
    <3>1. Richer(a, middle) /\ Richer(middle, b) /\ middle.gross = 50000
      BY SMT, <1>0, <2>2 DEF Richer, Household
    <3> HIDE DEF middle
    <3>2. /\ Unrounded(a) \in Int /\ Unrounded(middle) \in Int
          /\ Unrounded(middle) - Unrounded(a) >= 512 * (50000 - a.gross)
      BY SMT, <3>1, RawRises
    <3>3. /\ Unrounded(b) \in Int
          /\ Unrounded(b) - Unrounded(middle) >= 512 * (b.gross - 50000)
      BY SMT, <3>1, RawRises
    <3> QED
      BY SMT, <1>0, <3>2, <3>3
  <2> QED
    BY SMT, <1>0, <2>1, <2>2
<1>2. Unrounded(b) - Unrounded(a) > Unit
  BY SMT, <1>0, <1>1 DEF Unit
<1>3. Round(Unrounded(a)) < Round(Unrounded(b))
  BY <1>1, <1>2, RoundRises
<1>4. Round(Unrounded(a)) \in Int /\ Round(Unrounded(b)) \in Int
  BY <1>1, RoundNear
<1> QED
  BY <1>3, <1>4, NetIsRounded

-----------------------------------------------------------------------------
(* The maximal runs of a set D of indices among the first n.                *)

RunsOf(D, n) ==
    {run \in (1..n) \X (1..n) :
       /\ run[1] <= run[2]
       /\ \A k \in run[1]..run[2] : k \in D
       /\ run[1] = 1 \/ run[1] - 1 \notin D
       /\ run[2] = n \/ run[2] + 1 \notin D}
EndedRuns(D, n) == {run \in RunsOf(D, n) : run[2] < n}
OpenRuns(D, n) == RunsOf(D, n) \ EndedRuns(D, n)

LEMMA RunFields ==
    ASSUME NEW D, NEW n \in Nat, NEW run \in RunsOf(D, n)
    PROVE  /\ run[1] \in 1..n /\ run[2] \in 1..n /\ run[1] <= run[2]
           /\ run = <<run[1], run[2]>>
           /\ \A k \in run[1]..run[2] : k \in D
           /\ run[1] = 1 \/ run[1] - 1 \notin D
           /\ run[2] = n \/ run[2] + 1 \notin D
BY DEF RunsOf

LEMMA IsRun ==
    ASSUME NEW D, NEW n \in Nat, NEW i \in 1..n, NEW j \in 1..n, i <= j,
           \A k \in i..j : k \in D,
           i = 1 \/ i - 1 \notin D, j = n \/ j + 1 \notin D
    PROVE  <<i, j>> \in RunsOf(D, n)
<1>1. <<i, j>>[1] = i /\ <<i, j>>[2] = j /\ <<i, j>> \in (1..n) \X (1..n)
  OBVIOUS
<1> QED
  BY <1>1 DEF RunsOf

LEMMA OpenEnds ==
    ASSUME NEW D, NEW n \in Nat, NEW run
    PROVE  /\ run \in OpenRuns(D, n) <=> run \in RunsOf(D, n) /\ run[2] = n
           /\ run \in EndedRuns(D, n) <=> run \in RunsOf(D, n) /\ run[2] + 1 <= n
BY RunFields DEF OpenRuns, EndedRuns

\* The run that is open at n, if any, is the only one, and starts after those that have ended.
LEMMA OpenLast ==
    ASSUME NEW D, NEW n \in Nat, NEW run \in OpenRuns(D, n)
    PROVE  /\ n \in D /\ n # 0
           /\ OpenRuns(D, n) = {run}
           /\ RunsOf(D, n) = EndedRuns(D, n) \cup {run}
           /\ \A other \in EndedRuns(D, n) : other[2] < run[1]
<1>1. run \in RunsOf(D, n) /\ run[2] = n
  BY OpenEnds
<1>2. /\ run[1] \in 1..n /\ run = <<run[1], n>>
      /\ \A k \in run[1]..n : k \in D
      /\ run[1] = 1 \/ run[1] - 1 \notin D
  BY <1>1, RunFields
<1>3. ASSUME NEW other \in OpenRuns(D, n) PROVE other = run
  <2>1. other \in RunsOf(D, n) /\ other[2] = n
    BY OpenEnds
  <2>2. /\ other[1] \in 1..n /\ other = <<other[1], n>>
        /\ \A k \in other[1]..n : k \in D
        /\ other[1] = 1 \/ other[1] - 1 \notin D
    BY <2>1, RunFields
  <2>3. PICK i \in 1..n, j \in 1..n : i = run[1] /\ j = other[1]
    BY <1>2, <2>2
  <2>4. CASE i < j
    <3>1. j # 1 /\ j - 1 \in i..n
      BY <2>4
    <3> QED
      BY <1>2, <2>2, <2>3, <3>1
  <2>5. CASE j < i
    <3>1. i # 1 /\ i - 1 \in j..n
      BY <2>5
    <3> QED
      BY <1>2, <2>2, <2>3, <3>1
  <2>6. CASE i = j
    BY <1>2, <2>2, <2>3, <2>6
  <2> QED
    BY <2>4, <2>5, <2>6
<1>4. ASSUME NEW other \in EndedRuns(D, n) PROVE other[2] < run[1]
  <2>1. other \in RunsOf(D, n) /\ other[2] + 1 <= n
    BY OpenEnds
  <2>2. other[2] \in 1..n /\ other[2] + 1 \notin D
    BY <2>1, RunFields
  <2>3. other[2] + 1 \notin run[1]..n
    BY <1>2, <2>2
  <2> QED
    BY <1>2, <2>1, <2>2, <2>3
<1>5. OpenRuns(D, n) = {run}
  BY <1>3
<1>6. RunsOf(D, n) = EndedRuns(D, n) \cup OpenRuns(D, n)
  BY DEF OpenRuns, EndedRuns
<1> QED
  BY <1>2, <1>4, <1>5, <1>6

\* One index further: a run ends before an index outside D.
LEMMA RunsAfterGap ==
    ASSUME NEW D, NEW n \in Nat, n + 1 \notin D
    PROVE  /\ EndedRuns(D, n + 1) = RunsOf(D, n)
           /\ OpenRuns(D, n + 1) = {}
<1>1. ASSUME NEW run \in OpenRuns(D, n + 1) PROVE FALSE
  <2>1. n + 1 \in Nat
    OBVIOUS
  <2>2. n + 1 \in D
    BY <2>1, OpenLast
  <2> QED
    BY <2>2
<1>2. ASSUME NEW run \in EndedRuns(D, n + 1) PROVE run \in RunsOf(D, n)
  <2>1. run \in RunsOf(D, n + 1) /\ run[2] < n + 1
    BY DEF EndedRuns
  <2>2. /\ run[1] \in 1..n + 1 /\ run[2] \in 1..n + 1 /\ run[1] <= run[2]
        /\ run = <<run[1], run[2]>>
        /\ \A k \in run[1]..run[2] : k \in D
        /\ run[1] = 1 \/ run[1] - 1 \notin D
        /\ run[2] = n + 1 \/ run[2] + 1 \notin D
    BY <2>1, RunFields
  <2>3. PICK i \in 1..n, j \in 1..n : i = run[1] /\ j = run[2]
    BY <2>1, <2>2
  <2>4. <<i, j>> \in RunsOf(D, n)
    BY <2>1, <2>2, <2>3, IsRun
  <2> QED
    BY <2>2, <2>3, <2>4
<1>3. ASSUME NEW run \in RunsOf(D, n) PROVE run \in EndedRuns(D, n + 1)
  <2>1. /\ run[1] \in 1..n /\ run[2] \in 1..n /\ run[1] <= run[2]
        /\ run = <<run[1], run[2]>>
        /\ \A k \in run[1]..run[2] : k \in D
        /\ run[1] = 1 \/ run[1] - 1 \notin D
        /\ run[2] = n \/ run[2] + 1 \notin D
    BY RunFields
  <2>2. PICK i \in 1..n, j \in 1..n : i = run[1] /\ j = run[2]
    BY <2>1
  <2>3. i \in 1..n + 1 /\ j \in 1..n + 1 /\ j + 1 \notin D
    BY <2>1, <2>2
  <2>4. <<i, j>> \in RunsOf(D, n + 1)
    BY <2>1, <2>2, <2>3, IsRun
  <2> QED
    BY <2>1, <2>2, <2>4 DEF EndedRuns
<1> QED
  BY <1>1, <1>2, <1>3

\* A run goes on, or begins, at an index of D.
LEMMA RunsAfterMember ==
    ASSUME NEW D, NEW n \in Nat, n + 1 \in D
    PROVE  /\ EndedRuns(D, n + 1) = EndedRuns(D, n)
           /\ n = 0 \/ n \notin D => OpenRuns(D, n + 1) = {<<n + 1, n + 1>>}
           /\ \A run \in OpenRuns(D, n) : OpenRuns(D, n + 1) = {<<run[1], n + 1>>}
<1>0. n + 1 \in Nat /\ n + 1 \in 1..n + 1
  OBVIOUS
<1>1. ASSUME NEW run \in EndedRuns(D, n + 1) PROVE run \in EndedRuns(D, n)
  <2>1. run \in RunsOf(D, n + 1) /\ run[2] < n + 1
    BY DEF EndedRuns
  <2>2. /\ run[1] \in 1..n + 1 /\ run[2] \in 1..n + 1 /\ run[1] <= run[2]
        /\ run = <<run[1], run[2]>>
        /\ \A k \in run[1]..run[2] : k \in D
        /\ run[1] = 1 \/ run[1] - 1 \notin D
        /\ run[2] = n + 1 \/ run[2] + 1 \notin D
    BY <2>1, RunFields
  <2>3. PICK i \in 1..n, j \in 1..n : i = run[1] /\ j = run[2] /\ j < n
    <3>1. run[2] + 1 \notin D
      BY <2>1, <2>2
    <3>2. run[2] # n
      BY <3>1
    <3> QED
      BY <2>1, <2>2, <3>2
  <2>4. <<i, j>> \in RunsOf(D, n)
    BY <2>1, <2>2, <2>3, IsRun
  <2> QED
    BY <2>2, <2>3, <2>4 DEF EndedRuns
<1>2. ASSUME NEW run \in EndedRuns(D, n) PROVE run \in EndedRuns(D, n + 1)
  <2>1. run \in RunsOf(D, n) /\ run[2] < n
    BY DEF EndedRuns
  <2>2. /\ run[1] \in 1..n /\ run[2] \in 1..n /\ run[1] <= run[2]
        /\ run = <<run[1], run[2]>>
        /\ \A k \in run[1]..run[2] : k \in D
        /\ run[1] = 1 \/ run[1] - 1 \notin D
        /\ run[2] = n \/ run[2] + 1 \notin D
    BY <2>1, RunFields
  <2>3. PICK i \in 1..n, j \in 1..n : i = run[1] /\ j = run[2]
    BY <2>2
  <2>4. i \in 1..n + 1 /\ j \in 1..n + 1 /\ j + 1 \notin D
    BY <2>1, <2>2, <2>3
  <2>5. <<i, j>> \in RunsOf(D, n + 1)
    BY <2>2, <2>3, <2>4, IsRun
  <2> QED
    BY <2>1, <2>2, <2>3, <2>5 DEF EndedRuns
<1>3. ASSUME n = 0 \/ n \notin D PROVE OpenRuns(D, n + 1) = {<<n + 1, n + 1>>}
  <2>1. \A k \in n + 1..n + 1 : k \in D
    OBVIOUS
  <2>2. n + 1 = 1 \/ (n + 1) - 1 \notin D
    BY <1>3
  <2>3. <<n + 1, n + 1>> \in RunsOf(D, n + 1)
    BY <1>0, <2>1, <2>2, IsRun
  <2>4. <<n + 1, n + 1>> \in OpenRuns(D, n + 1)
    BY <1>0, <2>3, OpenEnds
  <2> QED
    BY <1>0, <2>4, OpenLast
<1>4. ASSUME NEW run \in OpenRuns(D, n) PROVE OpenRuns(D, n + 1) = {<<run[1], n + 1>>}
  <2>1. run \in RunsOf(D, n) /\ run[2] = n
    BY OpenEnds
  <2>2. PICK i \in 1..n : /\ i = run[1]
                          /\ \A k \in i..n : k \in D
                          /\ i = 1 \/ i - 1 \notin D
    BY <2>1, RunFields
  <2>3. i \in 1..n + 1 /\ i <= n + 1 /\ \A k \in i..n + 1 : k \in D
    <3>1. ASSUME NEW k \in i..n + 1 PROVE k \in D
      <4>1. k \in i..n \/ k = n + 1
        OBVIOUS
      <4> QED
        BY <2>2, <4>1
    <3> QED
      BY <3>1
  <2>4. <<i, n + 1>> \in RunsOf(D, n + 1)
    BY <1>0, <2>2, <2>3, IsRun
  <2>5. <<i, n + 1>> \in OpenRuns(D, n + 1)
    BY <1>0, <2>4, OpenEnds
  <2> QED
    BY <1>0, <2>2, <2>5, OpenLast
<1> QED
  BY <1>1, <1>2, <1>3, <1>4

\* Every index of D among the first n lies in a run.
LEMMA RunsCover ==
    ASSUME NEW D, NEW n \in Nat, NEW k \in 1..n, k \in D
    PROVE  \E run \in RunsOf(D, n) : run[1] <= k /\ k <= run[2]
<1> DEFINE In(i, m) == \E run \in RunsOf(D, m) : run[1] <= i /\ i <= run[2]
           Kept == {m \in 0..n : \A i \in 1..m : i \in D => In(i, m)}
<1>1. 0 \in Kept
  OBVIOUS
<1>2. ASSUME NEW m \in 1..n, m - 1 \in Kept PROVE m \in Kept
  <2>1. PICK p \in Nat : p = m - 1 /\ m = p + 1
    OBVIOUS
  <2>2. ASSUME NEW i \in 1..p, i \in D PROVE In(i, p)
    BY <1>2, <2>1, <2>2
  <2>3. CASE m \notin D
    <3>1. RunsOf(D, p) \subseteq RunsOf(D, m)
      BY <2>1, <2>3, RunsAfterGap DEF EndedRuns
    <3>2. ASSUME NEW i \in 1..m, i \in D PROVE In(i, m)
      <4>1. i \in 1..p
        BY <2>1, <2>3, <3>2
      <4> QED
        BY <2>2, <3>1, <3>2, <4>1
    <3> HIDE DEF In
    <3> QED
      BY <3>2
  <2>4. CASE m \in D
    <3>0. m \in Nat
      OBVIOUS
    <3>1. PICK open \in OpenRuns(D, m) : p \in D /\ p # 0 => p \in open[1]..open[2]
      <4>1. CASE p = 0 \/ p \notin D
        <5>1. OpenRuns(D, m) = {<<m, m>>}
          BY <2>1, <2>4, <4>1, RunsAfterMember
        <5> QED
          BY <4>1, <5>1
      <4>2. CASE p # 0 /\ p \in D
        <5>1. p \in 1..p
          BY <4>2
        <5>2. PICK run \in RunsOf(D, p) : run[1] <= p /\ p <= run[2]
          BY <2>2, <4>2, <5>1
        <5>3. run[2] = p /\ run[1] \in 1..p
          BY <5>2, RunFields
        <5>4. run \in OpenRuns(D, p)
          BY <5>3, OpenEnds
        <5>5. OpenRuns(D, m) = {<<run[1], m>>}
          BY <2>1, <2>4, <5>4, RunsAfterMember
        <5>6. p \in run[1]..m
          BY <2>1, <5>3
        <5> QED
          BY <5>5, <5>6
      <4> QED
        BY <4>1, <4>2
    <3>2. open \in RunsOf(D, m) /\ open[2] = m /\ open[1] \in 1..m
      BY <3>0, <3>1, OpenEnds, RunFields
    <3>3. ASSUME NEW i \in 1..m, i \in D PROVE In(i, m)
      <4>1. CASE i = m
        BY <3>2, <4>1
      <4>2. CASE i # m
        <5>1. i \in 1..p /\ i \in D
          BY <2>1, <3>3, <4>2
        <5>2. PICK run \in RunsOf(D, p) : run[1] <= i /\ i <= run[2]
          BY <2>2, <5>1
        <5>3. CASE run[2] < p
          <6>1. run \in EndedRuns(D, m)
            BY <2>1, <2>4, <5>3, RunsAfterMember DEF EndedRuns
          <6> QED
            BY <5>2, <6>1 DEF EndedRuns
        <5>4. CASE ~(run[2] < p)
          <6>1. run[2] = p /\ run[1] \in 1..p
            BY <5>4, RunFields
          <6>2. run \in OpenRuns(D, p)
            BY <6>1, OpenEnds
          <6>3. OpenRuns(D, m) = {<<run[1], m>>}
            BY <2>1, <2>4, <6>2, RunsAfterMember
          <6>4. open[1] = run[1]
            BY <3>1, <6>3
          <6> QED
            BY <2>1, <3>2, <5>2, <6>1, <6>4
        <5> QED
          BY <5>3, <5>4
      <4> QED
        BY <4>1, <4>2
    <3> HIDE DEF In
    <3> QED
      BY <3>3
  <2> QED
    BY <2>3, <2>4
<1> HIDE DEF Kept
<1>3. n \in Kept
  <2>1. 0..n \subseteq Kept
    BY <1>1, <1>2, KeptByLoop
  <2> QED
    BY <2>1
<1> QED
  BY <1>3 DEF Kept

-----------------------------------------------------------------------------
(* The scan of a curve c.                                                   *)

ZoneName == {"extreme", "dead_zone", "high", "normal"}
Point == [gross : Nat, net : Int, metr : Int, zone : ZoneName]
Zone == [start : Nat, end : Nat, peak : Int]
Scan == [seen : Nat, zones : Seq(Zone), inZone : BOOLEAN, start : Nat, peak : Int]

\* A curve rises in both incomes.
IsCurve(c) ==
    /\ c \in Seq(Point)
    /\ \A i, j \in 1..Len(c) : i < j => c[i].gross < c[j].gross /\ c[i].net < c[j].net
DeadOf(c) == {i \in 1..Len(c) : c[i].metr >= DeadZone}
IsPeak(c, run, m) ==
    /\ \E k \in run[1]..run[2] : m = c[k].metr
    /\ \A k \in run[1]..run[2] : c[k].metr <= m
ZoneIn(c, run) ==
    [start |-> c[run[1]].gross, end |-> c[run[2]].gross,
     peak |-> CHOOSE m \in {c[k].metr : k \in run[1]..run[2]} :
                \A k \in run[1]..run[2] : c[k].metr <= m]

\* The zones of these runs, in order.
ListsZones(c, zones, runs) ==
    /\ zones \in Seq(Zone)
    /\ ZonesListed(zones) = {ZoneIn(c, run) : run \in runs}
    /\ Ascending(zones)
    /\ \A z \in ZonesListed(zones) : \E k \in 1..Len(c) : z.peak = c[k].metr
\* What the local variables of find_dead_zones say of the first seen points.
ScanState(c, s) ==
    /\ s.seen <= Len(c)
    /\ ListsZones(c, s.zones, EndedRuns(DeadOf(c), s.seen))
    /\ s.inZone <=> OpenRuns(DeadOf(c), s.seen) # {}
    /\ \A run \in OpenRuns(DeadOf(c), s.seen) :
         c[run[1]].gross = s.start /\ IsPeak(c, run, s.peak)

LEMMA DeadOrNot ==
    ASSUME NEW c, IsCurve(c), NEW i \in 1..Len(c)
    PROVE  /\ i \in DeadOf(c) <=> c[i].metr >= DeadZone
           /\ c[i].gross \in Nat /\ c[i].metr \in Int
<1>1. c \in Seq(Point)
  BY DEF IsCurve
<1>2. c[i] \in Point
  BY <1>1
<1>3. c[i].gross \in Nat /\ c[i].metr \in Int
  BY <1>2 DEF Point
<1> QED
  BY <1>3 DEF DeadOf

LEMMA PeakUnique ==
    ASSUME NEW c, IsCurve(c), NEW n \in 0..Len(c), NEW run \in RunsOf(DeadOf(c), n),
           NEW m, IsPeak(c, run, m)
    PROVE  ZoneIn(c, run) = [start |-> c[run[1]].gross, end |-> c[run[2]].gross, peak |-> m]
<1> DEFINE heights == {c[k].metr : k \in run[1]..run[2]}
           IsTop(p) == \A k \in run[1]..run[2] : c[k].metr <= p
           top == CHOOSE p \in heights : IsTop(p)
<1>1. n \in Nat /\ Len(c) \in Nat
  BY DEF IsCurve
<1>2. run[1] \in 1..n /\ run[2] \in 1..n
  BY <1>1, RunFields
<1>3. \A k \in run[1]..run[2] : c[k].metr \in Int
  <2>1. \A k \in run[1]..run[2] : k \in 1..Len(c)
    BY <1>1, <1>2
  <2> QED
    BY <2>1, DeadOrNot
<1>4. heights \subseteq Int
  BY <1>3
<1>5. m \in heights /\ IsTop(m)
  BY DEF IsPeak
<1>6. top \in heights /\ IsTop(top)
  BY <1>5
<1>7. top <= m /\ m <= top
  BY <1>5, <1>6
<1>8. top = m
  <2>1. top \in Int /\ m \in Int
    BY <1>4, <1>5, <1>6
  <2> HIDE DEF top
  <2> QED
    BY <1>7, <2>1
<1> HIDE DEF top
<1>9. ZoneIn(c, run) = [start |-> c[run[1]].gross, end |-> c[run[2]].gross, peak |-> top]
  BY DEF ZoneIn, top
<1> QED
  BY <1>8, <1>9

\* A run that has ended is added to the list.
LEMMA ZoneCloses ==
    ASSUME NEW c, IsCurve(c), NEW n \in 0..Len(c), NEW zones, NEW start, NEW peak,
           ListsZones(c, zones, EndedRuns(DeadOf(c), n)),
           NEW run \in OpenRuns(DeadOf(c), n), c[run[1]].gross = start, IsPeak(c, run, peak)
    PROVE  ListsZones(c, Append(zones, [start |-> start, end |-> c[n].gross, peak |-> peak]),
                      RunsOf(DeadOf(c), n))
<1> DEFINE last == [start |-> start, end |-> c[n].gross, peak |-> peak]
           more == Append(zones, last)
           D == DeadOf(c)
<1>0. n \in Nat /\ Len(c) \in Nat /\ c \in Seq(Point)
  BY DEF IsCurve
<1>1. run \in RunsOf(D, n) /\ run[2] = n /\ run[1] \in 1..n
  <2>1. run \in RunsOf(D, n) /\ run[2] = n
    BY <1>0, OpenEnds
  <2> QED
    BY <1>0, <2>1, RunFields
<1>2. ZoneIn(c, run) = last
  BY <1>1, PeakUnique
<1>3. /\ RunsOf(D, n) = EndedRuns(D, n) \cup {run}
      /\ \A other \in EndedRuns(D, n) : other[2] < run[1]
  BY <1>0, OpenLast
<1>4. PICK k \in run[1]..run[2] : peak = c[k].metr
  BY DEF IsPeak
<1>5. k \in 1..Len(c) /\ n \in 1..Len(c) /\ run[1] \in 1..Len(c)
  BY <1>0, <1>1, <1>4
<1>6. last \in Zone
  BY <1>4, <1>5, DeadOrNot DEF Zone
<1>7. zones \in Seq(Zone) /\ Len(zones) \in Nat
  BY DEF ListsZones
<1> HIDE DEF last
<1>8. /\ more \in Seq(Zone) /\ Len(more) = Len(zones) + 1
      /\ DOMAIN more = 1..Len(zones) + 1 /\ DOMAIN zones = 1..Len(zones)
      /\ \A i \in 1..Len(zones) : more[i] = zones[i]
      /\ more[Len(zones) + 1] = last
  BY <1>6, <1>7
<1> HIDE DEF more
<1>9. ZonesListed(more) = ZonesListed(zones) \cup {last}
  <2>1. \A i \in DOMAIN more : i \in DOMAIN zones \/ i = Len(zones) + 1
    BY <1>7, <1>8
  <2>2. \A i \in DOMAIN zones : i \in DOMAIN more /\ more[i] = zones[i]
    BY <1>7, <1>8
  <2>3. Len(zones) + 1 \in DOMAIN more
    BY <1>7, <1>8
  <2> QED
    BY <1>8, <2>1, <2>2, <2>3 DEF ZonesListed
<1>10. ZonesListed(more) = {ZoneIn(c, other) : other \in RunsOf(D, n)}
  BY <1>2, <1>3, <1>9 DEF ListsZones
<1>11. \A z \in ZonesListed(zones) : z.end < last.start
  <2> SUFFICES ASSUME NEW other \in EndedRuns(D, n) PROVE ZoneIn(c, other).end < last.start
    BY DEF ListsZones
  <2>1. other \in RunsOf(D, n)
    BY DEF EndedRuns
  <2>2. other[2] \in 1..n /\ other[2] < run[1]
    BY <1>0, <1>3, <2>1, RunFields
  <2>3. other[2] \in 1..Len(c)
    BY <1>0, <2>2
  <2>4. c[other[2]].gross < c[run[1]].gross
    BY <1>5, <2>2, <2>3 DEF IsCurve
  <2> QED
    BY <2>4 DEF ZoneIn, last
<1>12. Ascending(more)
  <2> SUFFICES ASSUME NEW i \in DOMAIN more, NEW j \in DOMAIN more, i < j
               PROVE  more[i].end < more[j].start
    BY DEF Ascending
  <2>1. i \in 1..Len(zones) /\ more[i] = zones[i]
    BY <1>7, <1>8
  <2>2. CASE j = Len(zones) + 1
    BY <1>8, <1>11, <2>1, <2>2 DEF ZonesListed
  <2>3. CASE j # Len(zones) + 1
    <3>1. j \in 1..Len(zones) /\ more[j] = zones[j]
      BY <1>7, <1>8, <2>3
    <3>2. Ascending(zones)
      BY DEF ListsZones
    <3> QED
      BY <1>8, <2>1, <3>1, <3>2 DEF Ascending
  <2> QED
    BY <2>2, <2>3
<1>13. \A z \in ZonesListed(more) : \E i \in 1..Len(c) : z.peak = c[i].metr
  BY <1>4, <1>5, <1>9 DEF ListsZones, last
<1> QED
  BY <1>8, <1>10, <1>12, <1>13 DEF ListsZones, more, last

\* What one turn of the loop does to the local variables.
LEMMA ScanPasses ==
    ASSUME NEW c, IsCurve(c), NEW s \in Scan, NEW t \in Scan, ScanState(c, s),
           s.seen < Len(c), t.seen = s.seen + 1, ~(c[s.seen + 1].metr >= DeadZone),
           ~s.inZone, ~t.inZone, t.zones = s.zones
    PROVE  ScanState(c, t)
<1>1. PICK n \in Nat : n = s.seen /\ n + 1 = t.seen /\ n + 1 \in 1..Len(c)
  BY DEF Scan, IsCurve
<1>2. n + 1 \notin DeadOf(c)
  BY <1>1, DeadOrNot
<1>3. EndedRuns(DeadOf(c), n + 1) = RunsOf(DeadOf(c), n) /\ OpenRuns(DeadOf(c), n + 1) = {}
  BY <1>2, RunsAfterGap
<1>4. OpenRuns(DeadOf(c), n) = {}
  BY <1>1 DEF ScanState
<1>5. RunsOf(DeadOf(c), n) = EndedRuns(DeadOf(c), n)
  BY <1>4 DEF OpenRuns, EndedRuns
<1>6. n + 1 <= Len(c)
  BY <1>1
<1> QED
  BY <1>1, <1>3, <1>5, <1>6 DEF ScanState

LEMMA ScanCloses ==
    ASSUME NEW c, IsCurve(c), NEW s \in Scan, NEW t \in Scan, ScanState(c, s),
           s.seen < Len(c), t.seen = s.seen + 1, ~(c[s.seen + 1].metr >= DeadZone),
           s.inZone, ~t.inZone,
           t.zones = Append(s.zones, [start |-> s.start, end |-> c[s.seen].gross,
                                      peak |-> s.peak])
    PROVE  ScanState(c, t)
<1>1. PICK n \in Nat : n = s.seen /\ n + 1 = t.seen /\ n + 1 \in 1..Len(c) /\ n \in 0..Len(c)
  BY SMTT(40) DEF Scan, IsCurve
<1>2. n + 1 \notin DeadOf(c)
  BY <1>1, DeadOrNot
<1>3. EndedRuns(DeadOf(c), n + 1) = RunsOf(DeadOf(c), n) /\ OpenRuns(DeadOf(c), n + 1) = {}
  BY <1>2, RunsAfterGap
<1>4. PICK run \in OpenRuns(DeadOf(c), n) : c[run[1]].gross = s.start /\ IsPeak(c, run, s.peak)
  BY <1>1 DEF ScanState
<1>5. ListsZones(c, s.zones, EndedRuns(DeadOf(c), n))
  BY <1>1 DEF ScanState
<1>6. ListsZones(c, t.zones, RunsOf(DeadOf(c), n))
  BY <1>1, <1>4, <1>5, ZoneCloses
<1>7. n + 1 <= Len(c)
  BY <1>1
<1> QED
  BY <1>1, <1>3, <1>6, <1>7 DEF ScanState

LEMMA ScanEnters ==
    ASSUME NEW c, IsCurve(c), NEW s \in Scan, NEW t \in Scan, ScanState(c, s),
           s.seen < Len(c), t.seen = s.seen + 1, c[s.seen + 1].metr >= DeadZone,
           ~s.inZone, t.inZone, t.zones = s.zones,
           t.start = c[s.seen + 1].gross, t.peak = c[s.seen + 1].metr
    PROVE  ScanState(c, t)
<1>1. PICK n \in Nat : /\ n = s.seen /\ n + 1 = t.seen /\ n + 1 \in 1..Len(c)
                       /\ Len(c) \in Nat
  BY DEF Scan, IsCurve
<1>2. n + 1 \in DeadOf(c) /\ c[n + 1].metr \in Int
  BY <1>1, DeadOrNot
<1>3. OpenRuns(DeadOf(c), n) = {}
  BY <1>1 DEF ScanState
<1>4. n = 0 \/ n \notin DeadOf(c)
  <2> SUFFICES ASSUME n # 0, n \in DeadOf(c) PROVE FALSE
    OBVIOUS
  <2>1. n \in 1..n
    BY <1>1
  <2>2. PICK run \in RunsOf(DeadOf(c), n) : run[1] <= n /\ n <= run[2]
    BY <2>1, RunsCover
  <2>3. run[2] = n
    BY <2>2, RunFields
  <2> QED
    BY <1>3, <2>3, OpenEnds
<1>5. /\ EndedRuns(DeadOf(c), n + 1) = EndedRuns(DeadOf(c), n)
      /\ OpenRuns(DeadOf(c), n + 1) = {<<n + 1, n + 1>>}
  BY <1>2, <1>4, RunsAfterMember
<1>6. IsPeak(c, <<n + 1, n + 1>>, c[n + 1].metr)
  <2>1. \A k \in n + 1..n + 1 : k = n + 1
    OBVIOUS
  <2>2. n + 1 \in n + 1..n + 1
    OBVIOUS
  <2> QED
    BY <1>2, <2>1, <2>2 DEF IsPeak
<1>7. n + 1 <= Len(c)
  BY <1>1
<1> QED
  BY <1>1, <1>5, <1>6, <1>7 DEF ScanState

LEMMA ScanGoesOn ==
    ASSUME NEW c, IsCurve(c), NEW s \in Scan, NEW t \in Scan, ScanState(c, s),
           s.seen < Len(c), t.seen = s.seen + 1, c[s.seen + 1].metr >= DeadZone,
           s.inZone, t.inZone, t.zones = s.zones,
           t.start = s.start, t.peak = Greater(s.peak, c[s.seen + 1].metr)
    PROVE  ScanState(c, t)
<1>1. PICK n \in Nat : /\ n = s.seen /\ n + 1 = t.seen /\ n + 1 \in 1..Len(c)
                       /\ Len(c) \in Nat
  BY DEF Scan, IsCurve
<1>2. n + 1 \in DeadOf(c) /\ c[n + 1].metr \in Int
  BY <1>1, DeadOrNot
<1>3. PICK run \in OpenRuns(DeadOf(c), n) : c[run[1]].gross = s.start /\ IsPeak(c, run, s.peak)
  BY <1>1 DEF ScanState
<1>4. /\ EndedRuns(DeadOf(c), n + 1) = EndedRuns(DeadOf(c), n)
      /\ OpenRuns(DeadOf(c), n + 1) = {<<run[1], n + 1>>}
  BY <1>2, <1>3, RunsAfterMember
<1>5. run[2] = n /\ run[1] \in 1..n
  <2>1. run \in RunsOf(DeadOf(c), n) /\ run[2] = n
    BY OpenEnds
  <2> QED
    BY <2>1, RunFields
<1>6. PICK i \in 1..n : i = run[1]
  BY <1>5
<1>7. IsPeak(c, <<i, n + 1>>, t.peak)
  <2>0. s.peak \in Int
    BY DEF Scan
  <2>1. \A k \in i..n : k \in 1..Len(c) /\ c[k].metr \in Int
    BY SMTT(30), <1>1, DeadOrNot
  <2>2. /\ \E k \in i..n : s.peak = c[k].metr
        /\ \A k \in i..n : c[k].metr <= s.peak
    BY <1>3, <1>5, <1>6 DEF IsPeak
  <2>3. \A k \in i..n + 1 : k \in i..n \/ k = n + 1
    OBVIOUS
  <2>4. PICK new \in Int : new = c[n + 1].metr
    BY <1>2
  <2>5. t.peak = Greater(s.peak, new)
    BY <1>1, <2>4
  <2>6. \A k \in i..n + 1 : c[k].metr <= t.peak
    BY SMTT(40), <2>0, <2>1, <2>2, <2>3, <2>4, <2>5 DEF Greater
  <2>7. \E k \in i..n + 1 : t.peak = c[k].metr
    <3>1. n + 1 \in i..n + 1 /\ i..n \subseteq i..n + 1
      OBVIOUS
    <3> QED
      BY <2>2, <2>4, <2>5, <3>1 DEF Greater
  <2> QED
    BY <2>6, <2>7 DEF IsPeak
<1>8. n + 1 <= Len(c)
  BY <1>1
<1> QED
  BY <1>1, <1>3, <1>4, <1>6, <1>7, <1>8 DEF ScanState

-----------------------------------------------------------------------------
(* The answers.                                                             *)

LEMMA InputIsHousehold ==
    ASSUME NEW income \in Nat, NEW province \in Provinces, NEW family \in FamilyType,
           NEW children \in Nat, NEW under6 \in Nat
    PROVE  /\ METRInput(income, province, family, children, under6) \in Household
           /\ METRInput(income, province, family, children, under6).gross = income
BY DEF METRInput, Household, FamilyType

LEMMA MetrIsInteger ==
    ASSUME NEW inp \in Household
    PROVE  CalculateNetIncome(inp) \in Int /\ CalculateMetr(inp) \in Int
<1> DEFINE raised == [inp EXCEPT !.gross = @ + Delta]
<1>1. inp.gross \in Nat
  BY DEF Household
<1>2. Richer(inp, raised) /\ raised.gross - inp.gross >= 500
  BY SMT, <1>1 DEF Richer, Household, Delta
<1>3. CalculateMetr(inp) = 1000 - (CalculateNetIncome(raised) - CalculateNetIncome(inp))
  BY SMT DEF CalculateMetr, Delta
<1> HIDE DEF raised
<1>4. CalculateNetIncome(inp) \in Int /\ CalculateNetIncome(raised) \in Int
  BY SMT, <1>2, NetRises
<1> QED
  BY SMT, <1>3, <1>4

LEMMA ZoneIsNamed ==
    ASSUME NEW metr \in Int
    PROVE  ClassifyZone(metr) \in ZoneName
BY ZenonT(60) DEF ClassifyZone, ZoneName

\* Of the highest there is a first.
LEMMA FirstHighest ==
    ASSUME NEW n \in Nat \ {0}, NEW metr \in [1..n -> Int]
    PROVE  \E i \in 1..n : \A j \in 1..n : RanksBefore(i, j, metr) \/ i = j
<1> DEFINE First(i, m) == \A j \in 1..m : RanksBefore(i, j, metr) \/ i = j
           Kept == {m \in 0..n : m = 0 \/ \E i \in 1..m : First(i, m)}
<1>1. 0 \in Kept
  OBVIOUS
<1>2. ASSUME NEW m \in 1..n, m - 1 \in Kept PROVE m \in Kept
  <2>1. CASE m = 1
    <3>1. 1 \in 1..m /\ First(1, m)
      BY <2>1
    <3> QED
      BY <3>1
  <2>2. CASE m # 1
    <3>1. PICK i \in 1..m - 1 : First(i, m - 1)
      BY <1>2, <2>2
    <3>2. metr[i] \in Int /\ metr[m] \in Int /\ i < m
      BY <2>2
    <3>3. \A j \in 1..m : j \in 1..m - 1 \/ j = m
      OBVIOUS
    <3>4. CASE metr[m] > metr[i]
      <4>1. ASSUME NEW j \in 1..m - 1 PROVE RanksBefore(m, j, metr)
        <5>1. metr[j] \in Int /\ (RanksBefore(i, j, metr) \/ i = j)
          BY <3>1
        <5> QED
          BY <3>2, <3>4, <5>1 DEF RanksBefore
      <4>2. First(m, m)
        BY <3>3, <4>1
      <4> QED
        BY <4>2
    <3>5. CASE ~(metr[m] > metr[i])
      <4>1. RanksBefore(i, m, metr)
        BY <3>2, <3>5 DEF RanksBefore
      <4>2. First(i, m)
        BY <3>1, <3>3, <4>1
      <4> QED
        BY SMTT(40), <4>2
    <3> QED
      BY <3>4, <3>5
  <2> QED
    BY <2>1, <2>2
<1> HIDE DEF Kept
<1>3. n \in Kept
  <2>1. 0..n \subseteq Kept
    BY <1>1, <1>2, KeptByLoop
  <2> QED
    BY <2>1
<1> QED
  BY <1>3 DEF Kept

LEMMA FourIsFinite == IsFiniteSet(1..4) /\ Cardinality(1..4) = 4
<1>1. PICK a \in Int, b \in Int : a = 1 /\ b = 4
  OBVIOUS
<1>2. IsFiniteSet(a..b) /\ Cardinality(a..b) = IF a > b THEN 0 ELSE b - a + 1
  BY FS_Interval
<1>3. (IF a > b THEN 0 ELSE b - a + 1) = 4
  BY <1>1
<1> QED
  BY <1>1, <1>2, <1>3

\* Each province has a place of its own.
LEMMA PlacesDiffer ==
    ASSUME NEW metr \in [1..4 -> Int],
           NEW i \in 1..4, NEW j \in 1..4, RanksBefore(i, j, metr)
    PROVE  Cardinality({k \in 1..4 : RanksBefore(k, i, metr)})
             < Cardinality({k \in 1..4 : RanksBefore(k, j, metr)})
<1> DEFINE above(l) == {k \in 1..4 : RanksBefore(k, l, metr)}
<1>1. above(i) \subseteq above(j)
  BY DEF RanksBefore
<1>2. i \in above(j) /\ i \notin above(i)
  BY DEF RanksBefore
<1>3. IsFiniteSet(above(j))
  <2>1. IsFiniteSet(1..4)
    BY FourIsFinite
  <2>2. above(j) \in SUBSET (1..4)
    OBVIOUS
  <2> HIDE DEF above
  <2> QED
    BY <2>1, <2>2, FS_Subset
<1> HIDE DEF above
<1>4. IsFiniteSet(above(i)) /\ Cardinality(above(i)) <= Cardinality(above(j))
      /\ (Cardinality(above(i)) = Cardinality(above(j)) => above(i) = above(j))
  BY <1>1, <1>3, FS_Subset
<1>5. Cardinality(above(i)) \in Nat /\ Cardinality(above(j)) \in Nat
  BY <1>3, <1>4, FS_CardinalityType
<1>6. Cardinality(above(i)) < Cardinality(above(j))
  BY <1>2, <1>4, <1>5
<1> QED
  BY <1>6 DEF above

\* The places of the provinces are 1 to 4.
LEMMA PlacesFilled ==
    ASSUME NEW metr \in [1..4 -> Int]
    PROVE  LET place(i) == 1 + Cardinality({j \in 1..4 : RanksBefore(j, i, metr)})
           IN  /\ \A i, j \in 1..4 : RanksBefore(i, j, metr) => place(i) < place(j)
               /\ \A i \in 1..4 : place(i) \in 1..4
               /\ \A n \in 1..4 : \E i \in 1..4 : place(i) = n
<1> DEFINE above(i) == {j \in 1..4 : RanksBefore(j, i, metr)}
           size(i) == Cardinality(above(i))
<1>1. ASSUME NEW i \in 1..4 PROVE size(i) \in 0..3
  <2>1. IsFiniteSet(1..4) /\ Cardinality(1..4) = 4
    BY FourIsFinite
  <2>2. above(i) \in SUBSET (1..4) /\ i \notin above(i)
    BY DEF RanksBefore
  <2> HIDE DEF above
  <2>3. /\ IsFiniteSet(above(i)) /\ Cardinality(above(i)) <= 4
        /\ 4 = Cardinality(above(i)) => 1..4 = above(i)
    BY <2>1, <2>2, FS_Subset
  <2>4. Cardinality(above(i)) \in Nat /\ Cardinality(above(i)) # 4
    BY <2>2, <2>3, FS_CardinalityType
  <2> QED
    BY <2>3, <2>4
<1>2. \A i, j \in 1..4 : RanksBefore(i, j, metr) => size(i) < size(j)
  BY PlacesDiffer
<1>3. \A i, j \in 1..4 : i # j => RanksBefore(i, j, metr) \/ RanksBefore(j, i, metr)
  BY DEF RanksBefore
<1> HIDE DEF size
<1>4. \A i, j \in 1..4 : i # j => size(i) # size(j)
  BY <1>1, <1>2, <1>3
<1>5. ASSUME NEW n \in 1..4 PROVE \E i \in 1..4 : 1 + size(i) = n
  <2>1. PICK p \in 0..3, q \in 0..3, r \in 0..3, s \in 0..3 :
          p = size(1) /\ q = size(2) /\ r = size(3) /\ s = size(4)
    BY <1>1
  <2>2. p # q /\ p # r /\ p # s /\ q # r /\ q # s /\ r # s
    BY <1>4, <2>1
  <2>3. 1 + p = n \/ 1 + q = n \/ 1 + r = n \/ 1 + s = n
    BY <2>2
  <2>4. 1 \in 1..4 /\ 2 \in 1..4 /\ 3 \in 1..4 /\ 4 \in 1..4
    OBVIOUS
  <2> QED
    BY <2>1, <2>3, <2>4
<1>6. /\ \A i, j \in 1..4 : RanksBefore(i, j, metr) => 1 + size(i) < 1 + size(j)
      /\ \A i \in 1..4 : 1 + size(i) \in 1..4
  BY <1>1, <1>2
<1> QED
  BY <1>5, <1>6 DEF size

\* A comparison names every province once and the highest rate first.
LEMMA ProvincesRanked ==
    ASSUME NEW income \in Nat, NEW family \in FamilyType, NEW children \in Nat, NEW under6 \in Nat
    PROVE  Ranked(RankProvinces(income, family, children, under6))
<1> DEFINE rate(i) == CalculateMetr(METRInput(income, Province[i], family, children, under6))
           metr == [i \in DOMAIN Province |-> rate(i)]
           place(i) == 1 + Cardinality({j \in DOMAIN Province : RanksBefore(j, i, metr)})
           at(n) == CHOOSE i \in DOMAIN Province : place(i) = n
           bars == RankProvinces(income, family, children, under6)
<1>1. DOMAIN Province = 1..4 /\ \A i \in 1..4 : Province[i] \in Provinces
  BY DEF Province, Provinces
<1>2. ASSUME NEW i \in 1..4 PROVE rate(i) \in Int
  BY <1>1, InputIsHousehold, MetrIsInteger
<1>3. bars = [n \in DOMAIN Province |-> [province |-> Province[at(n)], metr |-> metr[at(n)],
                                         zone |-> ClassifyZone(metr[at(n)])]]
  BY Zenon DEF RankProvinces
<1> HIDE DEF rate, bars
<1>4. metr \in [1..4 -> Int]
  BY <1>1, <1>2
<1> HIDE DEF metr
<1>5. /\ \A i, j \in 1..4 : RanksBefore(i, j, metr) => place(i) < place(j)
      /\ \A i \in 1..4 : place(i) \in 1..4
      /\ \A n \in 1..4 : \E i \in 1..4 : place(i) = n
  BY ZenonT(60), <1>1, <1>4, PlacesFilled
<1> HIDE DEF place
<1>6. ASSUME NEW n \in 1..4 PROVE at(n) \in 1..4 /\ place(at(n)) = n
  BY <1>1, <1>5
<1> HIDE DEF at
<1>7. ASSUME NEW i \in 1..4 PROVE \E n \in 1..4 : at(n) = i
  <2>1. PICK n \in 1..4 : n = place(i)
    BY <1>5
  <2>2. at(n) \in 1..4 /\ place(at(n)) = place(i)
    BY <1>6, <2>1
  <2>3. at(n) = i
    <3> SUFFICES ASSUME at(n) # i PROVE FALSE
      OBVIOUS
    <3>1. metr[at(n)] \in Int /\ metr[i] \in Int
      BY <1>4, <2>2
    <3>2. RanksBefore(at(n), i, metr) \/ RanksBefore(i, at(n), metr)
      BY <2>2, <3>1 DEF RanksBefore
    <3>3. place(i) < place(i)
      BY <1>5, <2>2, <3>2
    <3> QED
      BY <1>5, <3>3
  <2> QED
    BY <2>3
<1>8. DOMAIN bars = 1..4
  BY <1>1, <1>3
<1>9. \A n \in 1..4 : bars[n].province = Province[at(n)] /\ bars[n].metr = metr[at(n)]
  BY <1>1, <1>3
<1>10. {bars[n].province : n \in DOMAIN bars} = {Province[i] : i \in DOMAIN Province}
  BY <1>1, <1>6, <1>7, <1>8, <1>9
<1>11. ASSUME NEW m \in 1..4, NEW n \in 1..4, m < n
       PROVE  bars[m].metr >= bars[n].metr
  <2>1. PICK i \in 1..4, j \in 1..4 : i = at(m) /\ j = at(n) /\ place(i) = m /\ place(j) = n
    BY <1>6
  <2>2. metr[i] \in Int /\ metr[j] \in Int
    BY <1>4
  <2>3. ~RanksBefore(j, i, metr)
    BY <1>5, <1>11, <2>1
  <2>4. metr[i] >= metr[j]
    BY <2>2, <2>3 DEF RanksBefore
  <2> QED
    BY <1>9, <2>1, <2>4
<1> QED
  BY <1>8, <1>10, <1>11 DEF Ranked, bars

\* The waterfall of card 2, but for what it leaves out, comes to the gain.
LEMMA WaterfallAdds ==
    Waterfall.gain - Total(Waterfall.steps) - Round(Omitted("gst_credit") - Omitted("ohp")) \in -5..5
<1>1. PICK a : a = CardInput(45000)
  OBVIOUS
<1>2. PICK b : b = CardInput(55000)
  OBVIOUS
<1>3. Richer(a, b) /\ a.gross = 45000 /\ b.gross = 55000
  <2>1. /\ a = [gross |-> 45000, province |-> "ON", children |-> 2, under6 |-> 2,
                family |-> "single_parent"]
        /\ b = [gross |-> 55000, province |-> "ON", children |-> 2, under6 |-> 2,
                family |-> "single_parent"]
    BY SMT, <1>1, <1>2 DEF CardInput, METRInput
  <2> QED
    BY SMT, <2>1 DEF Richer, Household, FamilyType, Provinces
<1>4. PICK low : low = METRComponents(a)
  OBVIOUS
<1>5. PICK high : high = METRComponents(b)
  OBVIOUS
<1>6. PICK h \in Nat : h = 10000
  BY SMT
<1>7. ComponentBound(low, high, h, a.gross, b.gross, a.province)
  <2>1. b.gross = a.gross + h
    BY SMT, <1>3, <1>6
  <2> QED
    BY <1>3, <1>4, <1>5, <2>1, ComponentsRise
<1> DEFINE fed == high.federal_tax - low.federal_tax
           prov == high.provincial_tax - low.provincial_tax
           con == (high.cpp - low.cpp) + (high.cpp2 - low.cpp2) + (high.ei - low.ei)
           ohp == high.ohp - low.ohp
           ccb == high.ccb - low.ccb
           gst == high.gst_credit - low.gst_credit
           cwb == high.cwb - low.cwb
           ben == high.provincial_benefits - low.provincial_benefits
           loss(amount) == 0 - Greater(Round(amount), 0 - Round(amount))
<1>8. /\ fed \in Nat /\ prov \in Nat /\ con \in Nat /\ ohp \in Nat
      /\ ccb \in Int /\ gst \in Int /\ cwb \in Int /\ ben \in Int
  BY SMT, <1>7 DEF ComponentBound, Rises, Falls
<1>9. PICK before \in Int, after \in Int :
        /\ before = Unrounded(a) /\ after = Unrounded(b)
        /\ after - before = 100000000 - fed - prov - con - ohp + ccb + gst + cwb + ben
  <2>1. /\ Unrounded(a) = 450000000 - TotalTaxes(low) + TotalBenefits(low)
        /\ Unrounded(b) = 550000000 - TotalTaxes(high) + TotalBenefits(high)
    BY SMT, <1>3, <1>4, <1>5 DEF Unrounded, Unit
  <2>2. /\ TotalTaxes(low) \in Int /\ TotalBenefits(low) \in Int
        /\ TotalTaxes(high) \in Int /\ TotalBenefits(high) \in Int
        /\ TotalTaxes(high) - TotalTaxes(low) = fed + prov + con + ohp
        /\ TotalBenefits(high) - TotalBenefits(low) = ccb + gst + cwb + ben
    BY SMT, <1>7 DEF ComponentBound, Rises, Falls, TotalTaxes, TotalBenefits
  <2> HIDE DEF fed, prov, con, ohp, ccb, gst, cwb, ben
  <2>3. PICK before \in Int, after \in Int : before = Unrounded(a) /\ after = Unrounded(b)
    BY SMT, <2>1, <2>2
  <2>4. after - before = 100000000 - fed - prov - con - ohp + ccb + gst + cwb + ben
    BY SMT, <1>8, <2>1, <2>2, <2>3
  <2> QED
    BY <2>3, <2>4
<1>10. /\ CalculateNetIncome(a) = Round(before) /\ CalculateNetIncome(b) = Round(after)
  BY <1>9, NetIsRounded
<1>11. /\ Waterfall.gain = CalculateNetIncome(b) - CalculateNetIncome(a)
       /\ Waterfall.steps = <<10000, loss(fed), loss(prov), loss(con), Round(ccb), Round(cwb),
                              Round(ben)>>
  BY SMT, <1>1, <1>2, <1>4, <1>5 DEF Waterfall
<1> HIDE DEF fed, prov, con, ohp, ccb, gst, cwb, ben
<1>12. \A amount \in Nat : loss(amount) = 0 - Round(amount)
  BY SMT, RoundNatural DEF Greater
<1> HIDE DEF loss
<1>13. PICK rest \in Int : rest = gst - ohp
  BY <1>8
<1>14. PICK w \in Int, p \in Int, q \in Int, r \in Int, s \in Int, t \in Int, u \in Int,
            v \in Int, o \in Int :
         /\ w = Round(after) /\ p = Round(before) /\ q = Round(fed) /\ r = Round(prov)
         /\ s = Round(con) /\ t = Round(ccb) /\ u = Round(cwb) /\ v = Round(ben)
         /\ o = Round(rest)
  <2>1. /\ Round(after) \in Int /\ Round(before) \in Int
        /\ Round(fed) \in Int /\ Round(prov) \in Int /\ Round(con) \in Int
        /\ Round(ccb) \in Int /\ Round(cwb) \in Int /\ Round(ben) \in Int
        /\ Round(rest) \in Int
    BY SMT, <1>8, RoundNear
  <2> QED
    BY Zenon, <2>1
<1>15. /\ 10000 * w <= after + 5000 /\ after - 5000 <= 10000 * w
       /\ 10000 * p <= before + 5000 /\ before - 5000 <= 10000 * p
       /\ 10000 * q <= fed + 5000 /\ fed - 5000 <= 10000 * q
       /\ 10000 * r <= prov + 5000 /\ prov - 5000 <= 10000 * r
       /\ 10000 * s <= con + 5000 /\ con - 5000 <= 10000 * s
       /\ 10000 * t <= ccb + 5000 /\ ccb - 5000 <= 10000 * t
       /\ 10000 * u <= cwb + 5000 /\ cwb - 5000 <= 10000 * u
       /\ 10000 * v <= ben + 5000 /\ ben - 5000 <= 10000 * v
       /\ 10000 * o <= rest + 5000 /\ rest - 5000 <= 10000 * o
  BY SMT, <1>8, <1>13, <1>14, RoundNear DEF Unit
<1>16. (w - p) - (10000 - q - r - s + t + u + v) - o \in -5..5
  BY SMT, <1>8, <1>9, <1>13, <1>15
<1>17. /\ Waterfall.steps[1] = 10000
       /\ Waterfall.steps[2] = 0 - q /\ Waterfall.steps[3] = 0 - r /\ Waterfall.steps[4] = 0 - s
       /\ Waterfall.steps[5] = t /\ Waterfall.steps[6] = u /\ Waterfall.steps[7] = v
  BY SMT, <1>8, <1>11, <1>12, <1>14
<1>18. Waterfall.gain = w - p
  BY SMT, <1>10, <1>11, <1>14
<1>19. Round(Omitted("gst_credit") - Omitted("ohp")) = o
  BY <1>1, <1>2, <1>4, <1>5, <1>13, <1>14 DEF gst, ohp, Omitted
<1>20. (w - p) - (10000 + (0 - q) + (0 - r) + (0 - s) + t + u + v) - o \in -5..5
  BY SMT, <1>16
<1> QED
  BY SMT, <1>17, <1>18, <1>19, <1>20 DEF Total

-----------------------------------------------------------------------------
(* The requests.                                                            *)

PointAt(r, k) ==
    LET inp == InputAt(r, r.min + (k - 1) * r.step)
    IN  [gross |-> inp.gross, net |-> CalculateNetIncome(inp), metr |-> CalculateMetr(inp),
         zone |-> ClassifyZone(CalculateMetr(inp))]

\* The body of the answer to a request for a curve.
CurveAnswered(c, body) ==
    /\ ListsZones(c, body.zones, RunsOf(DeadOf(c), Len(c)))
    /\ HighestOf(c, body.peak)
    /\ \A g \in body.cleared : \A i \in 1..Len(c) : c[i].gross >= g => i \notin DeadOf(c)

\* And of the other answers.
OtherAnswered(kind, body) ==
    /\ kind = "compare" => Ranked(body)
    /\ kind = "cards" => /\ Ranked(body.bars)
                         /\ body.waterfall = Waterfall /\ body.slopes = Slopes

MetrIInv ==
    /\ stage \in {"idle", "busy", "answered", "refused"}
    /\ stage = "idle" => curve = <<>> /\ scan = NotScanned
    /\ stage # "idle" => request \in CurveRequests \cup CompareRequests \cup {CardsRequest}
    /\ curve \in Seq(Point)
    /\ curve # <<>> => request \in CurveRequests
    /\ \A k \in 1..Len(curve) : curve[k] = PointAt(request, k)
    /\ scan \in Scan
    /\ scan.seen # 0 => request.kind = "curve" /\ ~Incomplete
    /\ stage \in {"idle", "busy"} => ScanState(curve, scan)
    /\ stage = "answered" /\ request.kind = "curve" => CurveAnswered(curve, answer)
    /\ stage = "answered" => OtherAnswered(request.kind, answer)

LEMMA CurveRequestFields ==
    ASSUME NEW r \in CurveRequests
    PROVE  /\ r.kind = "curve" /\ r.province \in Provinces /\ r.family \in FamilyType
           /\ r.children \in Nat /\ r.under6 \in Nat
           /\ r.min \in Nat /\ r.max \in Int /\ r.step \in Nat /\ r.step >= 500
BY RequestConstants, ProvinceSet

LEMMA CompareRequestFields ==
    ASSUME NEW r \in CompareRequests
    PROVE  /\ r.kind \in {"compare", "calculate"} /\ r.family \in FamilyType
           /\ r.children \in Nat /\ r.under6 \in Nat /\ r.income \in Nat
BY RequestConstants

LEMMA PointOfCurve ==
    ASSUME NEW r \in CurveRequests, NEW k \in Nat \ {0}
    PROVE  /\ PointAt(r, k) \in Point
           /\ PointAt(r, k).gross = r.min + (k - 1) * r.step
<1> DEFINE income == r.min + (k - 1) * r.step
           inp == InputAt(r, income)
<1>1. income \in Nat
  <2>1. r.min \in Nat /\ r.step \in Nat /\ k - 1 \in Nat
    BY CurveRequestFields
  <2>2. (k - 1) * r.step \in Nat
    BY <2>1
  <2> QED
    BY <2>1, <2>2
<1>2. PointAt(r, k) = [gross |-> inp.gross, net |-> CalculateNetIncome(inp),
                       metr |-> CalculateMetr(inp), zone |-> ClassifyZone(CalculateMetr(inp))]
  BY DEF PointAt
<1> HIDE DEF income
<1>3. inp \in Household /\ inp.gross = income
  BY <1>1, CurveRequestFields, InputIsHousehold DEF InputAt
<1> HIDE DEF inp
<1>4. CalculateNetIncome(inp) \in Int /\ CalculateMetr(inp) \in Int
  BY <1>3, MetrIsInteger
<1>5. ClassifyZone(CalculateMetr(inp)) \in ZoneName
  BY <1>4, ZoneIsNamed
<1>6. PointAt(r, k).gross = income
  BY <1>2, <1>3
<1> QED
  BY <1>1, <1>2, <1>3, <1>4, <1>5, <1>6 DEF Point, income

\* Along a curve both incomes rise: the steps are of 500 dollars at least.
LEMMA PointsRise ==
    ASSUME NEW r \in CurveRequests, NEW i \in Nat \ {0}, NEW j \in Nat \ {0}, i < j
    PROVE  /\ PointAt(r, i).gross < PointAt(r, j).gross
           /\ PointAt(r, i).net < PointAt(r, j).net
<1> DEFINE a == InputAt(r, r.min + (i - 1) * r.step)
           b == InputAt(r, r.min + (j - 1) * r.step)
<1>1. PICK step \in Nat, low \in Nat : step = r.step /\ step >= 500 /\ low = r.min
  BY CurveRequestFields
<1>2. PICK p \in Nat, q \in Nat, more \in Nat :
        /\ p = (i - 1) * step /\ q = (j - 1) * step /\ q = p + more /\ more >= 500
  <2>1. PICK m \in Nat, d \in Nat : m = i - 1 /\ j - 1 = (m + d) + 1
    <3>1. i - 1 \in Nat /\ j - i - 1 \in Nat /\ j - 1 = ((i - 1) + (j - i - 1)) + 1
      OBVIOUS
    <3> QED
      BY <3>1
  <2>2. ((m + d) + 1) * step = m * step + (d * step + step)
    OBVIOUS
  <2>3. m * step \in Nat /\ d * step \in Nat
    OBVIOUS
  <2>4. d * step + step >= 500 /\ d * step + step \in Nat
    BY <1>1, <2>3
  <2> QED
    BY <2>1, <2>2, <2>3, <2>4
<1>3. /\ a \in Household /\ a.gross = low + p
      /\ b \in Household /\ b.gross = low + q
  <2>1. low + p \in Nat /\ low + q \in Nat
    OBVIOUS
  <2>2. a = InputAt(r, low + p) /\ b = InputAt(r, low + q)
    BY <1>1, <1>2
  <2>3. ASSUME NEW income \in Nat
        PROVE  InputAt(r, income) \in Household /\ InputAt(r, income).gross = income
    BY CurveRequestFields, InputIsHousehold DEF InputAt
  <2> HIDE DEF a, b
  <2> QED
    BY <2>1, <2>2, <2>3
<1>4. /\ b.province = a.province /\ b.children = a.children
      /\ b.under6 = a.under6 /\ b.family = a.family
  BY DEF InputAt, METRInput
<1>5. /\ PointAt(r, i).gross = a.gross /\ PointAt(r, i).net = CalculateNetIncome(a)
      /\ PointAt(r, j).gross = b.gross /\ PointAt(r, j).net = CalculateNetIncome(b)
  BY DEF PointAt
<1> HIDE DEF a, b
<1>6. b.gross - a.gross >= 500 /\ a.gross < b.gross /\ a.gross <= b.gross
  BY <1>2, <1>3
<1>7. Richer(a, b)
  BY <1>3, <1>4, <1>6 DEF Richer
<1>8. CalculateNetIncome(a) < CalculateNetIncome(b)
  BY <1>6, <1>7, NetRises
<1> QED
  BY <1>5, <1>6, <1>8

LEMMA CurveOfRequest ==
    ASSUME MetrIInv
    PROVE  IsCurve(curve)
<1>1. curve \in Seq(Point) /\ Len(curve) \in Nat
  BY DEF MetrIInv
<1>2. ASSUME NEW i \in 1..Len(curve), NEW j \in 1..Len(curve), i < j
      PROVE  curve[i].gross < curve[j].gross /\ curve[i].net < curve[j].net
  <2>1. curve # <<>>
    BY <1>1
  <2>2. request \in CurveRequests /\ curve[i] = PointAt(request, i) /\ curve[j] = PointAt(request, j)
    BY <2>1 DEF MetrIInv
  <2> QED
    BY <1>1, <1>2, <2>2, PointsRise
<1> QED
  BY <1>1, <1>2 DEF IsCurve

\* The dead runs of the model's reference are those of the set of dead points.
LEMMA RunsOfCurve ==
    ASSUME IsCurve(curve), NEW n \in 0..Len(curve)
    PROVE  Runs(n) = RunsOf(DeadOf(curve), n)
<1>1. curve \in Seq(Point) /\ Len(curve) \in Nat
  BY DEF IsCurve
<1>2. \A k \in 1..n : Dead(k) <=> k \in DeadOf(curve)
  BY <1>1 DEF Dead, DeadOf
<1>3. ASSUME NEW run \in (1..n) \X (1..n)
      PROVE  run \in Runs(n) <=> run \in RunsOf(DeadOf(curve), n)
  <2>1. PICK i \in 1..n, j \in 1..n : i = run[1] /\ j = run[2]
    OBVIOUS
  <2>2. \A k \in i..j : k \in 1..n
    OBVIOUS
  <2>3. i # 1 => i - 1 \in 1..n
    OBVIOUS
  <2>4. j # n => j + 1 \in 1..n
    OBVIOUS
  <2>5. (\A k \in i..j : Dead(k)) <=> (\A k \in i..j : k \in DeadOf(curve))
    BY <1>2, <2>2
  <2>6. (i = 1 \/ ~Dead(i - 1)) <=> (i = 1 \/ i - 1 \notin DeadOf(curve))
    BY <1>2, <2>3
  <2>7. (j = n \/ ~Dead(j + 1)) <=> (j = n \/ j + 1 \notin DeadOf(curve))
    BY <1>2, <2>4
  <2> QED
    BY <2>1, <2>5, <2>6, <2>7 DEF Runs, RunsOf
<1> QED
  BY <1>3 DEF Runs, RunsOf

LEMMA PeakPointHighest ==
    ASSUME IsCurve(curve), curve # <<>>
    PROVE  /\ PeakPoint \in 1..Len(curve)
           /\ \A k \in 1..Len(curve) :
                /\ curve[k].metr <= curve[PeakPoint].metr
                /\ curve[k].metr = curve[PeakPoint].metr => PeakPoint <= k
<1> DEFINE metr == [k \in 1..Len(curve) |-> curve[k].metr]
           IsFirst(i) == \A j \in 1..Len(curve) : RanksBefore(i, j, metr) \/ i = j
<1>1. Len(curve) \in Nat \ {0} /\ DOMAIN curve = 1..Len(curve)
  BY DEF IsCurve
<1>2. \A k \in 1..Len(curve) : curve[k].metr \in Int
  BY DeadOrNot
<1>3. metr \in [1..Len(curve) -> Int] /\ \A k \in 1..Len(curve) : metr[k] = curve[k].metr
  BY <1>2
<1>4. PeakPoint = CHOOSE i \in 1..Len(curve) : IsFirst(i)
  BY <1>1 DEF PeakPoint
<1> HIDE DEF metr
<1>5. \E i \in 1..Len(curve) : IsFirst(i)
  BY <1>1, <1>3, FirstHighest
<1>6. PeakPoint \in 1..Len(curve) /\ IsFirst(PeakPoint)
  <2> HIDE DEF IsFirst
  <2> QED
    BY <1>4, <1>5
<1>7. ASSUME NEW k \in 1..Len(curve)
      PROVE  /\ curve[k].metr <= curve[PeakPoint].metr
             /\ curve[k].metr = curve[PeakPoint].metr => PeakPoint <= k
  <2>1. RanksBefore(PeakPoint, k, metr) \/ PeakPoint = k
    BY <1>6
  <2> QED
    BY <1>2, <1>3, <1>6, <2>1 DEF RanksBefore
<1> QED
  BY <1>6, <1>7

\* After the end of the last zone no point is dead.
LEMMA NoneAfterLast ==
    ASSUME NEW c, IsCurve(c), NEW zones, ListsZones(c, zones, RunsOf(DeadOf(c), Len(c))),
           zones # <<>>, NEW i \in 1..Len(c), c[i].gross > zones[Len(zones)].end
    PROVE  i \notin DeadOf(c)
<1> SUFFICES ASSUME i \in DeadOf(c) PROVE FALSE
  OBVIOUS
<1>0. Len(c) \in Nat /\ zones \in Seq(Zone) /\ Len(zones) \in 1..Len(zones) /\ Len(zones) \in Nat
      /\ DOMAIN zones = 1..Len(zones)
  BY DEF IsCurve, ListsZones
<1>1. PICK run \in RunsOf(DeadOf(c), Len(c)) : run[1] <= i /\ i <= run[2]
  BY <1>0, RunsCover
<1>2. run[2] \in 1..Len(c) /\ run[1] \in 1..Len(c) /\ run[1] <= run[2]
  BY <1>0, RunFields
<1>3. PICK k \in 1..Len(zones) : zones[k] = ZoneIn(c, run)
  BY <1>0 DEF ListsZones, ZonesListed
<1>4. c[i].gross <= c[run[2]].gross
  <2>1. c[i].gross \in Nat /\ c[run[2]].gross \in Nat
    BY <1>2, DeadOrNot
  <2>2. i = run[2] \/ i < run[2]
    BY <1>1, <1>2
  <2> QED
    BY <1>2, <2>1, <2>2 DEF IsCurve
<1>5. zones[k].end = c[run[2]].gross
  BY <1>3 DEF ZoneIn
<1>6. zones[k].end <= zones[Len(zones)].end
  <2>1. PICK other \in RunsOf(DeadOf(c), Len(c)) : zones[Len(zones)] = ZoneIn(c, other)
    BY <1>0 DEF ListsZones, ZonesListed
  <2>2. other[2] \in 1..Len(c) /\ other[1] \in 1..Len(c) /\ other[1] <= other[2]
    BY <1>0, RunFields
  <2>3. c[other[1]].gross \in Nat /\ c[other[2]].gross \in Nat
    BY <2>2, DeadOrNot
  <2>4. c[other[1]].gross <= c[other[2]].gross
    <3>1. CASE other[1] = other[2]
      BY <2>3, <3>1
    <3>2. CASE other[1] # other[2]
      <4>1. other[1] < other[2]
        BY <2>2, <3>2
      <4>2. c[other[1]].gross < c[other[2]].gross
        BY <2>2, <4>1 DEF IsCurve
      <4> QED
        BY <2>3, <4>2
    <3> QED
      BY <3>1, <3>2
  <2>5. zones[Len(zones)].start <= zones[Len(zones)].end
    BY <2>1, <2>4 DEF ZoneIn
  <2>6. zones[k] \in Zone /\ zones[Len(zones)] \in Zone
    BY <1>0
  <2>7. CASE k = Len(zones)
    BY <2>6, <2>7 DEF Zone
  <2>8. CASE k < Len(zones)
    <3>1. zones[k].end < zones[Len(zones)].start
      BY <1>0, <2>8 DEF ListsZones, Ascending
    <3> QED
      BY <2>5, <2>6, <3>1 DEF Zone
  <2> QED
    BY <1>0, <2>7, <2>8
<1>7. c[i].gross \in Nat /\ zones[k].end \in Nat /\ zones[Len(zones)].end \in Nat
  <2>1. zones[k] \in Zone /\ zones[Len(zones)] \in Zone
    BY <1>0
  <2> QED
    BY <2>1, DeadOrNot DEF Zone
<1> QED
  BY <1>4, <1>5, <1>6, <1>7

-----------------------------------------------------------------------------
(* The steps.                                                               *)

LEMMA MetrStarts ==
    ASSUME MetrInit
    PROVE  MetrIInv
<1>1. /\ stage = "idle" /\ curve = <<>> /\ scan = NotScanned
  BY DEF MetrInit
<1>2. scan.seen = 0 /\ scan.zones = <<>> /\ scan.inZone = FALSE /\ scan \in Scan
  BY <1>1 DEF NotScanned, Scan
<1>3. curve \in Seq(Point) /\ Len(curve) = 0
  BY <1>1
<1>4. RunsOf(DeadOf(curve), 0) = {}
  BY DEF RunsOf
<1>5. EndedRuns(DeadOf(curve), 0) = {} /\ OpenRuns(DeadOf(curve), 0) = {}
  BY <1>4 DEF EndedRuns, OpenRuns
<1>6. ListsZones(curve, <<>>, {})
  BY DEF ListsZones, ZonesListed, Ascending
<1>7. ScanState(curve, scan)
  <2>1. /\ EndedRuns(DeadOf(curve), scan.seen) = {} /\ OpenRuns(DeadOf(curve), scan.seen) = {}
        /\ scan.seen <= Len(curve)
    BY <1>2, <1>3, <1>5
  <2> QED
    BY <1>2, <1>6, <2>1 DEF ScanState
<1> QED
  BY <1>1, <1>2, <1>3, <1>7 DEF MetrIInv

LEMMA ArriveKeeps ==
    ASSUME MetrIInv, stage = "idle",
           NEW r \in CurveRequests \cup CompareRequests \cup {CardsRequest}, Arrive(r)
    PROVE  MetrIInv'
<1>1. curve = <<>> /\ scan = NotScanned
  BY DEF MetrIInv
<1>2. request' = r /\ stage' \in {"refused", "busy"} /\ curve' = curve /\ scan' = scan
  BY DEF Arrive
<1>3. scan.seen = 0 /\ Len(curve) = 0
  BY <1>1 DEF NotScanned
<1>4. /\ curve' \in Seq(Point) /\ curve' = <<>> /\ Len(curve') = 0
      /\ scan' \in Scan /\ scan'.seen = 0
  BY <1>1, <1>2, <1>3 DEF MetrIInv
<1>5. ScanState(curve, scan)'
  <2>1. ScanState(curve, scan)
    BY DEF MetrIInv
  <2> QED
    BY <1>2, <2>1
<1>6. /\ stage' # "idle" /\ stage' # "answered" /\ stage' \in {"idle", "busy", "answered", "refused"}
      /\ request' \in CurveRequests \cup CompareRequests \cup {CardsRequest}
  BY <1>2
<1>7. \A k \in 1..Len(curve') : curve'[k] = PointAt(request', k)
  BY <1>4
<1> QED
  BY <1>4, <1>5, <1>6, <1>7 DEF MetrIInv

LEMMA AddPointKeeps ==
    ASSUME MetrIInv, AddPoint
    PROVE  MetrIInv'
<1>0. /\ stage = "busy" /\ Incomplete
      /\ curve \in Seq(Point) /\ Len(curve) \in Nat
      /\ scan \in Scan /\ scan.seen = 0
      /\ request \in CurveRequests \cup CompareRequests \cup {CardsRequest}
  BY DEF MetrIInv, AddPoint
<1>1. request \in CurveRequests
  <2>1. request.kind = "curve"
    BY <1>0 DEF Incomplete
  <2>2. ~(request \in CompareRequests) /\ request # CardsRequest
    BY <2>1, CompareRequestFields DEF CardsRequest
  <2> QED
    BY <1>0, <2>2
<1>2. stage' = stage /\ request' = request /\ scan' = scan /\ answer' = answer
  BY DEF AddPoint
<1>3. curve' = Append(curve, PointAt(request, Len(curve) + 1))
  <2>1. (Len(curve) + 1) - 1 = Len(curve)
    BY <1>0
  <2> QED
    BY <2>1 DEF AddPoint, PointAt
<1>4. PICK point \in Point : point = PointAt(request, Len(curve) + 1)
  BY <1>0, <1>1, PointOfCurve
<1>5. /\ curve' \in Seq(Point) /\ curve' # <<>> /\ Len(curve') = Len(curve) + 1
      /\ \A k \in 1..Len(curve) : curve'[k] = curve[k]
      /\ curve'[Len(curve) + 1] = point
  BY <1>0, <1>3, <1>4
<1>6. ASSUME NEW k \in 1..Len(curve') PROVE curve'[k] = PointAt(request, k)
  <2>1. k \in 1..Len(curve) \/ k = Len(curve) + 1
    BY <1>0, <1>5
  <2> QED
    BY <1>4, <1>5, <2>1 DEF MetrIInv
<1>7. ScanState(curve', scan)
  <2>1. ~scan.inZone /\ ListsZones(curve, scan.zones, {})
    <3>1. ScanState(curve, scan)
      BY <1>0 DEF MetrIInv
    <3>2. RunsOf(DeadOf(curve), 0) = {}
      BY DEF RunsOf
    <3>3. EndedRuns(DeadOf(curve), 0) = {} /\ OpenRuns(DeadOf(curve), 0) = {}
      BY <3>2 DEF EndedRuns, OpenRuns
    <3> QED
      BY <1>0, <3>1, <3>3 DEF ScanState
  <2>2. RunsOf(DeadOf(curve'), 0) = {}
    BY DEF RunsOf
  <2>3. /\ EndedRuns(DeadOf(curve'), scan.seen) = {}
        /\ OpenRuns(DeadOf(curve'), scan.seen) = {}
    BY <1>0, <2>2 DEF EndedRuns, OpenRuns
  <2>4. ListsZones(curve', scan.zones, {})
    BY <2>1 DEF ListsZones
  <2>5. scan.seen <= Len(curve')
    BY <1>0, <1>5
  <2> QED
    BY <1>0, <2>1, <2>3, <2>4, <2>5 DEF ScanState
<1>8. ScanState(curve, scan)' /\ (\A k \in 1..Len(curve) : curve[k] = PointAt(request, k))'
  BY <1>2, <1>6, <1>7
<1> QED
  BY <1>0, <1>1, <1>2, <1>5, <1>8 DEF MetrIInv

LEMMA ScanPointKeeps ==
    ASSUME MetrIInv, ScanPoint
    PROVE  MetrIInv'
<1>0. /\ stage = "busy" /\ request.kind = "curve" /\ ~Incomplete /\ scan.seen < Len(curve)
      /\ stage' = stage /\ request' = request /\ curve' = curve /\ answer' = answer
  BY DEF ScanPoint
<1>1. PICK s \in Scan : s = scan
  BY DEF MetrIInv
<1>2. IsCurve(curve) /\ Len(curve) \in Nat
  BY CurveOfRequest DEF IsCurve
<1>3. ScanState(curve, s)
  BY <1>0, <1>1 DEF MetrIInv
<1>4. PICK n \in Nat : n = s.seen /\ n + 1 \in 1..Len(curve) /\ n \in 0..Len(curve)
  BY <1>0, <1>1, <1>2 DEF Scan
<1>5. PICK point \in Point : point = curve[n + 1]
  BY <1>2, <1>4 DEF IsCurve
<1>6. /\ s.seen \in Nat /\ s.zones \in Seq(Zone) /\ s.inZone \in BOOLEAN
      /\ s.start \in Nat /\ s.peak \in Int
      /\ point.gross \in Nat /\ point.metr \in Int
  BY <1>1, <1>5 DEF Scan, Point
<1> DEFINE After(t) == t = scan' /\ t.seen = n + 1 /\ ScanState(curve, t)
<1>7. ASSUME point.metr >= DeadZone /\ ~s.inZone
      PROVE  \E t \in Scan : After(t)
  <2> DEFINE new == [seen |-> n + 1, zones |-> s.zones, inZone |-> TRUE, start |-> point.gross,
                   peak |-> point.metr]
  <2>1. scan' = new
    BY <1>0, <1>1, <1>4, <1>5, <1>7 DEF ScanPoint, Entered, Scan
  <2>2. new \in Scan
    BY <1>6 DEF Scan
  <2>3. /\ new.seen = s.seen + 1 /\ new.inZone /\ new.zones = s.zones
        /\ new.start = curve[s.seen + 1].gross /\ new.peak = curve[s.seen + 1].metr
    BY <1>4, <1>5
  <2> HIDE DEF new
  <2>4. ScanState(curve, new)
    BY <1>0, <1>1, <1>2, <1>3, <1>4, <1>5, <1>7, <2>2, <2>3, ScanEnters
  <2> QED
    BY <1>4, <2>1, <2>2, <2>3, <2>4
<1>8. ASSUME point.metr >= DeadZone /\ s.inZone
      PROVE  \E t \in Scan : After(t)
  <2> DEFINE new == [seen |-> n + 1, zones |-> s.zones, inZone |-> TRUE, start |-> s.start,
                   peak |-> Greater(s.peak, point.metr)]
  <2>1. scan' = new
    BY <1>0, <1>1, <1>4, <1>5, <1>8 DEF ScanPoint, Scan
  <2>2. new \in Scan
    <3>1. Greater(s.peak, point.metr) \in Int
      BY <1>6 DEF Greater
    <3> QED
      BY <1>6, <3>1 DEF Scan
  <2>3. /\ new.seen = s.seen + 1 /\ new.inZone /\ new.zones = s.zones
        /\ new.start = s.start /\ new.peak = Greater(s.peak, curve[s.seen + 1].metr)
    BY <1>4, <1>5
  <2> HIDE DEF new
  <2>4. ScanState(curve, new)
    BY <1>0, <1>1, <1>2, <1>3, <1>4, <1>5, <1>8, <2>2, <2>3, ScanGoesOn
  <2> QED
    BY <1>4, <2>1, <2>2, <2>3, <2>4
<1>9. ASSUME ~(point.metr >= DeadZone) /\ s.inZone
      PROVE  \E t \in Scan : After(t)
  <2> DEFINE last == [start |-> s.start, end |-> curve[n].gross, peak |-> s.peak]
             new == [seen |-> n + 1, zones |-> Append(s.zones, last), inZone |-> FALSE,
                   start |-> s.start, peak |-> s.peak]
  <2>1. scan' = new
    BY <1>0, <1>1, <1>4, <1>5, <1>9 DEF ScanPoint, Closed, Scan
  <2>2. new \in Scan
    <3>1. PICK run \in OpenRuns(DeadOf(curve), n) : TRUE
      BY <1>3, <1>4, <1>9 DEF ScanState
    <3>2. n # 0 /\ n \in 1..Len(curve)
      BY <1>4, <3>1, OpenLast
    <3>3. last \in Zone
      BY <1>2, <1>6, <3>2, DeadOrNot DEF Zone
    <3> HIDE DEF last
    <3>4. Append(s.zones, last) \in Seq(Zone)
      BY <1>6, <3>3
    <3> QED
      BY <1>6, <3>4 DEF Scan
  <2>3. /\ new.seen = s.seen + 1 /\ ~new.inZone
        /\ new.zones = Append(s.zones, [start |-> s.start, end |-> curve[s.seen].gross,
                                      peak |-> s.peak])
    BY <1>4
  <2> HIDE DEF new
  <2>4. ScanState(curve, new)
    BY <1>0, <1>1, <1>2, <1>3, <1>4, <1>5, <1>9, <2>2, <2>3, ScanCloses
  <2> QED
    BY <1>4, <2>1, <2>2, <2>3, <2>4
<1>10. ASSUME ~(point.metr >= DeadZone) /\ ~s.inZone
      PROVE  \E t \in Scan : After(t)
  <2> DEFINE new == [s EXCEPT !.seen = @ + 1]
  <2>1. scan' = new
    BY <1>0, <1>1, <1>4, <1>5, <1>10 DEF ScanPoint
  <2>2. new \in Scan
    BY <1>6 DEF Scan
  <2>3. new.seen = s.seen + 1 /\ ~new.inZone /\ new.zones = s.zones
    BY <1>10 DEF Scan
  <2> HIDE DEF new
  <2>4. ScanState(curve, new)
    BY <1>0, <1>1, <1>2, <1>3, <1>4, <1>5, <1>10, <2>2, <2>3, ScanPasses
  <2> QED
    BY <1>4, <2>1, <2>2, <2>3, <2>4
<1>11. PICK t \in Scan : t = scan' /\ t.seen = n + 1 /\ ScanState(curve, t)
  BY <1>7, <1>8, <1>9, <1>10
<1>12. ScanState(curve, scan)' /\ scan' \in Scan /\ Incomplete' = Incomplete
  BY <1>0, <1>11 DEF Incomplete
<1> QED
  BY <1>0, <1>12 DEF MetrIInv

LEMMA AnswerCurveKeeps ==
    ASSUME MetrIInv, AnswerCurve
    PROVE  MetrIInv'
<1>0. /\ stage = "busy" /\ request.kind = "curve" /\ ~Incomplete /\ scan.seen = Len(curve)
      /\ stage' = "answered" /\ request' = request /\ curve' = curve
  BY DEF AnswerCurve
<1>1. PICK s \in Scan : s = scan
  BY DEF MetrIInv
<1>2. IsCurve(curve) /\ Len(curve) \in Nat
  BY CurveOfRequest DEF IsCurve
<1>3. ScanState(curve, s)
  BY <1>0, <1>1 DEF MetrIInv
<1>4. PICK n \in Nat : n = s.seen /\ n = Len(curve) /\ n \in 0..Len(curve)
  BY <1>0, <1>1, <1>2
<1>5. /\ s.seen \in Nat /\ s.zones \in Seq(Zone) /\ s.inZone \in BOOLEAN
      /\ s.start \in Nat /\ s.peak \in Int
  BY DEF Scan
<1> DEFINE Final(new) == new = scan' /\ ListsZones(curve, new.zones, RunsOf(DeadOf(curve), n))
<1>6. ASSUME s.inZone PROVE \E new \in Scan : Final(new)
  <2> DEFINE last == [start |-> s.start, end |-> curve[n].gross, peak |-> s.peak]
             new == [seen |-> s.seen, zones |-> Append(s.zones, last), inZone |-> FALSE,
                     start |-> s.start, peak |-> s.peak]
  <2>1. scan' = new
    BY <1>0, <1>1, <1>4, <1>6 DEF AnswerCurve, Closed, Scan
  <2>2. PICK run \in OpenRuns(DeadOf(curve), n) :
          curve[run[1]].gross = s.start /\ IsPeak(curve, run, s.peak)
    BY <1>3, <1>4, <1>6 DEF ScanState
  <2>3. n # 0 /\ n \in 1..Len(curve)
    BY <1>4, <2>2, OpenLast
  <2>4. last \in Zone
    BY <1>2, <1>5, <2>3, DeadOrNot DEF Zone
  <2>5. ListsZones(curve, Append(s.zones, last), RunsOf(DeadOf(curve), n))
    <3>1. ListsZones(curve, s.zones, EndedRuns(DeadOf(curve), n))
      BY <1>3, <1>4 DEF ScanState
    <3> QED
      BY <1>2, <1>4, <2>2, <3>1, ZoneCloses
  <2> HIDE DEF last
  <2>6. Append(s.zones, last) \in Seq(Zone)
    BY <1>5, <2>4
  <2>7. new \in Scan
    BY <1>5, <2>6 DEF Scan
  <2>8. new.zones = Append(s.zones, last)
    OBVIOUS
  <2> HIDE DEF new
  <2> QED
    BY <2>1, <2>5, <2>7, <2>8
<1>7. ASSUME ~s.inZone PROVE \E new \in Scan : Final(new)
  <2>1. OpenRuns(DeadOf(curve), n) = {} /\ ListsZones(curve, s.zones, EndedRuns(DeadOf(curve), n))
    BY <1>3, <1>4, <1>7 DEF ScanState
  <2>2. RunsOf(DeadOf(curve), n) = EndedRuns(DeadOf(curve), n)
    BY <2>1 DEF OpenRuns, EndedRuns
  <2>3. scan' = s
    BY <1>0, <1>1, <1>7 DEF AnswerCurve
  <2> QED
    BY <2>1, <2>2, <2>3
<1>8. PICK new \in Scan : Final(new)
  BY <1>5, <1>6, <1>7
<1>9. PICK zones : zones = new.zones
  OBVIOUS
<1>10. ListsZones(curve, zones, RunsOf(DeadOf(curve), Len(curve)))
  BY <1>4, <1>8, <1>9
<1>11. /\ answer'.zones = zones
       /\ curve # <<>> => answer'.peak = [gross |-> curve[PeakPoint].gross,
                                          metr |-> curve[PeakPoint].metr]
       /\ answer'.cleared = {curve[i].gross : i \in Cleared(zones)}
  BY <1>8, <1>9 DEF AnswerCurve
<1>12. HighestOf(curve, answer'.peak)
  <2> SUFFICES ASSUME curve # <<>>
               PROVE  \E i \in DOMAIN curve :
                        /\ answer'.peak = [gross |-> curve[i].gross, metr |-> curve[i].metr]
                        /\ \A j \in DOMAIN curve :
                             /\ curve[j].metr <= curve[i].metr
                             /\ curve[j].metr = curve[i].metr => i <= j
    BY DEF HighestOf
  <2>1. DOMAIN curve = 1..Len(curve)
    BY <1>2 DEF IsCurve
  <2> QED
    BY <1>2, <1>11, <2>1, PeakPointHighest
<1>13. ASSUME NEW g \in answer'.cleared, NEW i \in 1..Len(curve), curve[i].gross >= g
       PROVE  i \notin DeadOf(curve)
  <2>1. PICK k \in Cleared(zones) : g = curve[k].gross
    BY <1>11
  <2>2. zones # <<>> /\ k \in 1..Len(curve) /\ curve[k].gross > zones[Len(zones)].end
    BY <1>2 DEF Cleared, IsCurve
  <2>3. zones[Len(zones)] \in Zone
    BY <1>10, <2>2 DEF ListsZones
  <2>4. curve[k].gross \in Nat /\ curve[i].gross \in Nat
    BY <1>2, <2>2, DeadOrNot
  <2>5. curve[i].gross > zones[Len(zones)].end
    BY <1>13, <2>1, <2>2, <2>3, <2>4 DEF Zone
  <2> QED
    BY <1>2, <1>10, <2>2, <2>5, NoneAfterLast
<1>14. CurveAnswered(curve, answer')
  BY <1>10, <1>11, <1>12, <1>13 DEF CurveAnswered
<1>15. CurveAnswered(curve, answer)' /\ scan' \in Scan /\ Incomplete' = Incomplete
  BY <1>0, <1>8, <1>14 DEF Incomplete
<1>16. OtherAnswered(request.kind, answer)'
  BY <1>0 DEF OtherAnswered
<1> QED
  BY <1>0, <1>15, <1>16 DEF MetrIInv

LEMMA AnswerAtOnceKeeps ==
    ASSUME MetrIInv, AnswerAtOnce
    PROVE  MetrIInv'
<1>0. /\ stage = "busy" /\ request.kind # "curve" /\ stage' = "answered"
      /\ request' = request /\ curve' = curve /\ scan' = scan
  BY DEF AnswerAtOnce
<1>1. /\ request.kind = "compare" =>
           answer' = RankProvinces(request.income, request.family, request.children,
                                   request.under6)
      /\ request.kind = "cards" => answer' = Cards
  <2>1. answer' = CASE request.kind = "calculate" -> Calculated(request)
                    [] request.kind = "compare" ->
                         RankProvinces(request.income, request.family, request.children,
                                       request.under6)
                    [] request.kind = "cards" -> Cards
    BY Zenon DEF AnswerAtOnce
  <2> QED
    BY Zenon, <2>1
<1>2. request.kind = "compare" => Ranked(answer')
  <2>1. request.kind = "compare" => request \in CompareRequests
    BY <1>0, CurveRequestFields DEF MetrIInv, CardsRequest
  <2> QED
    BY <1>1, <2>1, CompareRequestFields, ProvincesRanked
<1>3. ASSUME request.kind = "cards"
      PROVE  /\ Ranked(answer'.bars)
             /\ answer'.waterfall = Waterfall /\ answer'.slopes = Slopes
  <2>1. answer' = [hero |-> Hero, waterfall |-> Waterfall, slopes |-> Slopes,
                   bars |-> RankProvinces(47000, "single_parent", 2, 2)]
    BY <1>1, <1>3 DEF Cards
  <2>2. Ranked(RankProvinces(47000, "single_parent", 2, 2))
    <3>1. PICK income \in Nat, two \in Nat : income = 47000 /\ two = 2
      BY SMT
    <3>2. "single_parent" \in FamilyType
      BY DEF FamilyType
    <3>3. Ranked(RankProvinces(income, "single_parent", two, two))
      BY <3>2, ProvincesRanked
    <3> QED
      BY SMT, <3>1, <3>3
  <2> QED
    BY SMT, <2>1, <2>2
<1>4. OtherAnswered(request.kind, answer)'
  BY <1>0, <1>2, <1>3 DEF OtherAnswered
<1>5. Incomplete' = Incomplete
  BY <1>0 DEF Incomplete
<1> QED
  BY <1>0, <1>4, <1>5 DEF MetrIInv

\* What the invariant of the runs says follows.
LEMMA MetrIInvImplies ==
    ASSUME MetrIInv
    PROVE  MetrInv
<1>0. IsCurve(curve) /\ Len(curve) \in Nat /\ DOMAIN curve = 1..Len(curve)
  BY CurveOfRequest DEF IsCurve
<1>1. RaisesPay
  BY <1>0 DEF RaisesPay, IsCurve
<1>2. ASSUME NEW n \in 0..Len(curve), NEW run \in RunsOf(DeadOf(curve), n)
      PROVE  ZoneOf(run) = ZoneIn(curve, run)
  BY DEF ZoneOf, ZoneIn
<1>3. ScanInv
  <2> SUFFICES ASSUME stage = "busy"
               PROVE  LET ended == {run \in Runs(scan.seen) : run[2] < scan.seen}
                          open == Runs(scan.seen) \ ended
                      IN  /\ ZonesListed(scan.zones) = {ZoneOf(run) : run \in ended}
                          /\ Ascending(scan.zones)
                          /\ scan.inZone <=> open # {}
                          /\ \A run \in open : /\ ZoneOf(run).start = scan.start
                                               /\ ZoneOf(run).peak = scan.peak
    BY DEF ScanInv
  <2>1. ScanState(curve, scan) /\ scan \in Scan
    BY DEF MetrIInv
  <2>2. PICK n \in 0..Len(curve) : n = scan.seen
    BY <1>0, <2>1 DEF ScanState, Scan
  <2>3. Runs(n) = RunsOf(DeadOf(curve), n)
    BY <1>0, RunsOfCurve
  <2>4. /\ {run \in Runs(n) : run[2] < n} = EndedRuns(DeadOf(curve), n)
        /\ Runs(n) \ EndedRuns(DeadOf(curve), n) = OpenRuns(DeadOf(curve), n)
    BY <2>3 DEF EndedRuns, OpenRuns
  <2>5. ASSUME NEW run \in OpenRuns(DeadOf(curve), n)
        PROVE  ZoneOf(run).start = scan.start /\ ZoneOf(run).peak = scan.peak
    <3>1. run \in RunsOf(DeadOf(curve), n)
      BY DEF OpenRuns
    <3>2. curve[run[1]].gross = scan.start /\ IsPeak(curve, run, scan.peak)
      BY <2>1, <2>2 DEF ScanState
    <3>3. ZoneIn(curve, run) = [start |-> curve[run[1]].gross, end |-> curve[run[2]].gross,
                                peak |-> scan.peak]
      BY <1>0, <3>1, <3>2, PeakUnique
    <3> QED
      BY <1>2, <3>1, <3>2, <3>3
  <2>6. ListsZones(curve, scan.zones, EndedRuns(DeadOf(curve), n))
        /\ (scan.inZone <=> OpenRuns(DeadOf(curve), n) # {})
    BY <2>1, <2>2 DEF ScanState
  <2>7. \A run \in EndedRuns(DeadOf(curve), n) : ZoneOf(run) = ZoneIn(curve, run)
    BY <1>2 DEF EndedRuns
  <2>8. ZonesListed(scan.zones) = {ZoneOf(run) : run \in EndedRuns(DeadOf(curve), n)}
    BY <2>6, <2>7 DEF ListsZones
  <2> QED
    BY <2>2, <2>4, <2>5, <2>6, <2>8 DEF ListsZones
<1>4. CurveAnswerInv
  <2> SUFFICES ASSUME stage = "answered", request.kind = "curve"
               PROVE  /\ ZonesListed(answer.zones) = {ZoneOf(run) : run \in Runs(Len(curve))}
                      /\ Ascending(answer.zones)
                      /\ HighestOf(curve, answer.peak)
                      /\ \A g \in answer.cleared : \A i \in DOMAIN curve :
                           curve[i].gross >= g => ~Dead(i)
    BY DEF CurveAnswerInv
  <2>1. CurveAnswered(curve, answer)
    BY DEF MetrIInv
  <2>2. Runs(Len(curve)) = RunsOf(DeadOf(curve), Len(curve))
    BY <1>0, RunsOfCurve
  <2>3. \A run \in Runs(Len(curve)) : ZoneOf(run) = ZoneIn(curve, run)
    BY <1>0, <1>2, <2>2
  <2>4. ZonesListed(answer.zones) = {ZoneOf(run) : run \in Runs(Len(curve))}
    BY <2>1, <2>2, <2>3 DEF CurveAnswered, ListsZones
  <2>5. \A i \in DOMAIN curve : i \notin DeadOf(curve) => ~Dead(i)
    BY <1>0 DEF DeadOf, Dead
  <2> QED
    BY <1>0, <2>1, <2>4, <2>5 DEF CurveAnswered, ListsZones
<1>5. OtherAnswersInv
  <2>1. Waterfall.gain = Slopes[45000].gain
    BY SMT DEF Waterfall, Slopes
  <2>2. stage = "answered" => OtherAnswered(request.kind, answer)
    BY DEF MetrIInv
  <2> QED
    BY SMT, <2>1, <2>2, WaterfallAdds DEF OtherAnswered, OtherAnswersInv
<1> QED
  BY <1>1, <1>3, <1>4, <1>5 DEF MetrInv

\* The METR calculator (services/metr) answers right whatever curves and comparisons are asked
\* for: every curve rises in net income, the scan lists exactly the maximal dead runs, and the
\* comparison and the cards add up.
THEOREM MetrHolds == MetrSpec => []MetrInv
<1>1. MetrInit => MetrIInv
  BY MetrStarts
<1>2. MetrIInv /\ [MetrNext]_metrVars => MetrIInv'
  <2> SUFFICES ASSUME MetrIInv, [MetrNext]_metrVars PROVE MetrIInv'
    OBVIOUS
  <2>1. CASE stage = "idle" /\ \E r \in CurveRequests \cup CompareRequests \cup {CardsRequest} :
                                 Arrive(r)
    BY <2>1, ArriveKeeps
  <2>2. CASE AddPoint
    BY <2>2, AddPointKeeps
  <2>3. CASE ScanPoint
    BY <2>3, ScanPointKeeps
  <2>4. CASE AnswerCurve
    BY <2>4, AnswerCurveKeeps
  <2>5. CASE AnswerAtOnce
    BY <2>5, AnswerAtOnceKeeps
  <2>6. CASE UNCHANGED metrVars
    <3>1. /\ stage' = stage /\ request' = request /\ curve' = curve
          /\ scan' = scan /\ answer' = answer
      BY <2>6 DEF metrVars
    <3>2. Incomplete' = Incomplete
      BY <3>1 DEF Incomplete
    <3> QED
      BY <3>1, <3>2 DEF MetrIInv
  <2> QED
    BY <2>1, <2>2, <2>3, <2>4, <2>5, <2>6 DEF MetrNext
<1>3. MetrIInv => MetrInv
  BY MetrIInvImplies
<1> QED
  BY <1>1, <1>2, <1>3, PTL DEF MetrSpec

-----------------------------------------------------------------------------
(* Merged tables.                                                           *)

KeysOf(t) == {Key(r) : r \in t.rows}
\* The source cells of a row, and those a table has at a key.
CellsIn(row) == {row.vals[c] : c \in DOMAIN row.vals}
CellsOf(t, key) == (UNION {CellsIn(r) : r \in At(t, key)}) \ {Null}

LEMMA CellsAre ==
    ASSUME NEW t, NEW key, NEW x
    PROVE  x \in CellsOf(t, key)
             <=> x # Null /\ \E r \in t.rows : Key(r) = key /\ \E c \in DOMAIN r.vals : x = r.vals[c]
<1>1. \A r : x \in CellsIn(r) <=> \E c \in DOMAIN r.vals : x = r.vals[c]
  BY DEF CellsIn
<1>2. x \in CellsOf(t, key) <=> x # Null /\ \E r \in At(t, key) : x \in CellsIn(r)
  BY DEF CellsOf
<1> QED
  BY <1>1, <1>2 DEF At

LEMMA KeysAreFinite == ASSUME NEW t, Shaped(t) PROVE IsFiniteSet(KeysOf(t))
<1> DEFINE f == [r \in t.rows |-> Key(r)]
<1>1. f \in Surjection(t.rows, KeysOf(t))
  BY DEF KeysOf, Surjection
<1> QED
  BY <1>1, FS_Surjection DEF Shaped

\* The row of a key.
LEMMA RowOfKey ==
    ASSUME NEW t, UniqueKeys(t), NEW r \in t.rows
    PROVE  /\ At(t, Key(r)) = {r}
           /\ \A c : CellsAt(t, Key(r), c) = r.vals[c]
<1>1. At(t, Key(r)) = {r}
  BY DEF At, UniqueKeys
<1> QED
  BY <1>1 DEF CellsAt

LEMMA NoRowOfKey ==
    ASSUME NEW t, NEW key, key \notin KeysOf(t)
    PROVE  At(t, key) = {} /\ CellsOf(t, key) = {} /\ \A c : CellsAt(t, key, c) = Null
<1>1. At(t, key) = {}
  BY DEF At, KeysOf
<1> QED
  BY <1>1 DEF CellsAt, CellsOf

\* What stands in a row of a table is a cell of its key.
LEMMA CellOfKey ==
    ASSUME NEW t, Shaped(t), UniqueKeys(t), NEW key, NEW c \in t.columns, CellsAt(t, key, c) # Null
    PROVE  /\ CellsAt(t, key, c) \in CellsOf(t, key)
           /\ \E r \in t.rows : Key(r) = key /\ CellsAt(t, key, c) = r.vals[c]
<1>1. key \in KeysOf(t)
  BY NoRowOfKey
<1>2. PICK r \in t.rows : Key(r) = key
  BY <1>1 DEF KeysOf
<1>3. At(t, key) = {r} /\ CellsAt(t, key, c) = r.vals[c]
  BY <1>2, RowOfKey
<1>4. c \in DOMAIN r.vals
  BY DEF Shaped
<1> QED
  BY <1>2, <1>3, <1>4, CellsAre

\* A join, row by row.
JoinedRow(left, right, i, key) ==
    [month |-> key[1], geo |-> key[2],
     vals |-> [column \in left.columns \cup {Renamed(left, c, i) : c \in right.columns} |->
                 IF column \in left.columns THEN CellsAt(left, key, column)
                 ELSE CellsAt(right, key, CHOOSE c \in right.columns : Renamed(left, c, i) = column)]]

LEMMA JoinRows ==
    ASSUME NEW left, NEW right, NEW how, NEW i, Shaped(left)
    PROVE  /\ DOMAIN Join(left, right, how, i) = {"columns", "geo", "dated", "rows"}
           /\ Join(left, right, how, i).columns
                = left.columns \cup {Renamed(left, c, i) : c \in right.columns}
           /\ Join(left, right, how, i).rows
                = {JoinedRow(left, right, i, key) : key \in JoinedKeys(left, right, how)}
BY DEF Join, Shaped, JoinedRow

LEMMA KeysToJoin ==
    ASSUME NEW left, NEW right, NEW how
    PROVE  /\ JoinedKeys(left, right, how) \subseteq KeysOf(left) \cup KeysOf(right)
           /\ how = "inner" => JoinedKeys(left, right, how) = KeysOf(left) \cap KeysOf(right)
           /\ how = "left" => JoinedKeys(left, right, how) = KeysOf(left)
           /\ how \notin {"inner", "left"} => JoinedKeys(left, right, how) = KeysOf(left) \cup KeysOf(right)
BY Zenon DEF JoinedKeys, KeysOf

LEMMA KeyIsPair ==
    ASSUME NEW t, NEW key \in KeysOf(t)
    PROVE  key = <<key[1], key[2]>>
BY DEF KeysOf, Key

LEMMA JoinKeys ==
    ASSUME NEW left, NEW right, NEW how, NEW i, Shaped(left)
    PROVE  /\ KeysOf(Join(left, right, how, i)) = JoinedKeys(left, right, how)
           /\ UniqueKeys(Join(left, right, how, i))
           /\ \A key \in JoinedKeys(left, right, how) :
                /\ Key(JoinedRow(left, right, i, key)) = key
                /\ At(Join(left, right, how, i), key) = {JoinedRow(left, right, i, key)}
<1>1. ASSUME NEW key \in JoinedKeys(left, right, how) PROVE Key(JoinedRow(left, right, i, key)) = key
  <2>1. key = <<key[1], key[2]>>
    BY KeysToJoin, KeyIsPair
  <2> QED
    BY <2>1 DEF Key, JoinedRow
<1> DEFINE row(key) == JoinedRow(left, right, i, key)
           joined == Join(left, right, how, i)
<1>2. joined.rows = {row(key) : key \in JoinedKeys(left, right, how)}
  BY JoinRows
<1> HIDE DEF row, joined
<1>3. \A key \in JoinedKeys(left, right, how) : Key(row(key)) = key
  BY <1>1 DEF row
<1>4. KeysOf(joined) = JoinedKeys(left, right, how) /\ UniqueKeys(joined)
  BY <1>2, <1>3 DEF KeysOf, UniqueKeys
<1>5. \A key \in JoinedKeys(left, right, how) : At(joined, key) = {row(key)}
  BY <1>2, <1>3 DEF At
<1> QED
  BY <1>3, <1>4, <1>5 DEF row, joined

\* A join keeps the shape, and the cells of a key are those that both sides have there.
LEMMA JoinShape ==
    ASSUME NEW left, NEW right, NEW how, NEW i, Shaped(left), Shaped(right)
    PROVE  Shaped(Join(left, right, how, i))
<1> DEFINE joined == Join(left, right, how, i)
           keys == JoinedKeys(left, right, how)
           f == [key \in keys |-> JoinedRow(left, right, i, key)]
<1>1. /\ DOMAIN joined = {"columns", "geo", "dated", "rows"}
      /\ joined.columns = left.columns \cup {Renamed(left, c, i) : c \in right.columns}
      /\ joined.rows = {JoinedRow(left, right, i, key) : key \in keys}
  BY JoinRows
<1>2. IsFiniteSet(keys)
  <2>1. IsFiniteSet(KeysOf(left) \cup KeysOf(right))
    BY KeysAreFinite, FS_Union
  <2>2. keys \in SUBSET (KeysOf(left) \cup KeysOf(right))
    BY KeysToJoin
  <2> QED
    BY <2>1, <2>2, FS_Subset
<1>3. IsFiniteSet(joined.rows)
  <2>1. f \in Surjection(keys, joined.rows)
    BY <1>1 DEF Surjection
  <2> QED
    BY <1>2, <2>1, FS_Surjection
<1>4. ASSUME NEW key \in keys
      PROVE  /\ DOMAIN JoinedRow(left, right, i, key) = {"month", "geo", "vals"}
             /\ JoinedRow(left, right, i, key).month \in Int
             /\ DOMAIN JoinedRow(left, right, i, key).vals = joined.columns
  <2>1. key[1] \in Int
    <3>1. PICK r \in left.rows \cup right.rows : key = Key(r)
      BY KeysToJoin DEF KeysOf
    <3> QED
      BY <3>1 DEF Key, Shaped
  <2> QED
    BY <1>1, <2>1 DEF JoinedRow
<1> HIDE DEF joined, keys
<1> QED
  BY <1>1, <1>3, <1>4 DEF Shaped, joined

LEMMA JoinCells ==
    ASSUME NEW left, NEW right, NEW how, NEW i, Shaped(left), Shaped(right),
           UniqueKeys(left), UniqueKeys(right), ~RenameFails(left, right, i),
           NEW key \in JoinedKeys(left, right, how)
    PROVE  CellsOf(Join(left, right, how, i), key) = CellsOf(left, key) \cup CellsOf(right, key)
<1> DEFINE columns == left.columns \cup {Renamed(left, c, i) : c \in right.columns}
           original(column) == CHOOSE c \in right.columns : Renamed(left, c, i) = column
           cell(column) == IF column \in left.columns THEN CellsAt(left, key, column)
                           ELSE CellsAt(right, key, original(column))
<1>1. CellsOf(Join(left, right, how, i), key) = {cell(c) : c \in columns} \ {Null}
  <2>1. At(Join(left, right, how, i), key) = {JoinedRow(left, right, i, key)}
    BY JoinKeys
  <2>2. JoinedRow(left, right, i, key).vals = [c \in columns |-> cell(c)]
    BY DEF JoinedRow
  <2>3. \A r : r \in At(Join(left, right, how, i), key) <=> r = JoinedRow(left, right, i, key)
    BY <2>1
  <2> HIDE DEF cell, columns
  <2>4. \A x : x \in CellsOf(Join(left, right, how, i), key) <=> x # Null /\ \E c \in columns : x = cell(c)
    <3>1. \A x : x \in CellsOf(Join(left, right, how, i), key)
                 <=> x # Null /\ \E c \in DOMAIN JoinedRow(left, right, i, key).vals :
                                   x = JoinedRow(left, right, i, key).vals[c]
      BY <2>3, CellsAre DEF At
    <3> QED
      BY <2>2, <3>1
  <2> QED
    BY <2>4
<1>2. ASSUME NEW d \in right.columns
      PROVE  /\ Renamed(left, d, i) \in columns /\ Renamed(left, d, i) \notin left.columns
             /\ original(Renamed(left, d, i)) = d
  BY DEF RenameFails
<1>3. ASSUME NEW c \in columns, c \notin left.columns
      PROVE  original(c) \in right.columns
  BY <1>3
<1>4. ASSUME NEW x \in {cell(c) : c \in columns} \ {Null}
      PROVE  x \in CellsOf(left, key) \cup CellsOf(right, key)
  <2>1. PICK c \in columns : x = cell(c) /\ x # Null
    BY <1>4
  <2>2. CASE c \in left.columns
    BY <2>1, <2>2, CellOfKey
  <2>3. CASE c \notin left.columns
    <3>1. original(c) \in right.columns /\ x = CellsAt(right, key, original(c))
      BY <1>3, <2>1, <2>3
    <3> QED
      BY <2>1, <3>1, CellOfKey
  <2> QED
    BY <2>2, <2>3
<1>5. ASSUME NEW x \in CellsOf(left, key)
      PROVE  x \in {cell(c) : c \in columns} \ {Null}
  <2>1. PICK r \in left.rows : Key(r) = key /\ (\E c \in DOMAIN r.vals : x = r.vals[c]) /\ x # Null
    BY <1>5, CellsAre
  <2>2. PICK c \in left.columns : x = r.vals[c]
    BY <2>1 DEF Shaped
  <2>3. cell(c) = x /\ c \in columns
    BY <2>1, <2>2, RowOfKey
  <2> QED
    BY <2>1, <2>3
<1>6. ASSUME NEW x \in CellsOf(right, key)
      PROVE  x \in {cell(c) : c \in columns} \ {Null}
  <2>1. PICK r \in right.rows : Key(r) = key /\ (\E c \in DOMAIN r.vals : x = r.vals[c]) /\ x # Null
    BY <1>6, CellsAre
  <2>2. PICK d \in right.columns : x = r.vals[d]
    BY <2>1 DEF Shaped
  <2>3. CellsAt(right, key, d) = x
    BY <2>1, <2>2, RowOfKey
  <2>4. cell(Renamed(left, d, i)) = x /\ Renamed(left, d, i) \in columns
    BY <1>2, <2>3
  <2> HIDE DEF cell, columns
  <2> QED
    BY <2>1, <2>4
<1> HIDE DEF cell, columns, original
<1> QED
  BY <1>1, <1>4, <1>5, <1>6

LEMMA JoinLocated ==
    ASSUME NEW left, NEW right, NEW how, NEW i, Shaped(left), Shaped(right),
           UniqueKeys(left), UniqueKeys(right), Located(left), Located(right)
    PROVE  Located(Join(left, right, how, i))
<1> DEFINE joined == Join(left, right, how, i)
<1> SUFFICES ASSUME NEW r \in joined.rows, NEW c \in joined.columns, r.vals[c].op = "cell"
             PROVE  Tail(r.vals[c].at) = <<r.month, r.geo>>
  BY DEF Located
<1>1. PICK key \in JoinedKeys(left, right, how) : r = JoinedRow(left, right, i, key)
  BY JoinRows
<1>2. r.month = key[1] /\ r.geo = key[2]
  BY <1>1 DEF JoinedRow
<1>3. key = <<r.month, r.geo>>
  <2>1. key = <<key[1], key[2]>>
    BY KeysToJoin, KeyIsPair
  <2> QED
    BY <1>2, <2>1
<1>4. r.vals[c] # Null
  BY DEF Null, Cell
<1>5. ASSUME NEW t, Shaped(t), UniqueKeys(t), Located(t), NEW d \in t.columns, r.vals[c] = CellsAt(t, key, d)
      PROVE  Tail(r.vals[c].at) = <<r.month, r.geo>>
  <2>1. PICK s \in t.rows : Key(s) = key /\ r.vals[c] = s.vals[d]
    BY <1>4, <1>5, CellOfKey
  <2>2. Tail(s.vals[d].at) = <<s.month, s.geo>>
    BY <1>5, <2>1 DEF Located
  <2> QED
    BY <1>3, <2>1, <2>2 DEF Key
<1>6. CASE c \in left.columns
  <2>1. r.vals[c] = CellsAt(left, key, c)
    BY <1>1, <1>6 DEF JoinedRow
  <2> QED
    BY <1>5, <1>6, <2>1
<1>7. CASE c \notin left.columns
  <2>1. PICK d : d = CHOOSE e \in right.columns : Renamed(left, e, i) = c
    OBVIOUS
  <2>2. c \in {Renamed(left, e, i) : e \in right.columns}
    BY <1>7, JoinRows
  <2>3. d \in right.columns
    BY <2>1, <2>2
  <2>4. r.vals[c] = CellsAt(right, key, d)
    BY <1>1, <1>7, <2>1, <2>2 DEF JoinedRow
  <2> QED
    BY <1>5, <2>3, <2>4
<1> QED
  BY <1>6, <1>7

\* The loop of merge_cubes over the tables.
LEMMA MergeTurns ==
    ASSUME NEW tables, NEW how, NEW n \in Nat \ {0}, Len(tables) = n
    PROVE  /\ MergeCubes(tables, how)[1] = tables[1]
           /\ \A k \in 2..n : MergeCubes(tables, how)[k]
                                = Join(MergeCubes(tables, how)[k - 1], tables[k], how, k - 1)
<1> DEFINE next(f, k) == Join(f[k - 1], tables[k], how, k - 1)
           Body(f) == [k \in 1..n |-> IF k = 1 THEN tables[1] ELSE next(f, k)]
           merged == CHOOSE f : f = Body(f)
           Upto(f, m) == /\ f = [k \in 1..m |-> f[k]]
                         /\ \A k \in 1..m : f[k] = IF k = 1 THEN tables[1] ELSE next(f, k)
           Kept == {m \in 0..n : \E f : Upto(f, m)}
<1>1. 0 \in Kept
  <2> DEFINE none == [k \in 1..0 |-> 0]
  <2>1. none = [k \in 1..0 |-> none[k]] /\ \A k \in 1..0 : FALSE
    OBVIOUS
  <2> HIDE DEF none, next
  <2>2. Upto(none, 0)
    BY <2>1
  <2> HIDE DEF Upto
  <2> QED
    BY <2>2
<1>2. ASSUME NEW m \in 1..n, m - 1 \in Kept PROVE m \in Kept
  <2>1. PICK f : Upto(f, m - 1)
    BY <1>2
  <2> DEFINE last == IF m = 1 THEN tables[1] ELSE next(f, m)
             g == [k \in 1..m |-> IF k = m THEN last ELSE f[k]]
  <2> HIDE DEF last
  <2>2. \A k \in 1..m - 1 : f[k] = IF k = 1 THEN tables[1] ELSE next(f, k)
    BY <2>1
  <2>3. ASSUME NEW k \in 1..m PROVE g[k] = IF k = 1 THEN tables[1] ELSE next(g, k)
    <3>1. k # 1 => g[k - 1] = f[k - 1]
      OBVIOUS
    <3>2. k # 1 => next(g, k) = next(f, k)
      BY <3>1
    <3>3. CASE k = m
      <4>1. g[k] = last
        BY <3>3
      <4> QED
        BY <3>2, <3>3, <4>1 DEF last
    <3>4. CASE k # m
      <4>1. k \in 1..m - 1 /\ g[k] = f[k]
        BY <3>4
      <4> QED
        BY <2>2, <3>2, <4>1
    <3> QED
      BY <3>3, <3>4
  <2>4. g = [k \in 1..m |-> g[k]]
    OBVIOUS
  <2> HIDE DEF g, next
  <2>5. Upto(g, m)
    BY <2>3, <2>4
  <2> QED
    BY <2>5
<1>3. n \in Kept
  <2> HIDE DEF Kept
  <2> QED
    BY <1>1, <1>2, KeptByLoop
<1>4. PICK f : Upto(f, n)
  BY <1>3
<1>5. f = Body(f)
  <2>1. [k \in 1..n |-> f[k]] = Body(f)
    <3> HIDE DEF next
    <3> QED
      BY <1>4
  <2>2. f = [k \in 1..n |-> f[k]]
    BY <1>4
  <2> QED
    BY <2>1, <2>2
<1>6. merged = Body(merged)
  <2> HIDE DEF Body
  <2> QED
    BY <1>5
<1>7. MergeCubes(tables, how) = merged
  BY DEF MergeCubes
<1> HIDE DEF merged
<1>8. \A k \in 1..n : merged[k] = IF k = 1 THEN tables[1] ELSE next(merged, k)
  <2> HIDE DEF next
  <2> QED
    BY <1>6
<1>9. 1 \in 1..n /\ \A k \in 2..n : k \in 1..n /\ k # 1
  OBVIOUS
<1> QED
  BY <1>7, <1>8, <1>9

\* The keys that a join type promises of the first n tables.
Promised(tables, how, n) ==
    CASE how = "inner" -> {k \in KeysOf(tables[1]) : \A i \in 1..n : k \in KeysOf(tables[i])}
      [] how = "left" -> KeysOf(tables[1])
      [] OTHER -> UNION {KeysOf(tables[i]) : i \in 1..n}

LEMMA PromisedByType ==
    ASSUME NEW tables, NEW how, NEW n
    PROVE  /\ how = "inner" => Promised(tables, how, n)
                                 = {k \in KeysOf(tables[1]) : \A i \in 1..n : k \in KeysOf(tables[i])}
           /\ how = "left" => Promised(tables, how, n) = KeysOf(tables[1])
           /\ how \notin {"inner", "left"} => Promised(tables, how, n) = UNION {KeysOf(tables[i]) : i \in 1..n}
BY Zenon DEF Promised

LEMMA PromisedNext ==
    ASSUME NEW tables, NEW how, NEW n \in Nat \ {0, 1}, NEW left, KeysOf(left) = Promised(tables, how, n - 1)
    PROVE  /\ JoinedKeys(left, tables[n], how) = Promised(tables, how, n)
           /\ \A key \in JoinedKeys(left, tables[n], how) \ KeysOf(left) :
                \A i \in 1..n - 1 : key \notin KeysOf(tables[i])
<1>1. 1..n = (1..n - 1) \cup {n} /\ 1 \in 1..n - 1
  OBVIOUS
<1>2. CASE how = "inner"
  <2>1. KeysOf(left) = {k \in KeysOf(tables[1]) : \A i \in 1..n - 1 : k \in KeysOf(tables[i])}
    BY <1>2, PromisedByType
  <2>2. JoinedKeys(left, tables[n], how) = KeysOf(left) \cap KeysOf(tables[n])
    BY <1>2, KeysToJoin
  <2>3. Promised(tables, how, n) = {k \in KeysOf(tables[1]) : \A i \in 1..n : k \in KeysOf(tables[i])}
    BY <1>2, PromisedByType
  <2> QED
    BY Zenon, <1>1, <2>1, <2>2, <2>3
<1>3. CASE how = "left"
  <2>1. KeysOf(left) = KeysOf(tables[1]) /\ Promised(tables, how, n) = KeysOf(tables[1])
    BY <1>3, PromisedByType
  <2>2. JoinedKeys(left, tables[n], how) = KeysOf(left)
    BY <1>3, KeysToJoin
  <2> QED
    BY <2>1, <2>2
<1>4. CASE how \notin {"inner", "left"}
  <2>1. KeysOf(left) = UNION {KeysOf(tables[i]) : i \in 1..n - 1}
    BY <1>4, PromisedByType
  <2>2. JoinedKeys(left, tables[n], how) = KeysOf(left) \cup KeysOf(tables[n])
    BY <1>4, KeysToJoin
  <2>3. Promised(tables, how, n) = UNION {KeysOf(tables[i]) : i \in 1..n}
    BY <1>4, PromisedByType
  <2> QED
    BY Zenon, <1>1, <2>1, <2>2, <2>3
<1> QED
  BY <1>2, <1>3, <1>4

\* The result of the first n tables.
MergedOK(tables, how, n, t) ==
    /\ Shaped(t) /\ UniqueKeys(t) /\ Located(t)
    /\ KeysOf(t) = Promised(tables, how, n)
    /\ \A key \in KeysOf(t) : CellsOf(t, key) = UNION {CellsOf(tables[i], key) : i \in 1..n}

LEMMA MergeKeeps ==
    ASSUME NEW tables, NEW how, NEW N \in Nat \ {0}, Len(tables) = N,
           \A i \in 1..N : Shaped(tables[i]) /\ UniqueKeys(tables[i]) /\ Located(tables[i]),
           \A n \in 2..N : ~RenameFails(MergeCubes(tables, how)[n - 1], tables[n], n - 1)
    PROVE  MergedOK(tables, how, N, MergeCubes(tables, how)[N])
<1> DEFINE merged == MergeCubes(tables, how)
           Kept == {n \in 0..N : n # 0 => MergedOK(tables, how, n, merged[n])}
<1>0. /\ merged[1] = tables[1]
      /\ \A k \in 2..N : merged[k] = Join(merged[k - 1], tables[k], how, k - 1)
  BY MergeTurns
<1> HIDE DEF merged
<1>1. 0 \in Kept
  OBVIOUS
<1>2. ASSUME NEW n \in 1..N, n - 1 \in Kept PROVE n \in Kept
  <2>1. CASE n = 1
    <3>1. Shaped(tables[1]) /\ UniqueKeys(tables[1]) /\ Located(tables[1])
      OBVIOUS
    <3>2. Promised(tables, how, 1) = KeysOf(tables[1])
      <4>1. 1..1 = {1}
        OBVIOUS
      <4>2. /\ {k \in KeysOf(tables[1]) : \A i \in 1..1 : k \in KeysOf(tables[i])} = KeysOf(tables[1])
            /\ UNION {KeysOf(tables[i]) : i \in 1..1} = KeysOf(tables[1])
        BY Zenon, <4>1
      <4> QED
        BY <4>2, PromisedByType
    <3>3. \A key : CellsOf(tables[1], key) = UNION {CellsOf(tables[i], key) : i \in 1..1}
      <4>1. 1..1 = {1}
        OBVIOUS
      <4> QED
        BY Zenon, <4>1
    <3>4. MergedOK(tables, how, 1, tables[1])
      BY <3>1, <3>2, <3>3 DEF MergedOK
    <3> QED
      BY <1>0, <2>1, <3>4
  <2>2. CASE n # 1
    <3>0. n \in 2..N /\ n \in Nat \ {0, 1}
      BY <2>2
    <3>1. PICK left : left = merged[n - 1]
      OBVIOUS
    <3>2. PICK right : right = tables[n]
      OBVIOUS
    <3>3. /\ Shaped(left) /\ UniqueKeys(left) /\ Located(left)
          /\ KeysOf(left) = Promised(tables, how, n - 1)
          /\ \A key \in KeysOf(left) : CellsOf(left, key) = UNION {CellsOf(tables[i], key) : i \in 1..n - 1}
      <4>1. MergedOK(tables, how, n - 1, left)
        BY <1>2, <3>0, <3>1
      <4> QED
        BY <4>1 DEF MergedOK
    <3>4. /\ Shaped(right) /\ UniqueKeys(right) /\ Located(right)
          /\ ~RenameFails(left, right, n - 1)
      BY <3>0, <3>1, <3>2 DEF merged
    <3>5. merged[n] = Join(left, right, how, n - 1)
      BY <1>0, <3>0, <3>1, <3>2
    <3>6. PICK t : t = Join(left, right, how, n - 1)
      OBVIOUS
    <3>7. /\ Shaped(t) /\ UniqueKeys(t) /\ Located(t)
          /\ KeysOf(t) = JoinedKeys(left, right, how)
      BY <3>3, <3>4, <3>6, JoinShape, JoinKeys, JoinLocated
    <3>8. /\ KeysOf(t) = Promised(tables, how, n)
          /\ \A key \in KeysOf(t) \ KeysOf(left) : \A i \in 1..n - 1 : key \notin KeysOf(tables[i])
      BY <3>0, <3>2, <3>3, <3>7, PromisedNext
    <3>9. ASSUME NEW key \in KeysOf(t)
          PROVE  CellsOf(t, key) = UNION {CellsOf(tables[i], key) : i \in 1..n}
      <4>1. CellsOf(t, key) = CellsOf(left, key) \cup CellsOf(right, key)
        BY <3>3, <3>4, <3>6, <3>7, JoinCells
      <4>2. CellsOf(left, key) = UNION {CellsOf(tables[i], key) : i \in 1..n - 1}
        <5>1. CASE key \in KeysOf(left)
          BY <3>3, <5>1
        <5>2. CASE key \notin KeysOf(left)
          <6>1. CellsOf(left, key) = {}
            BY <5>2, NoRowOfKey
          <6>2. \A i \in 1..n - 1 : CellsOf(tables[i], key) = {}
            BY <3>8, <5>2, NoRowOfKey
          <6> QED
            BY <6>1, <6>2
        <5> QED
          BY <5>1, <5>2
      <4>3. 1..n = (1..n - 1) \cup {n}
        BY <3>0
      <4> QED
        BY Zenon, <3>2, <4>1, <4>2, <4>3
    <3>10. MergedOK(tables, how, n, t)
      BY <3>7, <3>8, <3>9 DEF MergedOK
    <3> QED
      BY <3>5, <3>6, <3>10
  <2> QED
    BY <2>1, <2>2
<1>3. N \in Kept
  <2> HIDE DEF Kept
  <2> QED
    BY <1>1, <1>2, KeptByLoop
<1> QED
  BY <1>3 DEF merged

-----------------------------------------------------------------------------
(* Changes.                                                                 *)

\* Orders of rows are numbers.
LEMMA TiesAreNumbers ==
    ASSUME NEW t, IsFiniteSet(t.rows), NEW tie \in Ties(t), NEW r \in t.rows
    PROVE  tie[r] \in Int
<1> DEFINE n == Cardinality(t.rows)
           Numbers(p) == p \in [t.rows -> 1..n] /\ \A s, u \in t.rows : p[s] = p[u] => s = u
           position == CHOOSE p \in [t.rows -> 1..n] : \A s, u \in t.rows : p[s] = p[u] => s = u
<1>1. n \in Nat /\ ExistsBijection(1..n, t.rows)
  BY FS_CardinalityType
<1>2. \E p : Numbers(p)
  <2>1. PICK f : f \in [1..n -> t.rows] /\ \A s \in t.rows : \E i \in 1..n : f[i] = s
    BY <1>1 DEF ExistsBijection, Bijection, Surjection
  <2> DEFINE p == [s \in t.rows |-> CHOOSE i \in 1..n : f[i] = s]
  <2>2. \A s \in t.rows : p[s] \in 1..n /\ f[p[s]] = s
    BY <2>1
  <2>3. p \in [t.rows -> 1..n]
    BY <2>2
  <2> HIDE DEF p
  <2> QED
    BY <2>2, <2>3
<1>3. position \in [t.rows -> 1..n]
  BY <1>2
<1>4. tie = position \/ tie = [s \in t.rows |-> 0 - position[s]]
  BY Zenon DEF Ties
<1> HIDE DEF position
<1>5. position[r] \in Int
  BY <1>1, <1>3
<1> QED
  BY <1>4, <1>5


\* The rows that are compared are of one geography.
OneSeries(t, op) == op.grouped \/ \A r, s \in t.rows : r.geo = s.geo
EarlierPeers(t, op, r) == {s \in Peers(t, op, r) : s.month < r.month}

LEMMA PlaceCounts ==
    ASSUME NEW t, Shaped(t), UniqueKeys(t), NEW op, OneSeries(t, op), NEW tie \in Ties(t), NEW r \in t.rows
    PROVE  /\ Place(t, op, r, tie) = Cardinality(EarlierPeers(t, op, r))
           /\ IsFiniteSet(EarlierPeers(t, op, r))
           /\ \A s \in Peers(t, op, r) : s \in t.rows /\ s.geo = r.geo
<1>1. \A s \in Peers(t, op, r) : s \in t.rows /\ s.geo = r.geo
  BY DEF Peers, OneSeries
<1>2. ASSUME NEW s \in Peers(t, op, r) PROVE Before(s, r, tie) <=> s.month < r.month
  <2>1. s.month \in Int /\ r.month \in Int /\ tie[r] \in Int
    BY <1>1, TiesAreNumbers DEF Shaped
  <2>2. s.month = r.month => s = r
    BY <1>1 DEF UniqueKeys, Key
  <2> QED
    BY <2>1, <2>2 DEF Before
<1>3. {s \in Peers(t, op, r) : Before(s, r, tie)} = EarlierPeers(t, op, r)
  BY <1>2 DEF EarlierPeers
<1>4. IsFiniteSet(EarlierPeers(t, op, r))
  <2>1. EarlierPeers(t, op, r) \in SUBSET t.rows
    BY <1>1 DEF EarlierPeers
  <2> QED
    BY <2>1, FS_Subset DEF Shaped
<1> QED
  BY <1>1, <1>3, <1>4 DEF Place

\* Places of one series are as far apart as the months.
LEMMA PlacesApart ==
    ASSUME NEW t, Shaped(t), Complete(t), NEW op, OneSeries(t, op), NEW tie \in Ties(t),
           NEW r \in t.rows, NEW s \in Peers(t, op, r), s.month <= r.month
    PROVE  /\ Place(t, op, r, tie) \in Nat /\ Place(t, op, s, tie) \in Nat
           /\ Place(t, op, r, tie) = Place(t, op, s, tie) + (r.month - s.month)
<1> DEFINE peers == Peers(t, op, r)
           between == {x \in peers : s.month <= x.month /\ x.month < r.month}
           f == [x \in between |-> x.month]
<1>0. UniqueKeys(t)
  BY DEF Complete
<1>1. /\ s \in t.rows /\ s.geo = r.geo
      /\ \A x \in peers : x \in t.rows /\ x.geo = r.geo
  BY <1>0, PlaceCounts
<1>2. Peers(t, op, s) = peers
  BY <1>1 DEF Peers
<1>3. r.month \in Int /\ s.month \in Int /\ \A x \in peers : x.month \in Int
  BY <1>1 DEF Shaped
<1>4. f \in Bijection(between, s.month..r.month - 1)
  <2>1. f \in [between -> s.month..r.month - 1]
    BY <1>3
  <2>2. \A x, y \in between : f[x] = f[y] => x = y
    BY <1>0, <1>1 DEF UniqueKeys, Key
  <2>3. ASSUME NEW m \in s.month..r.month - 1 PROVE \E x \in between : f[x] = m
    <3>1. m \in s.month..r.month
      BY <1>3
    <3>2. At(t, <<m, s.geo>>) # {}
      BY <1>1, <3>1 DEF Complete
    <3>3. PICK x \in t.rows : Key(x) = <<m, s.geo>>
      BY <3>2 DEF At
    <3>4. x.month = m /\ x.geo = r.geo
      BY <1>1, <3>3 DEF Key
    <3>5. x \in between
      BY <1>3, <3>4 DEF Peers
    <3> QED
      BY <3>4, <3>5
  <2> HIDE DEF f, between
  <2>4. f \in Injection(between, s.month..r.month - 1)
    BY <2>1, <2>2 DEF Injection, IsInjective
  <2>5. f \in Surjection(between, s.month..r.month - 1)
    BY <2>1, <2>3 DEF Surjection
  <2> QED
    BY <2>4, <2>5 DEF Bijection
<1>5. IsFiniteSet(between)
  <2>1. between \in SUBSET t.rows
    BY <1>1
  <2> HIDE DEF between
  <2> QED
    BY <2>1, FS_Subset DEF Shaped
<1>6. Cardinality(between) = r.month - s.month
  <2> DEFINE months == s.month..r.month - 1
  <2>1. ExistsBijection(between, months)
    BY <1>4 DEF ExistsBijection
  <2>2. Cardinality(months) = IF s.month > r.month - 1 THEN 0 ELSE r.month - 1 - s.month + 1
    BY <1>3, FS_Interval
  <2>3. Cardinality(months) = r.month - s.month
    BY <1>3, <2>2
  <2> HIDE DEF between, months
  <2> QED
    BY <1>5, <2>1, <2>3, FS_Bijection
<1>7. EarlierPeers(t, op, r) = EarlierPeers(t, op, s) \cup between
      /\ EarlierPeers(t, op, s) \cap between = {}
  BY <1>2, <1>3 DEF EarlierPeers
<1> HIDE DEF between
<1>8. /\ Place(t, op, r, tie) = Cardinality(EarlierPeers(t, op, r))
      /\ Place(t, op, s, tie) = Cardinality(EarlierPeers(t, op, s))
      /\ IsFiniteSet(EarlierPeers(t, op, s)) /\ IsFiniteSet(EarlierPeers(t, op, r))
  BY <1>0, <1>1, PlaceCounts
<1>9. Cardinality(EarlierPeers(t, op, s) \cup between)
        = Cardinality(EarlierPeers(t, op, s)) + Cardinality(between) - Cardinality({})
  BY <1>5, <1>7, <1>8, FS_Union
<1>10. Cardinality({}) = 0
  BY FS_EmptySet
<1>11. Place(t, op, r, tie) \in Nat /\ Place(t, op, s, tie) \in Nat
  BY <1>8, FS_CardinalityType
<1> QED
  BY <1>3, <1>6, <1>7, <1>8, <1>9, <1>10, <1>11

LEMMA ShiftIsInteger == ASSUME NEW op PROVE Shift(op) \in Nat
BY WorkbenchConstants DEF Shift

\* What a row is compared with is the row of its geography so many months earlier.
LEMMA ShiftedIsEarlier ==
    ASSUME NEW t, Shaped(t), Complete(t), NEW op, OneSeries(t, op), NEW tie \in Ties(t), NEW r \in t.rows
    PROVE  Shifted(t, op, r, tie) = At(t, <<r.month - Shift(op), r.geo>>)
<1>0. UniqueKeys(t)
  BY DEF Complete
<1>1. r.month \in Int /\ Shift(op) \in Nat
  BY ShiftIsInteger DEF Shaped
<1>2. r \in Peers(t, op, r)
  BY DEF Peers
<1>3. ASSUME NEW s \in Peers(t, op, r)
      PROVE  Place(t, op, s, tie) + Shift(op) = Place(t, op, r, tie) <=> s.month = r.month - Shift(op)
  <2>1. s \in t.rows /\ s.geo = r.geo /\ s.month \in Int
    BY <1>0, PlaceCounts DEF Shaped
  <2>2. CASE s.month <= r.month
    <3>1. /\ Place(t, op, r, tie) \in Nat /\ Place(t, op, s, tie) \in Nat
          /\ Place(t, op, r, tie) = Place(t, op, s, tie) + (r.month - s.month)
      BY <2>2, PlacesApart
    <3> QED
      BY <1>1, <2>1, <3>1
  <2>3. CASE s.month > r.month
    <3>1. r \in Peers(t, op, s)
      BY <2>1 DEF Peers
    <3>2. r.month <= s.month
      BY <1>1, <2>1, <2>3
    <3>3. /\ Place(t, op, r, tie) \in Nat /\ Place(t, op, s, tie) \in Nat
          /\ Place(t, op, s, tie) = Place(t, op, r, tie) + (s.month - r.month)
      BY <2>1, <3>1, <3>2, PlacesApart
    <3> QED
      BY <1>1, <2>1, <2>3, <3>3
  <2> QED
    BY <1>1, <2>1, <2>2, <2>3
<1>4. \A s : s \in Peers(t, op, r) <=> s \in t.rows /\ s.geo = r.geo
  BY DEF Peers, OneSeries
<1>5. \A s \in t.rows : Key(s) = <<r.month - Shift(op), r.geo>>
                          <=> s.month = r.month - Shift(op) /\ s.geo = r.geo
  BY DEF Key
<1> QED
  BY <1>3, <1>4, <1>5 DEF Shifted, At

LEMMA ColumnsDiffer == Value # ChangeColumn
BY DEF Value, ChangeColumn, Column

LEMMA WithColumnRows ==
    ASSUME NEW t, Shaped(t), NEW column, NEW cell
    PROVE  /\ Shaped(WithColumn(t, column, cell))
           /\ \A r \in WithColumn(t, column, cell).rows :
                \E q \in t.rows : /\ r.month = q.month /\ r.geo = q.geo
                                  /\ r.vals[column] = cell[q]
                                  /\ \A c \in t.columns : c # column => r.vals[c] = q.vals[c]
<1> DEFINE new(r) == [r EXCEPT !.vals = [c \in t.columns \cup {column} |->
                                           IF c = column THEN cell[r] ELSE r.vals[c]]]
           result == WithColumn(t, column, cell)
           f == [r \in t.rows |-> new(r)]
<1>1. /\ DOMAIN result = {"columns", "geo", "dated", "rows"}
      /\ result.columns = t.columns \cup {column}
      /\ result.rows = {new(r) : r \in t.rows}
  BY DEF Shaped, WithColumn, Dated
<1>2. ASSUME NEW q \in t.rows
      PROVE  /\ DOMAIN new(q) = {"month", "geo", "vals"}
             /\ new(q).month = q.month /\ new(q).geo = q.geo /\ q.month \in Int
             /\ new(q).vals = [c \in t.columns \cup {column} |-> IF c = column THEN cell[q] ELSE q.vals[c]]
  BY DEF Shaped
<1>3. IsFiniteSet(result.rows)
  <2>1. f \in Surjection(t.rows, result.rows)
    BY <1>1 DEF Surjection
  <2> HIDE DEF f, result
  <2> QED
    BY <2>1, FS_Surjection DEF Shaped
<1> HIDE DEF new, result
<1>4. Shaped(result)
  <2>1. \A r \in result.rows : DOMAIN r = {"month", "geo", "vals"} /\ r.month \in Int
    BY <1>1, <1>2
  <2>2. \A r \in result.rows : DOMAIN r.vals = result.columns
    <3>1. \A q \in t.rows : DOMAIN new(q).vals = t.columns \cup {column}
      BY <1>2
    <3> QED
      BY <1>1, <3>1
  <2> QED
    BY <1>1, <1>3, <2>1, <2>2 DEF Shaped
<1>5. ASSUME NEW r \in result.rows
      PROVE  \E q \in t.rows : /\ r.month = q.month /\ r.geo = q.geo
                               /\ r.vals[column] = cell[q]
                               /\ \A c \in t.columns : c # column => r.vals[c] = q.vals[c]
  <2>1. PICK q \in t.rows : r = new(q)
    BY <1>1
  <2> QED
    BY <1>2, <2>1
<1> QED
  BY <1>4, <1>5 DEF result

\* The change of the row r is one from the row of its geography so many months earlier.
Compared(t, op, r) ==
    LET earlier == CellsAt(t, <<r.month - Shift(op), r.geo>>, Value)
    IN  r.vals[ChangeColumn] =
          IF earlier = Null \/ r.vals[Value] = Null THEN Null
          ELSE Cell("change", {earlier}, <<>>)

LEMMA ChangesCompare ==
    ASSUME NEW t, Shaped(t), Complete(t), Value \in t.columns, NEW op, OneSeries(t, op),
           NEW tie \in Ties(t), NEW r \in CalcChange(t, op, tie).rows
    PROVE  Compared(t, op, r)
<1> DEFINE before(q) == {s.vals[Value] : s \in Shifted(t, op, q, tie)} \ {Null}
           change == [q \in t.rows |->
                        IF before(q) = {} \/ q.vals[Value] = Null THEN Null
                        ELSE Cell("change", before(q), <<>>)]
<1>1. CalcChange(t, op, tie) = WithColumn(t, ChangeColumn, change)
  BY DEF CalcChange
<1> HIDE DEF change, before
<1>2. PICK q \in t.rows : /\ r.month = q.month /\ r.geo = q.geo
                          /\ r.vals[ChangeColumn] = change[q]
                          /\ \A c \in t.columns : c # ChangeColumn => r.vals[c] = q.vals[c]
  BY <1>1, WithColumnRows
<1>3. r.vals[Value] = q.vals[Value]
  BY <1>2, ColumnsDiffer
<1>4. PICK key : key = <<q.month - Shift(op), q.geo>>
  OBVIOUS
<1>5. PICK earlier : earlier = CellsAt(t, key, Value)
  OBVIOUS
<1>6. before(q) = IF earlier = Null THEN {} ELSE {earlier}
  <2>1. Shifted(t, op, q, tie) = At(t, key)
    BY <1>4, ShiftedIsEarlier
  <2>2. CASE key \in KeysOf(t)
    <3>1. PICK s \in t.rows : key = Key(s)
      BY <2>2 DEF KeysOf
    <3>2. At(t, key) = {s} /\ earlier = s.vals[Value]
      BY <1>5, <3>1, RowOfKey DEF Complete
    <3> QED
      BY <2>1, <3>2 DEF before
  <2>3. CASE key \notin KeysOf(t)
    BY <1>5, <2>1, <2>3, NoRowOfKey DEF before
  <2> QED
    BY <2>2, <2>3
<1>7. change[q] = IF before(q) = {} \/ q.vals[Value] = Null THEN Null
                  ELSE Cell("change", before(q), <<>>)
  BY DEF change
<1>8. r.vals[ChangeColumn] = IF earlier = Null \/ r.vals[Value] = Null THEN Null
                             ELSE Cell("change", {earlier}, <<>>)
  BY <1>2, <1>3, <1>6, <1>7
<1> QED
  BY <1>2, <1>4, <1>5, <1>8 DEF Compared

-----------------------------------------------------------------------------
(* The invariant: tables keep their shape.                                  *)

WorkbenchInv ==
    /\ phase = "loaded" =>
         /\ Len(sources) \in Nat \ {0} /\ DOMAIN sources = 1..Len(sources)
         /\ \A i \in DOMAIN sources : Shaped(sources[i]) /\ Located(sources[i])
    /\ phase = "apply" => Shaped(table)

LEMMA SubsetShaped ==
    ASSUME NEW t, Shaped(t), NEW rows, rows \subseteq t.rows, NEW u,
           u.rows = rows, u.columns = t.columns, DOMAIN u = DOMAIN t
    PROVE  Shaped(u)
<1>1. IsFiniteSet(rows)
  BY FS_Subset DEF Shaped
<1> QED
  BY <1>1 DEF Shaped

LEMMA PeriodIsMonth == ASSUME NEW month \in Int, NEW freq PROVE Period(month, freq) \in Int
BY WorkbenchConstants DEF Period

LEMMA AggregateShaped ==
    ASSUME NEW t, Shaped(t), NEW op
    PROVE  Shaped(AggregateTime(t, op))
<1> DEFINE group(r) == <<Period(r.month, op.freq), IF op.grouped THEN r.geo ELSE Everywhere>>
           cells(g) == {r.vals[Value] : r \in {s \in t.rows : group(s) = g}} \ {Null}
           groups == {group(r) : r \in t.rows}
           row(g) == [month |-> g[1], geo |-> g[2],
                      vals |-> [c \in {Value} |-> Cell(op.method, cells(g), <<>>)]]
           result == AggregateTime(t, op)
           f == [r \in t.rows |-> group(r)]
           h == [g \in groups |-> row(g)]
<1>1. /\ DOMAIN result = {"columns", "geo", "dated", "rows"}
      /\ result.columns = {Value} /\ result.rows = {row(g) : g \in groups}
  BY DEF AggregateTime
<1>2. ASSUME NEW g \in groups
      PROVE  /\ DOMAIN row(g) = {"month", "geo", "vals"}
             /\ row(g).month \in Int /\ DOMAIN row(g).vals = {Value}
  <2>1. PICK r \in t.rows : g = group(r)
    BY <1>2
  <2>2. Period(r.month, op.freq) \in Int
    BY PeriodIsMonth DEF Shaped
  <2>3. g[1] \in Int
    BY <2>1, <2>2
  <2> HIDE DEF cells
  <2> QED
    BY <2>3
<1> HIDE DEF row, group, result, cells
<1>3. IsFiniteSet(result.rows)
  <2>1. f \in Surjection(t.rows, groups)
    BY DEF Surjection
  <2>2. IsFiniteSet(groups)
    <3> HIDE DEF f, groups
    <3> QED
      BY <2>1, FS_Surjection DEF Shaped
  <2>3. h \in Surjection(groups, result.rows)
    BY <1>1 DEF Surjection
  <2> HIDE DEF h, groups
  <2> QED
    BY <2>2, <2>3, FS_Surjection
<1> QED
  BY <1>1, <1>2, <1>3 DEF Shaped, result

LEMMA ResultsShaped ==
    ASSUME NEW t, Shaped(t), NEW op, NEW result \in Results(t, op)
    PROVE  Shaped(result)
<1>1. \/ result = FilterGeo(t, op) \/ result = FilterDateRange(t, op)
      \/ result = AggregateTime(t, op)
      \/ \E tie : result = CalcChange(t, op, tie)
      \/ \E tie : result = CalcRollingAvg(t, op, tie)
  BY Zenon DEF Results
<1>2. CASE result = FilterGeo(t, op)
  <2>1. /\ result.rows \subseteq t.rows /\ result.columns = t.columns /\ DOMAIN result = DOMAIN t
    BY <1>2 DEF FilterGeo, Shaped
  <2> QED
    BY <2>1, SubsetShaped
<1>3. CASE result = FilterDateRange(t, op)
  <2>1. /\ result.rows \subseteq t.rows /\ result.columns = t.columns /\ DOMAIN result = DOMAIN t
    BY <1>3 DEF FilterDateRange, Dated, Shaped
  <2> QED
    BY <2>1, SubsetShaped
<1>4. CASE \E tie : result = CalcChange(t, op, tie)
  <2>1. \E column, cell : result = WithColumn(t, column, cell)
    BY Zenon, <1>4 DEF CalcChange
  <2> QED
    BY <2>1, WithColumnRows
<1>5. CASE \E tie : result = CalcRollingAvg(t, op, tie)
  <2>1. \E column, cell : result = WithColumn(t, column, cell)
    BY Zenon, <1>5 DEF CalcRollingAvg
  <2> QED
    BY <2>1, WithColumnRows
<1> QED
  BY <1>1, <1>2, <1>3, <1>4, <1>5, AggregateShaped

LEMMA StartMerges ==
    ASSUME WorkbenchInv, Start, phase' = "apply", Len(sources) > 1
    PROVE  /\ MergedOK(sources, How, Len(sources), table')
           /\ How \in {"inner", "left", "outer", "full"}
<1>1. phase = "loaded" /\ Len(sources) # 1 /\ Mergeable(sources, How)
      /\ table' = MergeCubes(sources, How)[Len(sources)]
  <2>1. phase = "loaded" /\ Len(sources) \in Nat \ {0} /\ Len(sources) # 1
    BY DEF Start, WorkbenchInv
  <2> QED
    BY <2>1 DEF Start
<1>2. /\ Len(sources) \in Nat \ {0} /\ DOMAIN sources = 1..Len(sources)
      /\ \A i \in DOMAIN sources : Shaped(sources[i]) /\ Located(sources[i])
  BY <1>1 DEF WorkbenchInv
<1>3. /\ \A i \in DOMAIN sources : UniqueKeys(sources[i])
      /\ \A n \in 2..Len(sources) : ~RenameFails(MergeCubes(sources, How)[n - 1], sources[n], n - 1)
      /\ How \in JoinTypes \ {"cross"}
  BY <1>1 DEF Mergeable
<1>4. MergedOK(sources, How, Len(sources), MergeCubes(sources, How)[Len(sources)])
  BY <1>2, <1>3, MergeKeeps
<1> QED
  BY <1>1, <1>3, <1>4 DEF JoinTypes

LEMMA WorkbenchKept == WorkbenchInv /\ [WorkbenchNext]_wbVars => WorkbenchInv'
<1> SUFFICES ASSUME WorkbenchInv, [WorkbenchNext]_wbVars PROVE WorkbenchInv'
  OBVIOUS
<1>1. ASSUME NEW r \in Transforms, Receive(r) PROVE WorkbenchInv'
  <2>1. phase' = "loaded" /\ sources' = r.sources
    BY <1>1 DEF Receive
  <2> QED
    BY <2>1, WorkbenchConstants DEF WorkbenchInv
<1>2. CASE Start
  <2>1. phase = "loaded" /\ phase' \in {"apply", "failed"} /\ sources' = sources
    BY <1>2 DEF Start
  <2>2. CASE phase' = "failed"
    BY <2>2 DEF WorkbenchInv
  <2>3. CASE phase' = "apply" /\ Len(sources) = 1
    <3>1. table' = sources[1] /\ 1 \in DOMAIN sources
      BY <1>2, <2>1, <2>3 DEF Start, WorkbenchInv
    <3> QED
      BY <2>1, <2>3, <3>1 DEF WorkbenchInv
  <2>4. CASE phase' = "apply" /\ Len(sources) # 1
    <3>1. Len(sources) > 1
      BY <2>1, <2>4 DEF WorkbenchInv
    <3>2. Shaped(table')
      BY <1>2, <2>4, <3>1, StartMerges DEF MergedOK
    <3> QED
      BY <2>4, <3>2 DEF WorkbenchInv
  <2> QED
    BY <2>1, <2>2, <2>3, <2>4
<1>3. CASE Apply
  <2>1. CASE phase' = "failed"
    BY <2>1 DEF WorkbenchInv
  <2>2. CASE phase' # "failed"
    <3>1. phase = "apply" /\ phase' = "apply" /\ table' \in Results(table, Head(todo))
      BY <1>3, <2>2 DEF Apply
    <3> QED
      BY <3>1, ResultsShaped DEF WorkbenchInv
  <2> QED
    BY <2>1, <2>2
<1>4. CASE Save
  BY <1>4 DEF Save, WorkbenchInv
<1>5. CASE UNCHANGED wbVars
  BY <1>5 DEF wbVars, WorkbenchInv
<1> QED
  BY <1>1, <1>2, <1>3, <1>4, <1>5 DEF WorkbenchNext

\* A merge promises what its keys and cells are.
LEMMA MergeHolds == ASSUME WorkbenchInv, [WorkbenchNext]_wbVars PROVE [MergeStep]_wbVars
<1> SUFFICES ASSUME phase = "loaded", phase' = "apply", Len(sources) > 1 PROVE MergeStep
  BY DEF MergeStep
<1>1. Start
  BY DEF WorkbenchNext, Receive, Apply, Save, wbVars
<1>2. PICK t : t = table'
  OBVIOUS
<1>3. PICK n : n = Len(sources)
  OBVIOUS
<1>4. n \in Nat \ {0} /\ DOMAIN sources = 1..n /\ \A i \in 1..n : Shaped(sources[i])
  BY <1>3 DEF WorkbenchInv
<1>5. MergedOK(sources, How, n, t)
  BY <1>1, <1>2, <1>3, StartMerges
<1> DEFINE keys(i) == {Key(r) : r \in sources[i].rows}
           kept == {r \in UNION {sources[i].rows : i \in 1..n} : Key(r) \in {Key(s) : s \in t.rows}}
           values(rows) == (UNION {{r.vals[c] : c \in DOMAIN r.vals} : r \in rows}) \ {Null}
<1>6. Shaped(t) /\ UniqueKeys(t) /\ Located(t)
  BY <1>5 DEF MergedOK
<1>7. {Key(r) : r \in t.rows} =
        CASE How = "inner" -> {k \in keys(1) : \A i \in 1..n : k \in keys(i)}
          [] How = "left" -> keys(1)
          [] OTHER -> UNION {keys(i) : i \in 1..n}
  BY Zenon, <1>5 DEF MergedOK, Promised, KeysOf
<1>10. ASSUME NEW rows
       PROVE  \A x : x \in values(rows) <=> x # Null /\ \E r \in rows : \E c \in DOMAIN r.vals : x = r.vals[c]
  <2>1. \A r : \A x : x \in CellsIn(r) <=> \E c \in DOMAIN r.vals : x = r.vals[c]
    BY DEF CellsIn
  <2>2. values(rows) = (UNION {CellsIn(r) : r \in rows}) \ {Null}
    BY DEF CellsIn
  <2> HIDE DEF values
  <2>3. \A x : x \in values(rows) <=> x # Null /\ \E r \in rows : x \in CellsIn(r)
    BY <2>2
  <2> QED
    BY <2>1, <2>3
<1>8. values(t.rows) = values(kept)
  <2>1. \A x : x \in values(t.rows) <=> \E k \in KeysOf(t) : x \in CellsOf(t, k)
    <3>1. \A x : x \in values(t.rows) <=> x # Null /\ \E r \in t.rows : \E c \in DOMAIN r.vals : x = r.vals[c]
      BY <1>10
    <3>2. \A r \in t.rows : Key(r) \in KeysOf(t)
      BY DEF KeysOf
    <3> HIDE DEF values
    <3> QED
      BY <3>1, <3>2, CellsAre
  <2>2. \A x : x \in values(kept) <=> \E k \in KeysOf(t) : \E i \in 1..n : x \in CellsOf(sources[i], k)
    <3>1. \A x : x \in values(kept) <=> x # Null /\ \E r \in kept : \E c \in DOMAIN r.vals : x = r.vals[c]
      BY <1>10
    <3>2. \A r : r \in kept <=> Key(r) \in KeysOf(t) /\ \E i \in 1..n : r \in sources[i].rows
      BY Zenon DEF KeysOf
    <3> HIDE DEF values, kept
    <3> QED
      BY <3>1, <3>2, CellsAre
  <2>3. \A k \in KeysOf(t) : CellsOf(t, k) = UNION {CellsOf(sources[i], k) : i \in 1..n}
    BY <1>5 DEF MergedOK
  <2> HIDE DEF values, kept
  <2>4. \A x : x \in values(t.rows) <=> x \in values(kept)
    BY <2>1, <2>2, <2>3
  <2>5. values(t.rows) \subseteq values(kept) /\ values(kept) \subseteq values(t.rows)
    BY <2>4
  <2> QED
    BY <2>5
<1>9. \A r \in t.rows : \A c \in t.columns :
        r.vals[c].op = "cell" => <<r.month, r.geo>> = Tail(r.vals[c].at)
  BY <1>6 DEF Located
<1> QED
  BY Zenon, <1>2, <1>4, <1>6, <1>7, <1>8, <1>9 DEF MergeStep

\* In a complete table a change compares a row with the month it names.
LEMMA ChangeHolds == ASSUME WorkbenchInv, [WorkbenchNext]_wbVars PROVE [ChangeStep]_wbVars
<1> DEFINE op == Head(todo)
<1> SUFFICES ASSUME phase = "apply", Complete(table), todo # <<>>, todo' # todo, op.type = "change",
                    op.grouped \/ \A r, s \in table.rows : r.geo = s.geo,
                    NEW r \in table'.rows
             PROVE  Compared(table, op, r)
  BY Zenon DEF ChangeStep, Compared
<1>1. table' \in Results(table, op)
  BY DEF WorkbenchNext, Receive, Start, Apply, Save, wbVars
<1>2. Value \in table.columns /\ \E tie \in Ties(table) : table' = CalcChange(table, op, tie)
  BY Zenon, <1>1 DEF Results
<1>3. Shaped(table)
  BY DEF WorkbenchInv
<1>4. OneSeries(table, op)
  BY DEF OneSeries
<1> HIDE DEF op
<1>5. PICK tie \in Ties(table) : table' = CalcChange(table, op, tie)
  BY <1>2
<1>6. r \in CalcChange(table, op, tie).rows
  BY <1>5
<1>7. PICK t : t = table
  OBVIOUS
<1>8. Shaped(t) /\ Complete(t) /\ Value \in t.columns /\ OneSeries(t, op) /\ tie \in Ties(t)
  BY <1>2, <1>3, <1>4, <1>7
<1>9. r \in CalcChange(t, op, tie).rows
  BY <1>6, <1>7
<1>10. Compared(t, op, r)
  BY <1>8, <1>9, ChangesCompare
<1> QED
  BY <1>7, <1>10

\* merge_cubes and calc_yoy_change, calc_mom_change, for tables of any size: a merge has
\* the keys its join type promises and the cells of each key, and where months are
\* complete a change compares a row with its own geography so many months earlier.
THEOREM TransformsHold == WorkbenchSpec => TransformSteps
<1>1. WorkbenchInit => WorkbenchInv
  BY DEF WorkbenchInit, WorkbenchInv
<1>2. WorkbenchInv /\ [WorkbenchNext]_wbVars => [MergeStep /\ ChangeStep]_wbVars
  BY MergeHolds, ChangeHolds
<1> QED
  BY <1>1, <1>2, WorkbenchKept, PTL DEF WorkbenchSpec, TransformSteps
=============================================================================

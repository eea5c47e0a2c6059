--------------------------- MODULE StalenessProofs ---------------------------
(***************************************************************************)
(* What ValueCache and Staleness keep for any cells, periods, revisions,   *)
(* requests, blocks and calls.                                             *)
(***************************************************************************)
EXTENDS Staleness, TLAPS, WellFoundedInduction

USE ValueConstants, StalenessConstants

-----------------------------------------------------------------------------
(* The least and the greatest of a set of numbers.                          *)

Below == {p \in Nat \X Nat : p[1] < p[2]}

\* Used for First, and for the greatest period.
LEMMA Least == ASSUME NEW T, T \subseteq Nat, T # {} PROVE \E x \in T : \A y \in T : x <= y
<1>1. IsWellFoundedOn(OpToRel(<, Nat), Nat)
  BY NatLessThanWellFounded
<1>2. OpToRel(<, Nat) = Below
  BY DEF OpToRel, Below
<1>3. IsWellFoundedOn(Below, Nat)
  BY <1>1, <1>2
<1>4. PICK x \in T : \A y \in T : ~(<<y, x>> \in Below)
  BY <1>3, WFMin
<1>5. \A y \in T : ~(y < x)
  <2> SUFFICES ASSUME NEW y \in T, y < x PROVE FALSE
    OBVIOUS
  <2>1. <<y, x>> \in Nat \X Nat /\ <<y, x>>[1] = y /\ <<y, x>>[2] = x
    OBVIOUS
  <2> QED
    BY <1>4, <2>1 DEF Below
<1> QED
  BY <1>5

LEMMA FirstIn == ASSUME NEW S, S \subseteq Blocks, S # {} PROVE First(S) \in S
<1>1. \E b \in S : \A d \in S : b <= d
  BY Least
<1> QED
  BY <1>1 DEF First

\* pick_row returns one of the rows it is given.
LEMMA PickRowIn == ASSUME NEW found, found \subseteq Periods, found # {} PROVE PickRow(found) \in found
<1>1. CASE NoDate \in found
  BY <1>1 DEF PickRow
<1>2. CASE NoDate \notin found
  <2> DEFINE T == {MaxPeriod - p : p \in found}
  <2>1. \A p \in found : p \in Nat /\ p <= MaxPeriod
    BY DEF Periods
  <2>2. T \subseteq Nat /\ T # {}
    BY <2>1
  <2> HIDE DEF T
  <2>3. PICK x \in T : \A y \in T : x <= y
    BY <2>2, Least
  <2>4. PICK p \in found : x = MaxPeriod - p
    BY <2>3 DEF T
  <2>5. \A q \in found : MaxPeriod - p <= MaxPeriod - q
    BY <2>3, <2>4 DEF T
  <2>6. \A q \in found : q <= p
    BY <2>1, <2>5
  <2> QED
    BY <1>2, <2>6 DEF PickRow
<1> QED
  BY <1>1, <1>2

-----------------------------------------------------------------------------
(* The invariant of the cache.                                              *)

\* The local variables of a request, of what it answers, and of the refresh.
Outs == [kind : {"none", "hit", "primed", "miss", "invalid", "unmapped"},
         period : Periods, rev : 0 .. MaxRevision, stale : BOOLEAN]
ReqLocals == [pc : {"idle", "validate", "read", "prime", "persist", "requery", "done"},
              task : {"none", "resolve", "compare", "save"}, coord : Coords,
              period : Periods \cup {Latest}, version : 0 .. MaxVersion, answer : Answers, out : Outs]
RefreshLocals == [pc : {"idle", "fetch", "persist", "select", "update"}, todo : SUBSET Coords,
                  coord : Coords, answer : Answers, keep : SUBSET Periods]

StoreOK(rows, pub) ==
    /\ rows \in [Coords -> [Periods -> Rows]]
    /\ \A c \in Coords, p \in Periods : rows[c][p].rev <= pub[c][p]

RefreshOK(v, pub) ==
    /\ v \in RefreshLocals
    /\ \A p \in Periods : v.answer[p] <= pub[v.coord][p]

\* A request works on the cell that the version it has read pins; `version` is the
\* newest one and `pinned` what each one pins.
ReqOK(v, pub, version, pinned) ==
    /\ v \in ReqLocals
    /\ v.pc = "idle" => v = Idle
    /\ \A p \in Periods : v.answer[p] <= pub[v.coord][p]
    /\ v.out.rev <= pub[v.coord][v.out.period]
    /\ v.pc \in {"validate", "read", "prime", "persist", "requery"} => v.version \in 1 .. version
    /\ v.pc \in {"read", "prime", "persist", "requery"} => v.coord = pinned[v.version]
    /\ v.out.kind \in {"hit", "primed"} =>
          /\ v.version \in 1 .. version /\ v.coord = pinned[v.version]
          /\ v.period \in {v.out.period, Latest} /\ v.out.rev # 0

CacheInv ==
    /\ published \in [Coords -> Answers]
    /\ releases \in 0 .. MaxReleases
    /\ mapping \in [active : BOOLEAN, version : 1 .. MaxVersion]
    /\ pins \in [1 .. MaxVersion -> Coords]
    /\ StoreOK(cache, published)
    /\ RefreshOK(refresh, published)
    /\ req = [r \in Requests |-> req[r]]
    /\ \A r \in Requests : ReqOK(req[r], published, mapping.version, pins)

\* What StatCan has published stays published, and what a version pins stays pinned.
Grows ==
    /\ \A c \in Coords, p \in Periods : published[c][p] <= published'[c][p]
    /\ mapping.version <= mapping'.version
    /\ \A v \in 1 .. mapping.version : pins'[v] = pins[v]

LEMMA Numbers ==
    ASSUME CacheInv
    PROVE  /\ mapping.version \in 1 .. MaxVersion
           /\ \A c \in Coords, p \in Periods : published[c][p] \in 0 .. MaxRevision
           /\ \A c \in Coords, p \in Periods : cache[c][p].rev \in 0 .. MaxRevision
           /\ \A c \in Coords, p \in Periods : cache[c][p].stale \in BOOLEAN
BY DEF CacheInv, Answers, StoreOK, Rows

LEMMA NoAnswerIn == NoAnswer \in Answers /\ \A p \in Periods : NoAnswer[p] = 0
BY DEF NoAnswer, Answers

\* A request that has just come, or is over.
LEMMA IdleOK ==
    ASSUME NEW pub \in [Coords -> Answers], NEW version, NEW pinned
    PROVE  Idle.coord \in Coords /\ ReqOK(Idle, pub, version, pinned)
<1>1. NoDate \in Periods
  BY DEF NoDate, Periods
<1>2. Idle.coord \in Coords
  BY DEF Idle
<1>3. Unserved \in Outs /\ Unserved.kind = "none" /\ Unserved.period = NoDate /\ Unserved.rev = 0
  BY <1>1 DEF Unserved, Outs
<1>4. /\ Idle.pc = "idle" /\ Idle.task = "none" /\ Idle.period = NoDate /\ Idle.version = 0
      /\ Idle.answer = NoAnswer /\ Idle.out = Unserved
  BY DEF Idle
<1>5. Idle \in ReqLocals
  BY <1>1, <1>2, <1>3, NoAnswerIn DEF Idle, ReqLocals
<1>6. \A p \in Periods : pub[Idle.coord][p] \in Nat
  BY <1>2 DEF Answers
<1> HIDE DEF Idle
<1> QED
  BY <1>1, <1>2, <1>3, <1>4, <1>5, <1>6, NoAnswerIn DEF ReqOK

LEMMA RestingOK ==
    ASSUME NEW pub \in [Coords -> Answers]
    PROVE  RefreshOK(Resting, pub)
<1>1. Resting.coord \in Coords
  BY DEF Resting
<1>2. Resting \in RefreshLocals /\ Resting.answer = NoAnswer
  BY <1>1, NoAnswerIn DEF Resting, RefreshLocals
<1>3. \A p \in Periods : pub[Resting.coord][p] \in Nat
  BY <1>1 DEF Answers
<1> HIDE DEF Resting
<1> QED
  BY <1>2, <1>3, NoAnswerIn DEF RefreshOK

\* A request is not disturbed by what others publish and save.
LEMMA ReqGrows ==
    ASSUME NEW pub \in [Coords -> Answers], NEW pub2 \in [Coords -> Answers],
           NEW m \in Nat, NEW m2 \in Nat, NEW pn, NEW pn2, NEW v, ReqOK(v, pub, m, pn),
           \A c \in Coords, p \in Periods : pub[c][p] <= pub2[c][p],
           m <= m2, \A i \in 1 .. m : pn2[i] = pn[i]
    PROVE  ReqOK(v, pub2, m2, pn2)
<1>1. /\ v.coord \in Coords /\ v.out.period \in Periods /\ v.out.rev \in Nat
      /\ \A p \in Periods : v.answer[p] \in Nat
  BY DEF ReqOK, ReqLocals, Outs, Answers
<1>2. \A p \in Periods : pub[v.coord][p] \in Nat /\ pub2[v.coord][p] \in Nat
  BY <1>1 DEF Answers
<1>3. /\ \A p \in Periods : v.answer[p] <= pub2[v.coord][p]
      /\ v.out.rev <= pub2[v.coord][v.out.period]
  BY <1>1, <1>2 DEF ReqOK
<1>4. v.version \in 1 .. m => v.version \in 1 .. m2 /\ pn2[v.version] = pn[v.version]
  BY DEF ReqOK, ReqLocals
<1> QED
  BY <1>3, <1>4 DEF ReqOK

\* A step of one request, which may store something.
LEMMA OneRequest ==
    ASSUME CacheInv, NEW r \in Requests, NEW v, req' = [req EXCEPT ![r] = v],
           ReqOK(v, published, mapping.version, pins),
           UNCHANGED <<published, releases, mapping, pins, refresh>>, StoreOK(cache', published)
    PROVE  CacheInv' /\ Grows
<1>1. req' = [q \in Requests |-> req'[q]] /\ \A q \in Requests : req'[q] = IF q = r THEN v ELSE req[q]
  BY DEF CacheInv
<1>2. \A q \in Requests : ReqOK(req'[q], published, mapping.version, pins)
  BY <1>1 DEF CacheInv
<1>3. CacheInv'
  BY <1>1, <1>2 DEF CacheInv
<1> QED
  BY <1>3, Numbers DEF Grows

\* A step of the refresh, which may store something.
LEMMA OneRefresh ==
    ASSUME CacheInv, RefreshOK(refresh', published),
           UNCHANGED <<published, releases, mapping, pins, req>>, StoreOK(cache', published)
    PROVE  CacheInv' /\ Grows
<1>1. CacheInv'
  BY DEF CacheInv
<1> QED
  BY <1>1, Numbers DEF Grows

-----------------------------------------------------------------------------
(* What the table's operations leave.                                       *)

\* Rows come from answers, or stay.
LEMMA StoredOK ==
    ASSUME CacheInv, NEW c \in Coords, NEW answer \in Answers,
           \A p \in Periods : answer[p] <= published[c][p]
    PROVE  StoreOK(Stored(c, answer), published)
<1>1. \A p \in Periods : /\ UpsertPeriod(cache[c][p], answer[p]) \in Rows
                         /\ UpsertPeriod(cache[c][p], answer[p]).rev \in {cache[c][p].rev, answer[p]}
  <2> SUFFICES ASSUME NEW p \in Periods
               PROVE  /\ UpsertPeriod(cache[c][p], answer[p]) \in Rows
                      /\ UpsertPeriod(cache[c][p], answer[p]).rev \in {cache[c][p].rev, answer[p]}
    OBVIOUS
  <2> DEFINE w == cache[c][p]
  <2>1. w \in Rows /\ answer[p] \in 0 .. MaxRevision
    BY DEF CacheInv, StoreOK, Answers
  <2> HIDE DEF w
  <2>2. [w EXCEPT !.stale = FALSE] \in Rows /\ [w EXCEPT !.stale = FALSE].rev = w.rev
    BY <2>1 DEF Rows
  <2>3. [rev |-> answer[p], stale |-> FALSE] \in Rows
    BY <2>1 DEF Rows
  <2> QED
    BY <2>1, <2>2, <2>3 DEF UpsertPeriod, UpsertPeriodPg, w
<1>2. \A d \in Coords : Stored(c, answer)[d] = IF d = c THEN [p \in Periods |-> UpsertPeriod(cache[c][p], answer[p])]
                                                        ELSE cache[d]
  BY DEF Stored, CacheInv, StoreOK
<1>3. Stored(c, answer) \in [Coords -> [Periods -> Rows]]
  BY <1>1, <1>2 DEF Stored, CacheInv, StoreOK
<1>4. ASSUME NEW d \in Coords, NEW p \in Periods PROVE Stored(c, answer)[d][p].rev <= published[d][p]
  <2>1. CASE d = c
    BY <1>1, <1>2, <2>1 DEF CacheInv, StoreOK
  <2>2. CASE d # c
    BY <1>2, <2>2 DEF CacheInv, StoreOK
  <2> QED
    BY <2>1, <2>2
<1> QED
  BY <1>3, <1>4 DEF StoreOK

\* Marking changes no revision.
LEMMA MarkedOK ==
    ASSUME CacheInv, NEW c \in Coords, NEW keep
    PROVE  StoreOK(Marked(c, keep), published)
<1> DEFINE new(p) == IF p \in CachedPeriods(c) \ keep THEN [rev |-> cache[c][p].rev, stale |-> TRUE]
                                                      ELSE cache[c][p]
<1>1. \A p \in Periods : new(p) \in Rows /\ new(p).rev = cache[c][p].rev
  BY DEF CacheInv, StoreOK, Rows
<1>2. Marked(c, keep) = [cache EXCEPT ![c] = [p \in Periods |-> new(p)]]
  BY DEF Marked
<1> HIDE DEF new
<1>3. \A d \in Coords : Marked(c, keep)[d] = IF d = c THEN [p \in Periods |-> new(p)] ELSE cache[d]
  BY <1>2 DEF CacheInv, StoreOK
<1>4. Marked(c, keep) \in [Coords -> [Periods -> Rows]]
  BY <1>1, <1>2 DEF CacheInv, StoreOK
<1>5. ASSUME NEW d \in Coords, NEW p \in Periods PROVE Marked(c, keep)[d][p].rev <= published[d][p]
  <2>1. CASE d = c
    BY <1>1, <1>3, <2>1 DEF CacheInv, StoreOK
  <2>2. CASE d # c
    BY <1>3, <2>2 DEF CacheInv, StoreOK
  <2> QED
    BY <2>1, <2>2
<1> QED
  BY <1>4, <1>5 DEF StoreOK

\* StatCan answers with what it has published.
LEMMA AnswersOK ==
    ASSUME CacheInv, NEW c \in Coords, NEW n, NEW answer \in GetData(c, n)
    PROVE  answer \in Answers /\ \A p \in Periods : answer[p] <= published[c][p]
<1>1. \A p \in Periods : published[c][p] \in 0 .. MaxRevision
  BY Numbers
<1>2. AnswerFor(c, n) \in Answers /\ \A p \in Periods : AnswerFor(c, n)[p] <= published[c][p]
  BY <1>1 DEF AnswerFor, Answers
<1> QED
  BY <1>1, <1>2, NoAnswerIn DEF GetData

\* An answer without a value.
LEMMA UnservedAs ==
    ASSUME NEW kind \in {"none", "hit", "primed", "miss", "invalid", "unmapped"}
    PROVE  /\ [Unserved EXCEPT !.kind = kind] \in Outs
           /\ [Unserved EXCEPT !.kind = kind].kind = kind
           /\ [Unserved EXCEPT !.kind = kind].rev = 0
           /\ [Unserved EXCEPT !.kind = kind].period \in Periods
<1>1. NoDate \in Periods
  BY DEF NoDate, Periods
<1>2. Unserved \in Outs /\ Unserved.period \in Periods /\ Unserved.rev = 0
  BY <1>1 DEF Unserved, Outs
<1> QED
  BY <1>2 DEF Outs

-----------------------------------------------------------------------------
(* One lemma for each action on the cache.                                  *)

LEMMA ReleaseKept ==
    ASSUME CacheInv, NEW c \in Coords, NEW p \in Periods, Release(c, p) PROVE CacheInv' /\ Grows
<1> DEFINE a == [published[c] EXCEPT ![p] = published[c][p] + 1]
<1>1. published[c] \in Answers /\ published[c][p] \in 0 .. MaxRevision /\ published[c][p] < MaxRevision
  BY DEF CacheInv, Release, Answers
<1>2. a \in Answers /\ \A q \in Periods : published[c][q] <= a[q]
  BY <1>1 DEF Answers
<1>3. published' = [published EXCEPT ![c] = a]
  BY DEF Release
<1> HIDE DEF a
<1>4. /\ published' \in [Coords -> Answers]
      /\ \A d \in Coords, q \in Periods : published[d][q] <= published'[d][q]
  BY <1>2, <1>3, Numbers DEF CacheInv
<1>5. \A d \in Coords, q \in Periods : published'[d][q] \in Nat /\ published[d][q] \in Nat
  BY <1>4, Numbers DEF Answers
<1>6. \A r \in Requests : ReqOK(req[r], published', mapping.version, pins)
  <2>1. /\ published \in [Coords -> Answers] /\ mapping.version \in Nat
        /\ \A r \in Requests : ReqOK(req[r], published, mapping.version, pins)
    BY Numbers DEF CacheInv
  <2>2. mapping.version <= mapping.version /\ \A i \in 1 .. mapping.version : pins[i] = pins[i]
    BY <2>1
  <2> QED
    BY <1>4, <2>1, <2>2, ReqGrows
<1>7. StoreOK(cache, published')
  <2>1. ASSUME NEW d \in Coords, NEW q \in Periods PROVE cache[d][q].rev <= published'[d][q]
    <3>1. cache[d][q].rev <= published[d][q] /\ published[d][q] <= published'[d][q]
      BY <1>4 DEF CacheInv, StoreOK
    <3>2. cache[d][q].rev \in Nat /\ published[d][q] \in Nat /\ published'[d][q] \in Nat
      BY <1>5, Numbers
    <3> QED
      BY <3>1, <3>2
  <2> QED
    BY <2>1 DEF CacheInv, StoreOK
<1>8. RefreshOK(refresh, published')
  <2>1. refresh.coord \in Coords /\ \A q \in Periods : refresh.answer[q] \in Nat
    BY DEF CacheInv, RefreshOK, RefreshLocals, Answers
  <2>2. ASSUME NEW q \in Periods PROVE refresh.answer[q] <= published'[refresh.coord][q]
    <3>1. refresh.answer[q] <= published[refresh.coord][q]
      BY DEF CacheInv, RefreshOK
    <3>2. published[refresh.coord][q] <= published'[refresh.coord][q]
      BY <1>4, <2>1
    <3>3. published[refresh.coord][q] \in Nat /\ published'[refresh.coord][q] \in Nat
      BY <1>5, <2>1
    <3> QED
      BY <2>1, <3>1, <3>2, <3>3
  <2> QED
    BY <2>2 DEF CacheInv, RefreshOK
<1>9. releases' \in 0 .. MaxReleases
  BY DEF CacheInv, Release
<1>10. UNCHANGED <<cache, mapping, pins, refresh, req>>
  BY DEF Release
<1>11. CacheInv'
  BY <1>4, <1>6, <1>7, <1>8, <1>9, <1>10 DEF CacheInv
<1> QED
  BY <1>4, <1>10, <1>11, Numbers DEF Grows

LEMMA SaveMappingKept ==
    ASSUME CacheInv, NEW r \in Requests, NEW c \in Coords, SaveMapping(r, c) PROVE CacheInv' /\ Grows
<1> DEFINE m == mapping.version
<1>1. PICK next \in {"prime", "done"} :
        req' = [req EXCEPT ![r] = [req[r] EXCEPT !.pc = next, !.task = "save", !.coord = c, !.version = m + 1]]
  BY DEF SaveMapping
<1>2. /\ m \in 1 .. MaxVersion /\ m + 1 \in 1 .. MaxVersion /\ m + 1 \in 0 .. MaxVersion
      /\ req[r] = Idle
  BY Numbers DEF SaveMapping, CacheInv, ReqOK
<1>3. /\ mapping' = [active |-> TRUE, version |-> m + 1]
      /\ pins' = [pins EXCEPT ![m + 1] = c]
      /\ UNCHANGED <<published, releases, cache, refresh>>
  BY DEF SaveMapping
<1> HIDE DEF m
<1>4. /\ mapping' \in [active : BOOLEAN, version : 1 .. MaxVersion] /\ mapping'.version = m + 1
      /\ pins' \in [1 .. MaxVersion -> Coords] /\ pins'[m + 1] = c
      /\ \A i \in 1 .. m : pins'[i] = pins[i]
  BY <1>2, <1>3 DEF CacheInv
<1> DEFINE v == [Idle EXCEPT !.pc = next, !.task = "save", !.coord = c, !.version = m + 1]
<1>5. Idle \in ReqLocals /\ Idle.answer = NoAnswer /\ Idle.out = Unserved
  BY IdleOK DEF CacheInv, ReqOK, Idle
<1>6. /\ v \in ReqLocals /\ v.pc = next /\ v.coord = c /\ v.version = m + 1
      /\ v.answer = NoAnswer /\ v.out = Unserved
  BY <1>2, <1>5 DEF ReqLocals
<1>7. Unserved.kind = "none" /\ Unserved.rev = 0 /\ Unserved.period \in Periods
  BY DEF Unserved, NoDate, Periods
<1> HIDE DEF v
<1>8. ReqOK(v, published, m + 1, pins')
  BY <1>2, <1>4, <1>6, <1>7, NoAnswerIn, Numbers DEF ReqOK
<1>9. req' = [req EXCEPT ![r] = v]
  BY <1>1, <1>2 DEF v
<1>10. \A q \in Requests : ReqOK(req[q], published, m + 1, pins')
  <2>1. /\ published \in [Coords -> Answers] /\ m \in Nat /\ m + 1 \in Nat /\ m <= m + 1
        /\ \A q \in Requests : ReqOK(req[q], published, m, pins)
    BY <1>2 DEF CacheInv, m
  <2>2. \A d \in Coords, p \in Periods : published[d][p] <= published[d][p]
    BY Numbers
  <2> QED
    BY <1>4, <2>1, <2>2, ReqGrows
<1>11. req' = [q \in Requests |-> req'[q]] /\ \A q \in Requests : req'[q] = IF q = r THEN v ELSE req[q]
  BY <1>9 DEF CacheInv
<1>12. \A q \in Requests : ReqOK(req'[q], published', mapping'.version, pins')
  BY <1>3, <1>4, <1>8, <1>10, <1>11
<1>13. CacheInv'
  BY <1>3, <1>4, <1>11, <1>12 DEF CacheInv
<1> QED
  BY <1>2, <1>3, <1>4, <1>13, Numbers DEF Grows, m

LEMMA SoftDeleteKept == ASSUME CacheInv, SoftDelete PROVE CacheInv' /\ Grows
<1>1. mapping' \in [active : BOOLEAN, version : 1 .. MaxVersion] /\ mapping'.version = mapping.version
  BY DEF CacheInv, SoftDelete
<1> QED
  BY <1>1, Numbers DEF CacheInv, SoftDelete, Grows

LEMMA AskKept ==
    ASSUME CacheInv, NEW r \in Requests, NEW task \in {"resolve", "compare"}, NEW c \in Coords,
           NEW period \in Periods \cup {Latest}, Ask(r, task, c, period)
    PROVE  CacheInv' /\ Grows /\ req'[r].period = period
<1> DEFINE pc == IF mapping.active THEN "validate" ELSE "done"
           kind == IF mapping.active THEN "none" ELSE "unmapped"
           out == [Unserved EXCEPT !.kind = kind]
           v == [Idle EXCEPT !.task = task, !.coord = c, !.period = period,
                             !.version = mapping.version, !.pc = pc, !.out = out]
<1>1. req[r] = Idle /\ mapping.version \in 1 .. MaxVersion /\ mapping.version \in 0 .. MaxVersion
  BY Numbers DEF Ask, CacheInv, ReqOK
<1>2. req' = [req EXCEPT ![r] = v]
  BY <1>1 DEF Ask
<1>3. pc \in {"validate", "done"} /\ kind \in {"none", "unmapped"}
  OBVIOUS
<1> HIDE DEF pc, kind
<1>4. out \in Outs /\ out.kind \in {"none", "unmapped"} /\ out.rev = 0 /\ out.period \in Periods
  BY <1>3, UnservedAs
<1> HIDE DEF out
<1>5. Idle \in ReqLocals /\ Idle.answer = NoAnswer
  BY IdleOK DEF CacheInv, ReqOK, Idle
<1>6. /\ v \in ReqLocals /\ v.pc = pc /\ v.coord = c /\ v.version = mapping.version
      /\ v.answer = NoAnswer /\ v.out = out /\ v.period = period
  BY <1>1, <1>3, <1>4, <1>5 DEF ReqLocals
<1> HIDE DEF v
<1>7. ReqOK(v, published, mapping.version, pins)
  BY <1>1, <1>3, <1>4, <1>6, NoAnswerIn, Numbers DEF ReqOK
<1>8. req'[r].period = period
  BY <1>2, <1>6 DEF CacheInv
<1> QED
  BY <1>2, <1>7, <1>8, OneRequest DEF Ask, CacheInv

LEMMA GotoKept ==
    ASSUME CacheInv, NEW r \in Requests, NEW pc \in {"read", "prime"}, Goto(r, pc),
           req[r].pc \in {"validate", "read"}, req[r].coord = pins[req[r].version],
           UNCHANGED <<published, releases, cache, mapping, pins, refresh>>
    PROVE  CacheInv' /\ Grows
<1> DEFINE v == [req[r] EXCEPT !.pc = pc]
<1>1. ReqOK(req[r], published, mapping.version, pins) /\ StoreOK(cache, published)
  BY DEF CacheInv
<1>2. /\ v \in ReqLocals /\ v.pc = pc /\ v.coord = req[r].coord /\ v.version = req[r].version
      /\ v.answer = req[r].answer /\ v.out = req[r].out /\ v.period = req[r].period
  BY <1>1 DEF ReqOK, ReqLocals
<1>3. req' = [req EXCEPT ![r] = v]
  BY DEF Goto
<1> HIDE DEF v
<1>4. ReqOK(v, published, mapping.version, pins)
  BY <1>1, <1>2 DEF ReqOK
<1> QED
  BY <1>1, <1>3, <1>4, OneRequest

LEMMA AnsweredKept ==
    ASSUME CacheInv, NEW r \in Requests, NEW out \in Outs,
           req' = [req EXCEPT ![r] = [req[r] EXCEPT !.pc = "done", !.answer = NoAnswer, !.out = out]],
           out.rev <= published[req[r].coord][out.period],
           out.kind \in {"hit", "primed"} =>
             /\ req[r].pc \in {"read", "requery"}
             /\ req[r].period \in {out.period, Latest} /\ out.rev # 0,
           UNCHANGED <<published, releases, cache, mapping, pins, refresh>>
    PROVE  CacheInv' /\ Grows
<1> DEFINE v == [req[r] EXCEPT !.pc = "done", !.answer = NoAnswer, !.out = out]
<1>1. ReqOK(req[r], published, mapping.version, pins) /\ StoreOK(cache, published)
  BY DEF CacheInv
<1>2. /\ v \in ReqLocals /\ v.pc = "done" /\ v.coord = req[r].coord /\ v.version = req[r].version
      /\ v.answer = NoAnswer /\ v.out = out /\ v.period = req[r].period
  BY <1>1, NoAnswerIn DEF ReqOK, ReqLocals
<1> HIDE DEF v
<1>3. req[r].coord \in Coords
  BY <1>1 DEF ReqOK, ReqLocals
<1>4. ReqOK(v, published, mapping.version, pins)
  BY <1>1, <1>2, <1>3, NoAnswerIn, Numbers DEF ReqOK
<1> QED
  BY <1>1, <1>4, OneRequest DEF v

LEMMA ReplyKept ==
    ASSUME CacheInv, NEW r \in Requests, NEW kind \in {"miss", "invalid"}, Reply(r, kind),
           UNCHANGED <<published, releases, cache, mapping, pins, refresh>>
    PROVE  CacheInv' /\ Grows
<1> DEFINE out == [Unserved EXCEPT !.kind = kind]
<1>1. out \in Outs /\ out.kind = kind /\ out.rev = 0 /\ out.period \in Periods
  BY UnservedAs
<1>2. req[r].coord \in Coords
  BY DEF CacheInv, ReqOK, ReqLocals
<1>3. 0 <= published[req[r].coord][out.period]
  BY <1>1, <1>2, Numbers
<1>4. req' = [req EXCEPT ![r] = [req[r] EXCEPT !.pc = "done", !.answer = NoAnswer, !.out = out]]
  BY DEF Reply
<1> HIDE DEF out
<1> QED
  BY <1>1, <1>3, <1>4, AnsweredKept

LEMMA ServeKept ==
    ASSUME CacheInv, NEW r \in Requests, NEW kind \in {"hit", "primed"},
           req[r].pc \in {"read", "requery"},
           Found(req[r].coord, req[r].period) # {},
           Serve(r, kind, PickRow(Found(req[r].coord, req[r].period))),
           UNCHANGED <<published, releases, cache, mapping, pins, refresh>>
    PROVE  CacheInv' /\ Grows
<1> DEFINE p == PickRow(Found(req[r].coord, req[r].period))
           out == [kind |-> kind, period |-> p, rev |-> cache[req[r].coord][p].rev,
                   stale |-> cache[req[r].coord][p].stale]
<1>1. req[r].coord \in Coords
  BY DEF CacheInv, ReqOK, ReqLocals
<1>2. p \in Periods /\ cache[req[r].coord][p].rev # 0 /\ req[r].period \in {p, Latest}
  <2>1. Found(req[r].coord, req[r].period) \subseteq Periods
    BY DEF Found, CachedPeriods
  <2>2. p \in Found(req[r].coord, req[r].period)
    BY <2>1, PickRowIn
  <2> QED
    BY <2>2 DEF Found, CachedPeriods
<1>3. req' = [req EXCEPT ![r] = [req[r] EXCEPT !.pc = "done", !.answer = NoAnswer, !.out = out]]
  BY DEF Serve
<1> HIDE DEF p
<1>4. /\ out \in Outs /\ out.kind = kind /\ out.rev = cache[req[r].coord][p].rev /\ out.period = p
  BY <1>1, <1>2, Numbers DEF Outs
<1>5. out.rev <= published[req[r].coord][out.period]
  BY <1>1, <1>2, <1>4 DEF CacheInv, StoreOK
<1> HIDE DEF out
<1> QED
  BY <1>2, <1>3, <1>4, <1>5, AnsweredKept

LEMMA ValidateKept == ASSUME CacheInv, NEW r \in Requests, Validate(r) PROVE CacheInv' /\ Grows
<1>1. CASE Matches(r) /\ Goto(r, "read")
  BY <1>1, GotoKept DEF Validate, Matches
<1>2. CASE Reply(r, "invalid")
  BY <1>2, ReplyKept DEF Validate
<1> QED
  BY <1>1, <1>2 DEF Validate

LEMMA ReadKept == ASSUME CacheInv, NEW r \in Requests, Read(r) PROVE CacheInv' /\ Grows
<1> DEFINE found == Found(req[r].coord, req[r].period)
<1>1. CASE found # {} /\ Serve(r, "hit", PickRow(found))
  BY <1>1, ServeKept DEF Read
<1>2. CASE Reply(r, "miss")
  BY <1>2, ReplyKept DEF Read
<1>3. CASE Goto(r, "prime")
  <2>1. req[r].coord = pins[req[r].version]
    BY DEF Read, CacheInv, ReqOK
  <2> QED
    BY <1>3, <2>1, GotoKept DEF Read
<1> QED
  BY <1>1, <1>2, <1>3 DEF Read

LEMMA PrimeKept == ASSUME CacheInv, NEW r \in Requests, Prime(r) PROVE CacheInv' /\ Grows
<1>1. PICK answer \in GetData(req[r].coord, PrimeWindow) :
        req' = [req EXCEPT ![r] = [req[r] EXCEPT
                  !.pc = IF answer = NoAnswer THEN AfterPrime(r) ELSE "persist", !.answer = answer]]
  BY DEF Prime
<1>2. ReqOK(req[r], published, mapping.version, pins) /\ StoreOK(cache, published)
  BY DEF CacheInv
<1>3. req[r].coord \in Coords
  BY <1>2 DEF ReqOK, ReqLocals
<1>4. answer \in Answers /\ \A p \in Periods : answer[p] <= published[req[r].coord][p]
  BY <1>3, AnswersOK
<1> DEFINE pc == IF answer = NoAnswer THEN AfterPrime(r) ELSE "persist"
           v == [req[r] EXCEPT !.pc = pc, !.answer = answer]
<1>5. pc \in {"done", "requery", "persist"}
  BY DEF AfterPrime
<1> HIDE DEF pc
<1>6. /\ v \in ReqLocals /\ v.pc = pc /\ v.coord = req[r].coord /\ v.version = req[r].version
      /\ v.answer = answer /\ v.out = req[r].out /\ v.period = req[r].period
  BY <1>2, <1>4, <1>5 DEF ReqOK, ReqLocals
<1> HIDE DEF v
<1>7. ReqOK(v, published, mapping.version, pins)
  BY <1>2, <1>4, <1>5, <1>6 DEF ReqOK, Prime
<1>8. req' = [req EXCEPT ![r] = v]
  BY <1>1 DEF v, pc
<1> QED
  BY <1>2, <1>7, <1>8, OneRequest DEF Prime

LEMMA PersistKept == ASSUME CacheInv, NEW r \in Requests, Persist(r) PROVE CacheInv' /\ Grows
<1>1. ReqOK(req[r], published, mapping.version, pins) /\ StoreOK(cache, published)
  BY DEF CacheInv
<1>2. /\ req[r].coord \in Coords /\ req[r].answer \in Answers
      /\ \A p \in Periods : req[r].answer[p] <= published[req[r].coord][p]
  BY <1>1 DEF ReqOK, ReqLocals
<1>3. StoreOK(cache', published)
  BY <1>1, <1>2, StoredOK DEF Persist
<1> DEFINE pc == AfterPrime(r)
           v == [req[r] EXCEPT !.pc = pc, !.answer = NoAnswer]
<1>4. pc \in {"done", "requery"}
  BY DEF AfterPrime
<1> HIDE DEF pc
<1>5. /\ v \in ReqLocals /\ v.pc = pc /\ v.coord = req[r].coord /\ v.version = req[r].version
      /\ v.answer = NoAnswer /\ v.out = req[r].out /\ v.period = req[r].period
  BY <1>1, <1>4, NoAnswerIn DEF ReqOK, ReqLocals
<1> HIDE DEF v
<1>6. ReqOK(v, published, mapping.version, pins)
  BY <1>1, <1>2, <1>4, <1>5, NoAnswerIn, Numbers DEF ReqOK, Persist
<1>7. req' = [req EXCEPT ![r] = v]
  BY DEF v, pc, Persist
<1> QED
  BY <1>3, <1>6, <1>7, OneRequest DEF Persist

LEMMA RequeryKept == ASSUME CacheInv, NEW r \in Requests, Requery(r) PROVE CacheInv' /\ Grows
<1> DEFINE found == Found(req[r].coord, req[r].period)
<1>1. CASE found # {} /\ Serve(r, "primed", PickRow(found))
  BY <1>1, ServeKept DEF Requery
<1>2. CASE Reply(r, "miss")
  BY <1>2, ReplyKept DEF Requery
<1> QED
  BY <1>1, <1>2 DEF Requery

LEMMA FinishKept == ASSUME CacheInv, NEW r \in Requests, Finish(r) PROVE CacheInv' /\ Grows
<1>1. ReqOK(Idle, published, mapping.version, pins) /\ StoreOK(cache', published)
  BY IdleOK DEF CacheInv, Finish
<1> QED
  BY <1>1, OneRequest DEF Finish

-----------------------------------------------------------------------------
(* The refresh.                                                             *)

LEMMA NextCoordOK ==
    ASSUME CacheInv, NEW todo \in SUBSET Coords, NEW v \in NextCoord(todo) \cup {Resting}
    PROVE  RefreshOK(v, published)
<1>1. RefreshOK(Resting, published)
  BY RestingOK DEF CacheInv
<1>2. ASSUME NEW c \in todo, v = [Resting EXCEPT !.pc = "fetch", !.todo = todo \ {c}, !.coord = c]
      PROVE  RefreshOK(v, published)
  <2>1. Resting \in RefreshLocals /\ Resting.answer = NoAnswer
    BY <1>1 DEF RefreshOK, Resting
  <2>2. v \in RefreshLocals /\ v.coord = c /\ v.answer = NoAnswer
    BY <1>2, <2>1 DEF RefreshLocals
  <2>3. \A p \in Periods : 0 <= published[c][p]
    BY Numbers
  <2> QED
    BY <2>2, <2>3, NoAnswerIn DEF RefreshOK
<1> QED
  BY <1>1, <1>2 DEF NextCoord

LEMMA RefreshKept == ASSUME CacheInv, RefreshStep PROVE CacheInv' /\ Grows
<1>1. /\ RefreshOK(refresh, published) /\ StoreOK(cache, published)
      /\ refresh \in RefreshLocals /\ refresh.todo \in SUBSET Coords /\ refresh.coord \in Coords
  BY DEF CacheInv, RefreshOK, RefreshLocals
<1>2. CASE RefreshStart
  <2>1. LookupKeys \in SUBSET Coords
    BY DEF LookupKeys
  <2>2. RefreshOK(refresh', published)
    BY <1>2, <2>1, NextCoordOK DEF RefreshStart
  <2> QED
    BY <1>1, <1>2, <2>2, OneRefresh DEF RefreshStart
<1>3. CASE RefreshFetchFails
  <2>1. RefreshOK(refresh', published)
    BY <1>1, <1>3, NextCoordOK DEF RefreshFetchFails
  <2> QED
    BY <1>1, <1>3, <2>1, OneRefresh DEF RefreshFetchFails
<1>4. CASE RefreshSelect
  <2> DEFINE keep == LatestOf(CachedPeriods(refresh.coord), RefreshWindow)
             v == [refresh EXCEPT !.pc = "update", !.keep = keep]
  <2>1. keep \in SUBSET Periods
    BY DEF LatestOf, CachedPeriods
  <2> HIDE DEF keep
  <2>2. v \in RefreshLocals /\ v.coord = refresh.coord /\ v.answer = refresh.answer
    BY <1>1, <2>1 DEF RefreshLocals
  <2>3. refresh' = v
    BY <1>4 DEF RefreshSelect, keep
  <2> HIDE DEF v
  <2>4. RefreshOK(refresh', published)
    BY <1>1, <2>2, <2>3 DEF RefreshOK
  <2> QED
    BY <1>1, <1>4, <2>4, OneRefresh DEF RefreshSelect
<1>5. CASE RefreshUpdate
  <2>1. RefreshOK(refresh', published)
    BY <1>1, <1>5, NextCoordOK DEF RefreshUpdate
  <2>2. StoreOK(cache', published)
    BY <1>1, <1>5, MarkedOK DEF RefreshUpdate
  <2> QED
    BY <1>5, <2>1, <2>2, OneRefresh DEF RefreshUpdate
<1>6. CASE RefreshStoreFails
  <2>1. RefreshOK(refresh', published)
    BY <1>1, <1>6, NextCoordOK DEF RefreshStoreFails
  <2> QED
    BY <1>1, <1>6, <2>1, OneRefresh DEF RefreshStoreFails
<1>7. ASSUME NEW c \in Coords, RefreshFetch(c) PROVE CacheInv' /\ Grows
  <2>1. PICK answer \in GetData(c, RefreshWindow) :
          refresh' = [refresh EXCEPT !.pc = "persist", !.answer = answer]
    BY <1>7 DEF RefreshFetch
  <2>2. answer \in Answers /\ \A p \in Periods : answer[p] <= published[c][p]
    BY AnswersOK
  <2> DEFINE v == [refresh EXCEPT !.pc = "persist", !.answer = answer]
  <2>3. v \in RefreshLocals /\ v.coord = c /\ v.answer = answer
    BY <1>1, <1>7, <2>2 DEF RefreshLocals, RefreshFetch
  <2> HIDE DEF v
  <2>4. RefreshOK(v, published)
    BY <2>2, <2>3 DEF RefreshOK
  <2>5. refresh' = v
    BY <2>1 DEF v
  <2> QED
    BY <1>1, <1>7, <2>4, <2>5, OneRefresh DEF RefreshFetch
<1>8. ASSUME NEW c \in Coords, RefreshPersist(c) PROVE CacheInv' /\ Grows
  <2>1. refresh.answer \in Answers /\ \A p \in Periods : refresh.answer[p] <= published[c][p]
    BY <1>1, <1>8 DEF RefreshOK, RefreshLocals, RefreshPersist
  <2>2. StoreOK(cache', published)
    BY <1>8, <2>1, StoredOK DEF RefreshPersist
  <2> DEFINE v == [refresh EXCEPT !.pc = "select", !.answer = NoAnswer]
  <2>3. v \in RefreshLocals /\ v.coord = c /\ v.answer = NoAnswer
    BY <1>1, <1>8, NoAnswerIn DEF RefreshLocals, RefreshPersist
  <2>4. refresh' = v
    BY <1>8 DEF RefreshPersist
  <2> HIDE DEF v
  <2>5. RefreshOK(refresh', published)
    BY <2>3, <2>4, NoAnswerIn, Numbers DEF RefreshOK
  <2> QED
    BY <1>8, <2>2, <2>5, OneRefresh DEF RefreshPersist
<1> QED
  BY <1>2, <1>3, <1>4, <1>5, <1>6, <1>7, <1>8 DEF RefreshStep

-----------------------------------------------------------------------------
(* The snapshots.                                                           *)

\* A snapshot, once taken, is one answer of resolve_value for its block.
SnapOK(s, b, pub, version, pinned) ==
    /\ s.coord \in Coords
    /\ s.version # 0 =>
         /\ s.version \in 1 .. version /\ s.coord = pinned[s.version]
         /\ s.period \in Periods /\ Pinned[b] \in {s.period, Latest}
         /\ s.rev \in 1 .. pub[s.coord][s.period]

SnapsOK(snaps, pub, version, pinned) ==
    /\ snaps = [b \in Blocks |-> snaps[b]]
    /\ \A b \in Blocks : SnapOK(snaps[b], b, pub, version, pinned)

\* The publish request resolves a block of its own with that block's period.
PublisherOK ==
    /\ publisher = [pc |-> publisher.pc, todo |-> publisher.todo, block |-> publisher.block,
                    taken |-> publisher.taken]
    /\ publisher.todo \subseteq Blocks
    /\ SnapsOK(publisher.taken, published, mapping.version, pins)
    /\ publisher.pc = "resolve" =>
         publisher.block \in Blocks /\ req[Publisher].period = Pinned[publisher.block]

ComparerOK ==
    /\ comparer = [pc |-> comparer.pc, rows |-> comparer.rows, todo |-> comparer.todo,
                   block |-> comparer.block, results |-> comparer.results]
    /\ \A b \in Blocks : comparer.rows[b].coord \in Coords
    /\ comparer.todo \subseteq Blocks
    /\ comparer.pc = "next" => comparer.todo # {}

StaleInv ==
    /\ CacheInv
    /\ SnapsOK(snapshots, published, mapping.version, pins)
    /\ PublisherOK
    /\ ComparerOK

LEMMA NoSnapshotsOK ==
    ASSUME NEW pub \in [Coords -> Answers], NEW version, NEW pinned
    PROVE  SnapsOK([b \in Blocks |-> NoSnapshot], pub, version, pinned)
<1>1. NoSnapshot.coord \in Coords /\ NoSnapshot.version = 0
  BY IdleOK DEF NoSnapshot
<1> HIDE DEF NoSnapshot
<1> QED
  BY <1>1 DEF SnapsOK, SnapOK

\* Snapshots are not disturbed by what is published and saved later.
LEMMA SnapsGrow ==
    ASSUME CacheInv, CacheInv', Grows, NEW snaps, SnapsOK(snaps, published, mapping.version, pins)
    PROVE  SnapsOK(snaps, published', mapping'.version, pins')
<1>1. /\ mapping.version \in Nat /\ mapping'.version \in Nat /\ mapping.version <= mapping'.version
      /\ \A c \in Coords, p \in Periods : published[c][p] \in Nat /\ published'[c][p] \in Nat
  BY DEF CacheInv, Answers, Grows
<1>2. ASSUME NEW b \in Blocks, snaps[b].version # 0
      PROVE  SnapOK(snaps[b], b, published', mapping'.version, pins')
  <2> DEFINE s == snaps[b]
  <2>1. /\ s.version \in 1 .. mapping.version /\ s.coord = pins[s.version] /\ s.coord \in Coords
        /\ s.period \in Periods /\ Pinned[b] \in {s.period, Latest}
        /\ s.rev \in 1 .. published[s.coord][s.period]
    BY <1>2 DEF SnapsOK, SnapOK
  <2> HIDE DEF s
  <2>2. s.version \in 1 .. mapping'.version /\ pins'[s.version] = pins[s.version]
    BY <1>1, <2>1 DEF Grows
  <2>3. s.rev \in 1 .. published'[s.coord][s.period]
    BY <1>1, <2>1 DEF Grows
  <2> QED
    BY <2>1, <2>2, <2>3 DEF SnapOK, s
<1>3. ASSUME NEW b \in Blocks, snaps[b].version = 0
      PROVE  SnapOK(snaps[b], b, published', mapping'.version, pins')
  BY <1>3 DEF SnapsOK, SnapOK
<1> QED
  BY <1>2, <1>3 DEF SnapsOK

\* A block's period is one that callers may ask for.
LEMMA PinnedIn == \A p \in AskedPeriods : p \in Periods \cup {Latest}
<1> SUFFICES ASSUME NEW p \in AskedPeriods PROVE p \in Periods \cup {Latest}
  OBVIOUS
<1>1. p \in 0 .. MaxPeriod + 1 /\ MaxPeriod \in Nat
  OBVIOUS
<1>2. p \in 0 .. MaxPeriod \/ p = MaxPeriod + 1
  BY <1>1
<1> QED
  BY <1>2 DEF Periods, Latest

-----------------------------------------------------------------------------
(* One lemma for each kind of step.                                         *)

\* A step of the cache that leaves the publisher's block alone.
LEMMA CacheKept ==
    ASSUME StaleInv, CacheInv', Grows,
           UNCHANGED <<snapshots, publisher, comparer>>,
           publisher.pc = "resolve" => req'[Publisher].period = req[Publisher].period
    PROVE  StaleInv'
<1>1. SnapsOK(snapshots', published', mapping'.version, pins')
  BY SnapsGrow DEF StaleInv
<1>2. SnapsOK(publisher'.taken, published', mapping'.version, pins')
  BY SnapsGrow DEF StaleInv, PublisherOK
<1>3. PublisherOK'
  BY <1>2 DEF StaleInv, PublisherOK
<1>4. ComparerOK'
  BY DEF StaleInv, ComparerOK
<1> QED
  BY <1>1, <1>3, <1>4 DEF StaleInv

LEMMA SameCache == ASSUME CacheInv, UNCHANGED vvars PROVE CacheInv' /\ Grows
<1>1. CacheInv'
  BY DEF CacheInv, vvars
<1> QED
  BY <1>1, Numbers DEF Grows, vvars

\* A request is left alone by the steps of the others.
LEMMA OthersKept ==
    ASSUME CacheInv, NEW q \in Requests, NEW r \in Requests \ {q}, NEW v, req' = [req EXCEPT ![r] = v]
    PROVE  req'[q] = req[q]
<1>1. req = [s \in Requests |-> req[s]]
  BY DEF CacheInv
<1> QED
  BY <1>1

\* Requests keep the period they were asked with until they are finished.
LEMMA PeriodKept ==
    ASSUME CacheInv, NEW r \in Requests, RequestStep(r)
    PROVE  \A q \in Requests : req'[q].period = req[q].period
<1>1. req[r] \in ReqLocals /\ req = [s \in Requests |-> req[s]]
  BY DEF CacheInv, ReqOK
<1>2. ASSUME NEW v, req' = [req EXCEPT ![r] = v], v.period = req[r].period
      PROVE  \A q \in Requests : req'[q].period = req[q].period
  BY <1>1, <1>2
<1>3. ASSUME NEW pc, Goto(r, pc) PROVE \A q \in Requests : req'[q].period = req[q].period
  <2>1. [req[r] EXCEPT !.pc = pc].period = req[r].period
    BY <1>1 DEF ReqLocals
  <2> QED
    BY <1>2, <1>3, <2>1 DEF Goto
<1>4. ASSUME NEW pc, NEW answer, NEW out,
             req' = [req EXCEPT ![r] = [req[r] EXCEPT !.pc = pc, !.answer = answer, !.out = out]]
      PROVE  \A q \in Requests : req'[q].period = req[q].period
  <2>1. [req[r] EXCEPT !.pc = pc, !.answer = answer, !.out = out].period = req[r].period
    BY <1>1 DEF ReqLocals
  <2> QED
    BY <1>2, <1>4, <2>1
<1>5. ASSUME NEW pc, NEW answer,
             req' = [req EXCEPT ![r] = [req[r] EXCEPT !.pc = pc, !.answer = answer]]
      PROVE  \A q \in Requests : req'[q].period = req[q].period
  <2>1. [req[r] EXCEPT !.pc = pc, !.answer = answer].period = req[r].period
    BY <1>1 DEF ReqLocals
  <2> QED
    BY <1>2, <1>5, <2>1
<1>6. ASSUME NEW kind, Reply(r, kind) PROVE \A q \in Requests : req'[q].period = req[q].period
  BY <1>4, <1>6 DEF Reply
<1>7. ASSUME NEW kind, NEW p, Serve(r, kind, p) PROVE \A q \in Requests : req'[q].period = req[q].period
  BY <1>4, <1>7 DEF Serve
<1>8. CASE Validate(r)
  BY <1>3, <1>6, <1>8 DEF Validate
<1>9. CASE Read(r)
  BY <1>3, <1>6, <1>7, <1>9 DEF Read
<1>10. CASE Prime(r)
  BY <1>5, <1>10 DEF Prime
<1>11. CASE Persist(r)
  BY <1>5, <1>11 DEF Persist
<1>12. CASE Requery(r)
  BY <1>6, <1>7, <1>12 DEF Requery
<1> QED
  BY <1>8, <1>9, <1>10, <1>11, <1>12 DEF RequestStep

LEMMA RequestKept == ASSUME CacheInv, NEW r \in Requests, RequestStep(r) PROVE CacheInv' /\ Grows
BY ValidateKept, ReadKept, PrimeKept, PersistKept, RequeryKept DEF RequestStep

LEMMA CallerKept ==
    ASSUME CacheInv, NEW r \in Requests, CallerStep(r)
    PROVE  CacheInv' /\ Grows /\ \A q \in Requests \ {r} : req'[q] = req[q]
<1>1. ASSUME NEW c \in Coords, SaveMapping(r, c)
      PROVE  CacheInv' /\ Grows /\ \A q \in Requests \ {r} : req'[q] = req[q]
  <2>1. \E v : req' = [req EXCEPT ![r] = v]
    BY <1>1 DEF SaveMapping
  <2> QED
    BY <1>1, <2>1, SaveMappingKept, OthersKept
<1>2. ASSUME NEW c \in Coords, NEW p \in AskedPeriods, Ask(r, "resolve", c, p)
      PROVE  CacheInv' /\ Grows /\ \A q \in Requests \ {r} : req'[q] = req[q]
  <2>1. \E v : req' = [req EXCEPT ![r] = v]
    BY <1>2 DEF Ask
  <2>2. p \in Periods \cup {Latest}
    BY PinnedIn
  <2> QED
    BY <1>2, <2>1, <2>2, AskKept, OthersKept
<1> QED
  BY <1>1, <1>2 DEF CallerStep

LEMMA CacheStepKept == ASSUME StaleInv, CacheStep PROVE StaleInv'
<1>1. CacheInv /\ UNCHANGED <<snapshots, publisher, comparer>>
  BY DEF StaleInv, CacheStep
<1>2. CASE StatCanStep
  <2>1. CacheInv' /\ Grows /\ req' = req
    BY <1>1, <1>2, ReleaseKept DEF StatCanStep, Release
  <2> QED
    BY <1>1, <2>1, CacheKept
<1>3. CASE RefreshStep
  <2>1. CacheInv' /\ Grows
    BY <1>1, <1>3, RefreshKept
  <2>2. req' = req
    BY <1>3 DEF RefreshStep, RefreshStart, RefreshFetchFails, RefreshSelect, RefreshUpdate, RefreshStoreFails,
       RefreshFetch, RefreshPersist
  <2> QED
    BY <1>1, <2>1, <2>2, CacheKept
<1>4. ASSUME NEW r \in Requests, RequestStep(r) PROVE StaleInv'
  BY <1>1, <1>4, RequestKept, PeriodKept, CacheKept
<1>5. ASSUME NEW r \in Requests, ~Waiting(r), Finish(r) PROVE StaleInv'
  <2>1. CacheInv' /\ Grows
    BY <1>1, <1>5, FinishKept
  <2>2. publisher.pc = "resolve" => r # Publisher
    BY <1>5 DEF Waiting
  <2>3. publisher.pc = "resolve" => req'[Publisher] = req[Publisher]
    BY <1>1, <1>5, <2>2, OthersKept DEF Finish
  <2> QED
    BY <1>1, <2>1, <2>3, CacheKept
<1>6. CASE SoftDelete
  <2>1. CacheInv' /\ Grows /\ req' = req
    BY <1>1, <1>6, SoftDeleteKept DEF SoftDelete
  <2> QED
    BY <1>1, <2>1, CacheKept
<1>7. ASSUME NEW r \in Requests \ {Publisher}, CallerStep(r) PROVE StaleInv'
  <2>1. CacheInv' /\ Grows /\ req'[Publisher] = req[Publisher]
    BY <1>1, <1>7, CallerKept
  <2> QED
    BY <1>1, <2>1, CacheKept
<1> QED
  BY <1>2, <1>3, <1>4, <1>5, <1>6, <1>7 DEF CacheStep

\* A step of a capture or a comparison that only changes its own variables.
LEMMA OwnStep ==
    ASSUME StaleInv, CacheInv', Grows,
           SnapsOK(snapshots', published, mapping.version, pins), PublisherOK', ComparerOK'
    PROVE  StaleInv'
BY SnapsGrow DEF StaleInv

\* A snapshot taken from an answer.
LEMMA FingerprintOK ==
    ASSUME CacheInv, NEW b \in Blocks, req[Publisher].period = Pinned[b],
           req[Publisher].out.kind \in {"hit", "primed"}
    PROVE  SnapOK(Fingerprint(req[Publisher]), b, published, mapping.version, pins)
<1> DEFINE v == req[Publisher]
<1>1. ReqOK(v, published, mapping.version, pins)
  BY DEF CacheInv
<1>2. /\ v.coord \in Coords /\ v.out.period \in Periods /\ v.out.rev \in Nat
      /\ v.version \in 1 .. mapping.version /\ v.coord = pins[v.version]
      /\ v.period \in {v.out.period, Latest} /\ v.out.rev # 0
      /\ v.out.rev <= published[v.coord][v.out.period]
  BY <1>1 DEF ReqOK, ReqLocals, Outs
<1>3. published[v.coord][v.out.period] \in Nat
  BY <1>2, Numbers
<1> HIDE DEF v
<1>4. v.out.rev \in 1 .. published[v.coord][v.out.period]
  BY <1>2, <1>3
<1>5. Pinned[b] \in {v.out.period, Latest}
  BY <1>2 DEF v
<1>6. v = req[Publisher]
  BY DEF v
<1> QED
  BY <1>2, <1>4, <1>5, <1>6 DEF SnapOK, Fingerprint

LEMMA PublishStepKept == ASSUME StaleInv, PublishStep PROVE StaleInv'
<1>1. /\ CacheInv /\ PublisherOK /\ ComparerOK /\ SnapsOK(snapshots, published, mapping.version, pins)
      /\ published \in [Coords -> Answers]
  BY DEF StaleInv, CacheInv
<1>2. comparer' = comparer /\ ComparerOK'
  BY <1>1 DEF PublishStep, Publish, CaptureBlock, CaptureStore, PublishCommit, PublishFails, ComparerOK
<1> DEFINE before == SnapsOK(publisher.taken, published, mapping.version, pins)
           after == SnapsOK(publisher'.taken, published, mapping.version, pins)
           shape == publisher' = [pc |-> publisher'.pc, todo |-> publisher'.todo, block |-> publisher'.block,
                                  taken |-> publisher'.taken]
<1>3. /\ SnapsOK(NotPublishing.taken, published, mapping.version, pins)
      /\ NotPublishing.todo = {} /\ NotPublishing.pc = "idle"
  BY <1>1, NoSnapshotsOK DEF NotPublishing
<1>4. ASSUME CacheInv', Grows, UNCHANGED snapshots, shape, publisher'.todo \subseteq Blocks, after,
             publisher'.pc = "resolve" =>
               publisher'.block \in Blocks /\ req'[Publisher].period = Pinned[publisher'.block]
      PROVE  StaleInv'
  <2>1. SnapsOK(publisher'.taken, published', mapping'.version, pins')
    BY <1>1, <1>4, SnapsGrow
  <2>2. PublisherOK'
    BY <1>4, <2>1 DEF PublisherOK
  <2> QED
    BY <1>1, <1>2, <1>4, <2>2, OwnStep
<1>5. ASSUME NEW bound \in (SUBSET Blocks) \ {{}}, Publish(bound) PROVE StaleInv'
  <2>1. /\ publisher'.todo = bound /\ publisher'.pc = "next" /\ publisher'.taken = NotPublishing.taken
        /\ shape
    BY <1>5 DEF Publish, NotPublishing
  <2>2. CacheInv' /\ Grows
    BY <1>1, <1>5, SameCache DEF Publish
  <2> QED
    BY <1>3, <1>4, <1>5, <2>1, <2>2 DEF Publish
<1>6. CASE PublishFails
  <2>1. publisher' = NotPublishing /\ shape
    BY <1>6 DEF PublishFails, NotPublishing
  <2>2. CacheInv' /\ Grows
    BY <1>1, <1>6, SameCache DEF PublishFails
  <2> QED
    BY <1>3, <1>4, <1>6, <2>1, <2>2 DEF PublishFails
<1>7. ASSUME NEW c \in Coords, CaptureBlock(c) PROVE StaleInv'
  <2> DEFINE b == First(publisher.todo)
  <2>1. b \in Blocks /\ publisher.todo \subseteq Blocks /\ before
    BY <1>1, <1>7, FirstIn DEF CaptureBlock, PublisherOK
  <2> HIDE DEF b
  <2>2. CASE /\ publisher' = [publisher EXCEPT !.pc = "resolve", !.todo = publisher.todo \ {b}, !.block = b]
             /\ Ask(Publisher, "resolve", c, Pinned[b])
    <3>1. Pinned[b] \in Periods \cup {Latest}
      BY <2>1, PinnedIn
    <3>2. CacheInv' /\ Grows /\ req'[Publisher].period = Pinned[b]
      BY <1>1, <2>2, <3>1, AskKept
    <3>3. /\ shape /\ publisher'.todo = publisher.todo \ {b} /\ publisher'.block = b
          /\ publisher'.taken = publisher.taken
      BY <1>1, <2>2 DEF PublisherOK
    <3> QED
      BY <1>4, <1>7, <2>1, <3>2, <3>3 DEF CaptureBlock
  <2>3. CASE publisher' = [publisher EXCEPT !.todo = publisher.todo \ {b}] /\ UNCHANGED vvars
    <3>1. /\ shape /\ publisher'.todo = publisher.todo \ {b} /\ publisher'.pc = publisher.pc
          /\ publisher'.taken = publisher.taken
      BY <1>1, <2>3 DEF PublisherOK
    <3>2. CacheInv' /\ Grows
      BY <1>1, <2>3, SameCache
    <3> QED
      BY <1>4, <1>7, <2>1, <3>1, <3>2 DEF CaptureBlock
  <2> QED
    BY <1>7, <2>2, <2>3 DEF CaptureBlock, b
<1>8. CASE CaptureStore
  <2> DEFINE b == publisher.block
             kind == req[Publisher].out.kind
             new == IF kind \in {"hit", "primed"}
                    THEN UpsertForBlock(publisher.taken, b, Fingerprint(req[Publisher])) ELSE publisher.taken
  <2>1. before /\ publisher.todo \subseteq Blocks /\ b \in Blocks /\ req[Publisher].period = Pinned[b]
    BY <1>1, <1>8 DEF PublisherOK, CaptureStore
  <2>2. ASSUME kind \in {"hit", "primed"} PROVE SnapsOK(new, published, mapping.version, pins)
    <3>1. SnapOK(Fingerprint(req[Publisher]), b, published, mapping.version, pins)
      BY <1>1, <2>1, <2>2, FingerprintOK
    <3>2. new = [publisher.taken EXCEPT ![b] = Fingerprint(req[Publisher])]
      BY <2>2 DEF UpsertForBlock
    <3> QED
      BY <2>1, <3>1, <3>2 DEF SnapsOK
  <2>3. SnapsOK(new, published, mapping.version, pins)
    BY <2>1, <2>2
  <2>4. publisher' = [publisher EXCEPT !.pc = "next", !.block = NoBlock, !.taken = new]
    BY <1>8 DEF CaptureStore
  <2> HIDE DEF new
  <2>5. shape /\ publisher'.taken = new /\ publisher'.pc = "next" /\ publisher'.todo = publisher.todo
    BY <1>1, <2>4 DEF PublisherOK
  <2>6. CacheInv' /\ Grows
    BY <1>1, <1>8, FinishKept DEF CaptureStore
  <2> QED
    BY <1>4, <1>8, <2>1, <2>3, <2>5, <2>6 DEF CaptureStore
<1>9. CASE PublishCommit
  <2>1. SnapsOK(snapshots', published, mapping.version, pins)
    BY <1>1, <1>9 DEF PublishCommit, SnapsOK, PublisherOK
  <2>2. publisher' = NotPublishing /\ shape
    BY <1>9 DEF PublishCommit, NotPublishing
  <2>3. CacheInv' /\ Grows
    BY <1>1, <1>9, SameCache DEF PublishCommit
  <2>4. SnapsOK(publisher'.taken, published', mapping'.version, pins')
    BY <1>1, <1>3, <2>2, <2>3, SnapsGrow
  <2>5. PublisherOK'
    BY <1>3, <2>2, <2>4 DEF PublisherOK
  <2> QED
    BY <1>1, <1>2, <2>1, <2>3, <2>5, OwnStep
<1> QED
  BY <1>5, <1>6, <1>7, <1>8, <1>9, <1>1 DEF PublishStep

LEMMA CompareStepKept == ASSUME StaleInv, CompareStep PROVE StaleInv'
<1>1. /\ CacheInv /\ PublisherOK /\ ComparerOK /\ SnapsOK(snapshots, published, mapping.version, pins)
      /\ Publisher \in Requests \ {Comparer} /\ published \in [Coords -> Answers]
  BY DEF StaleInv, CacheInv
<1>2. UNCHANGED <<snapshots, publisher>>
  BY DEF CompareStep, Compare, CompareBlock, CompareResult, CompareEnds
<1>3. ASSUME CacheInv', Grows, req'[Publisher] = req[Publisher], ComparerOK' PROVE StaleInv'
  <2>1. SnapsOK(publisher'.taken, published', mapping'.version, pins')
    BY <1>1, <1>2, <1>3, SnapsGrow DEF PublisherOK
  <2>2. PublisherOK'
    BY <1>1, <1>2, <1>3, <2>1 DEF PublisherOK
  <2> QED
    BY <1>1, <1>2, <1>3, <2>2, OwnStep
<1>4. ASSUME UNCHANGED vvars PROVE CacheInv' /\ Grows /\ req'[Publisher] = req[Publisher]
  BY <1>1, <1>4, SameCache DEF vvars
<1>5. NoSnapshot.coord \in Coords
  BY <1>1, IdleOK DEF NoSnapshot
<1>6. CASE Compare
  <2> DEFINE pc == IF Saved(snapshots) = {} THEN "done" ELSE "next"
  <2>1. Saved(snapshots) \subseteq Blocks
    BY DEF Saved
  <2>2. pc = "next" => Saved(snapshots) # {}
    OBVIOUS
  <2>3. \A b \in Blocks : snapshots[b].coord \in Coords
    BY <1>1 DEF SnapsOK, SnapOK
  <2>4. comparer' = [NotComparing EXCEPT !.rows = snapshots, !.todo = Saved(snapshots), !.pc = pc]
    BY <1>6 DEF Compare
  <2> HIDE DEF pc
  <2>5. ComparerOK'
    BY <2>1, <2>2, <2>3, <2>4 DEF ComparerOK, NotComparing
  <2> QED
    BY <1>3, <1>4, <1>6, <2>5 DEF Compare
<1>7. CASE CompareBlock
  <2> DEFINE b == First(comparer.todo)
  <2>1. b \in Blocks /\ comparer.todo \subseteq Blocks
    BY <1>1, <1>7, FirstIn DEF CompareBlock, ComparerOK
  <2>2. /\ comparer' = [comparer EXCEPT !.pc = "resolve", !.todo = comparer.todo \ {b}, !.block = b]
        /\ Ask(Comparer, "compare", comparer.rows[b].coord, Pinned[b])
    BY <1>7 DEF CompareBlock
  <2> HIDE DEF b
  <2>3. Pinned[b] \in Periods \cup {Latest} /\ comparer.rows[b].coord \in Coords
    BY <1>1, <2>1, PinnedIn DEF ComparerOK
  <2>4. CacheInv' /\ Grows
    BY <1>1, <2>2, <2>3, AskKept
  <2>5. req'[Publisher] = req[Publisher]
    BY <1>1, <2>2, OthersKept DEF Ask
  <2>6. ComparerOK'
    BY <1>1, <2>1, <2>2 DEF ComparerOK
  <2> QED
    BY <1>3, <2>4, <2>5, <2>6
<1>8. CASE CompareResult
  <2> DEFINE pc == IF comparer.todo = {} THEN "done" ELSE "next"
  <2>1. \E results : comparer' = [comparer EXCEPT !.pc = pc, !.block = NoBlock, !.results = results]
    BY <1>8 DEF CompareResult
  <2>2. pc = "next" => comparer.todo # {}
    OBVIOUS
  <2> HIDE DEF pc
  <2>3. ComparerOK'
    BY <1>1, <2>1, <2>2 DEF ComparerOK
  <2>4. CacheInv' /\ Grows
    BY <1>1, <1>8, FinishKept DEF CompareResult
  <2>5. req'[Publisher] = req[Publisher]
    BY <1>1, <1>8, OthersKept DEF CompareResult, Finish
  <2> QED
    BY <1>3, <2>3, <2>4, <2>5
<1>9. CASE CompareEnds
  <2>1. ComparerOK'
    BY <1>5, <1>9 DEF CompareEnds, ComparerOK, NotComparing
  <2> QED
    BY <1>3, <1>4, <1>9, <2>1 DEF CompareEnds
<1> QED
  BY <1>6, <1>7, <1>8, <1>9 DEF CompareStep

-----------------------------------------------------------------------------
(* The invariant, and what it implies.                                      *)

LEMMA InitOK == StaleInit => StaleInv
<1> SUFFICES ASSUME StaleInit PROVE StaleInv
  OBVIOUS
<1> DEFINE a == [p \in Periods |-> IF p = 1 THEN 1 ELSE 0]
<1>1. a \in Answers /\ \A p \in Periods : 0 <= a[p]
  BY DEF Answers
<1>2. published \in [Coords -> {a}]
  BY DEF StaleInit, ValueInit
<1> HIDE DEF a
<1>3. published \in [Coords -> Answers] /\ \A c \in Coords, p \in Periods : 0 <= published[c][p]
  BY <1>1, <1>2
<1>4. StoreOK(cache, published)
  BY <1>3 DEF StaleInit, ValueInit, StoreOK, NoRow, Rows
<1>5. RefreshOK(refresh, published)
  BY <1>3, RestingOK DEF StaleInit, ValueInit
<1>6. /\ req = [r \in Requests |-> req[r]]
      /\ \A r \in Requests : ReqOK(req[r], published, mapping.version, pins)
  BY <1>3, IdleOK DEF StaleInit, ValueInit
<1>7. pins \in [1 .. MaxVersion -> Coords]
  BY <1>3, IdleOK DEF StaleInit, ValueInit
<1>8. CacheInv
  <2>1. releases \in 0 .. MaxReleases
    BY DEF StaleInit, ValueInit
  <2>2. mapping \in [active : BOOLEAN, version : 1 .. MaxVersion]
    BY DEF StaleInit, ValueInit
  <2> QED
    BY <1>3, <1>4, <1>5, <1>6, <1>7, <2>1, <2>2 DEF CacheInv
<1>9. SnapsOK(snapshots, published, mapping.version, pins)
  BY <1>3, NoSnapshotsOK DEF StaleInit
<1>10. SnapsOK(NotPublishing.taken, published, mapping.version, pins)
  BY <1>3, NoSnapshotsOK DEF NotPublishing
<1>11. PublisherOK
  BY <1>10 DEF StaleInit, PublisherOK, NotPublishing
<1>12. NoSnapshot.coord \in Coords
  BY <1>3, IdleOK DEF NoSnapshot
<1>13. ComparerOK
  BY <1>12 DEF StaleInit, ComparerOK, NotComparing
<1> QED
  BY <1>8, <1>9, <1>11, <1>13 DEF StaleInv

LEMMA StepKept == StaleInv /\ [StaleNext]_vars => StaleInv'
<1> SUFFICES ASSUME StaleInv, [StaleNext]_vars PROVE StaleInv'
  OBVIOUS
<1>1. CASE UNCHANGED vars
  <2>1. CacheInv' /\ Grows
    BY <1>1, SameCache DEF StaleInv, vars
  <2>2. UNCHANGED <<snapshots, publisher, comparer, req>>
    BY <1>1 DEF vars, svars, vvars
  <2> QED
    BY <2>1, <2>2, CacheKept
<1> QED
  BY <1>1, CacheStepKept, PublishStepKept, CompareStepKept DEF StaleNext

LEMMA Invariant == StaleSpec => []StaleInv
BY InitOK, StepKept, PTL DEF StaleSpec

LEMMA ValuesHold == StaleInv => ValueInv /\ NoCoordDrift
<1> SUFFICES ASSUME StaleInv PROVE ValueInv /\ NoCoordDrift
  OBVIOUS
<1>1. CacheInv /\ \A r \in Requests : ReqOK(req[r], published, mapping.version, pins)
  BY DEF StaleInv, CacheInv
<1>2. TypeOK
  BY <1>1 DEF CacheInv, StoreOK, RefreshOK, ReqOK, TypeOK, RefreshLocals, ReqLocals, Outs
<1>3. Genuine
  BY <1>1 DEF CacheInv, StoreOK, RefreshOK, ReqOK, Genuine
<1>4. OnPinnedCell
  BY <1>1 DEF ReqOK, OnPinnedCell
<1>5. NoCoordDrift
  BY <1>1 DEF ReqOK, NoCoordDrift
<1> QED
  BY <1>2, <1>3, <1>4, <1>5 DEF ValueInv

LEMMA SnapshotsHold == StaleInv => SnapshotsGenuine
<1> SUFFICES ASSUME StaleInv, NEW b \in Saved(snapshots)
             PROVE  /\ snapshots[b].version <= mapping.version
                    /\ snapshots[b].coord = pins[snapshots[b].version]
                    /\ Pinned[b] \in {snapshots[b].period, Latest}
                    /\ snapshots[b].rev \in 1 .. published[snapshots[b].coord][snapshots[b].period]
  BY DEF SnapshotsGenuine
<1>1. b \in Blocks /\ snapshots[b].version # 0 /\ SnapOK(snapshots[b], b, published, mapping.version, pins)
  BY DEF Saved, StaleInv, SnapsOK
<1>2. mapping.version \in Nat
  BY Numbers DEF StaleInv
<1> QED
  BY <1>1, <1>2 DEF SnapOK

-----------------------------------------------------------------------------
(* A comparison during which nothing is written.                            *)

\* What the comparison has said of a snapshot is still so.
JudgedAs(b, result) ==
    \/ result.status = "fresh" /\ Unchanged(b)
    \/ result.status = "stale" /\ ~Unchanged(b)
    \/ result.status = "unknown" /\ result.reasons = {"failed"}

\* The resolve of block b, with the cache and the mapping as it has found them.
Resolving(b) ==
    LET v == req[Comparer] IN
    /\ v.task = "compare" /\ v.coord = snapshots[b].coord /\ v.period = Pinned[b]
    /\ v.version = mapping.version /\ v.pc \in {"validate", "read", "done"}
    /\ v.pc # "done" => mapping.active
    /\ v.pc = "done" /\ v.out.kind = "hit" =>
         /\ mapping.active /\ Found(v.coord, v.period) # {}
         /\ v.out.period = PickRow(Found(v.coord, v.period))
         /\ v.out.rev = cache[v.coord][v.out.period].rev
         /\ v.out.stale = cache[v.coord][v.out.period].stale

Judging ==
    /\ comparer.rows = snapshots
    /\ comparer.todo \subseteq Saved(snapshots)
    /\ \A b \in Blocks \ Saved(snapshots) : comparer.results[b] = NoResult
    /\ \A b \in Saved(snapshots) :
         \/ b \in comparer.todo
         \/ comparer.pc = "resolve" /\ b = comparer.block
         \/ JudgedAs(b, comparer.results[b])
    /\ comparer.pc = "resolve" => comparer.block \in Saved(snapshots) /\ Resolving(comparer.block)

QuietInv ==
    /\ comparer.results = [b \in Blocks |-> comparer.results[b]]
    /\ comparer.pc = "done" => comparer.todo = {}
    /\ comparer.pc # "idle" /\ ~moved => Judging

LEMMA UnchangedKept ==
    ASSUME UNCHANGED <<cache, mapping, snapshots>>, NEW b \in Blocks
    PROVE  Unchanged(b)' <=> Unchanged(b)
BY DEF Unchanged, Found, CachedPeriods

\* A comparison finds no drift exactly when the cache gives the snapshot itself.
LEMMA NoDrift ==
    ASSUME NEW snap, NEW now
    PROVE  Drift(snap, now) = {} <=>
             /\ snap.version = now.version /\ snap.coord = now.coord /\ snap.period = now.period
             /\ snap.rev = now.rev /\ ~now.stale
<1> DEFINE names == {"mapping_version", "source_hash", "value", "missing", "is_stale"}
<1>1. "mapping_version" \in Drift(snap, now) <=> snap.version # now.version
  BY DEF Drift
<1>2. "source_hash" \in Drift(snap, now) <=> Hash(snap) # Hash(now)
  BY DEF Drift
<1>3. "value" \in Drift(snap, now) <=> ValueOf[snap.rev] # ValueOf[now.rev]
  BY DEF Drift
<1>4. "missing" \in Drift(snap, now) <=> MissingOf[snap.rev] # MissingOf[now.rev]
  BY DEF Drift
<1>5. "is_stale" \in Drift(snap, now) <=> now.stale
  BY DEF Drift
<1>6. Drift(snap, now) \subseteq names
  BY DEF Drift
<1>7. Hash(snap) = Hash(now) <=> snap.coord = now.coord /\ snap.period = now.period /\ snap.rev = now.rev
  BY DEF Hash
<1> QED
  BY <1>1, <1>2, <1>3, <1>4, <1>5, <1>6, <1>7

\* The answer of a resolve during which nothing was written judges the snapshot rightly.
LEMMA ResultRight ==
    ASSUME CacheInv, NEW b \in Blocks, Resolving(b), req[Comparer].pc = "done"
    PROVE  JudgedAs(b, Result(snapshots[b], req[Comparer]))
<1> DEFINE v == req[Comparer]
           snap == snapshots[b]
           now == Fingerprint(v)
           res == Result(snap, v)
<1>1. CASE v.out.kind # "hit"
  BY <1>1 DEF Result, JudgedAs
<1>2. CASE v.out.kind = "hit"
  <2>1. /\ now.version = v.version /\ now.coord = v.coord /\ now.period = v.out.period
        /\ now.rev = v.out.rev /\ now.stale = v.out.stale
    BY DEF Fingerprint
  <2>2. /\ v.coord = snap.coord /\ v.period = Pinned[b] /\ v.version = mapping.version /\ mapping.active
        /\ Found(snap.coord, Pinned[b]) # {} /\ v.out.period = PickRow(Found(snap.coord, Pinned[b]))
        /\ v.out.rev = cache[snap.coord][v.out.period].rev
        /\ v.out.stale = cache[snap.coord][v.out.period].stale
    BY <1>2 DEF Resolving
  <2>3. v.coord \in Coords /\ v.out.period \in Periods
    BY DEF CacheInv, ReqOK, ReqLocals, Outs
  <2>4. cache[snap.coord][v.out.period] \in Rows
    BY <2>2, <2>3 DEF CacheInv, StoreOK
  <2>5. cache[snap.coord][v.out.period] = [rev |-> v.out.rev, stale |-> v.out.stale] /\ v.out.stale \in BOOLEAN
    BY <2>2, <2>4 DEF Rows
  <2>6. Unchanged(b) <=> /\ mapping.version = snap.version /\ v.out.period = snap.period
                         /\ cache[snap.coord][snap.period] = [rev |-> snap.rev, stale |-> FALSE]
    BY <2>2 DEF Unchanged
  <2>7. Unchanged(b) <=> /\ snap.version = now.version /\ snap.coord = now.coord /\ snap.period = now.period
                         /\ snap.rev = now.rev /\ ~now.stale
    <3> DEFINE cell == cache[snap.coord][v.out.period]
    <3>1. cell.rev = v.out.rev /\ cell.stale = v.out.stale /\ v.out.stale \in BOOLEAN
      BY <2>5
    <3>2. cell = [rev |-> snap.rev, stale |-> FALSE] => cell.rev = snap.rev /\ cell.stale = FALSE
      OBVIOUS
    <3>3. v.out.rev = snap.rev /\ v.out.stale = FALSE => cell = [rev |-> snap.rev, stale |-> FALSE]
      BY <2>5
    <3>4. v.out.period = snap.period => cell = cache[snap.coord][snap.period]
      OBVIOUS
    <3> HIDE DEF cell
    <3> QED
      BY <2>1, <2>2, <2>6, <3>1, <3>2, <3>3, <3>4
  <2>8. Drift(snap, now) = {} <=> Unchanged(b)
    BY <2>7, NoDrift
  <2>9. res.status = IF Drift(snap, now) = {} THEN "fresh" ELSE "stale"
    BY <1>2 DEF Result
  <2> QED
    BY <2>8, <2>9 DEF JudgedAs
<1> QED
  BY <1>1, <1>2

\* A step that leaves the comparison alone, and its resolve where it waits for one.
LEMMA QuietStutter ==
    ASSUME StaleInv, QuietInv, UNCHANGED comparer, moved' = FALSE => moved = FALSE,
           comparer.pc # "idle" /\ moved' = FALSE => UNCHANGED <<cache, mapping, snapshots>>,
           comparer.pc = "resolve" => req'[Comparer] = req[Comparer],
           moved' \in BOOLEAN, moved \in BOOLEAN
    PROVE  QuietInv'
<1> SUFFICES ASSUME comparer.pc # "idle", ~moved' PROVE Judging'
  BY DEF QuietInv
<1>1. Judging /\ UNCHANGED <<cache, mapping, snapshots>>
  BY DEF QuietInv
<1>2. \A b \in Blocks : Unchanged(b)' <=> Unchanged(b)
  BY <1>1, UnchangedKept
<1>3. Saved(snapshots)' = Saved(snapshots) /\ Saved(snapshots) \subseteq Blocks
  BY <1>1 DEF Saved
<1>4. \A b \in Saved(snapshots) : JudgedAs(b, comparer.results[b])' <=> JudgedAs(b, comparer.results[b])
  BY <1>2, <1>3 DEF JudgedAs
<1>5. comparer.pc = "resolve" => Resolving(comparer.block)'
  <2> SUFFICES ASSUME comparer.pc = "resolve" PROVE Resolving(comparer.block)'
    OBVIOUS
  <2>1. Resolving(comparer.block) /\ req'[Comparer] = req[Comparer]
    BY <1>1 DEF Judging
  <2>2. \A c, p : Found(c, p)' = Found(c, p)
    BY <1>1 DEF Found, CachedPeriods
  <2> DEFINE v == req[Comparer]
  <2>3. /\ req'[Comparer] = v /\ Found(v.coord, v.period)' = Found(v.coord, v.period)
    BY <2>1, <2>2 DEF Found, CachedPeriods
  <2> QED
    BY <1>1, <2>1, <2>3 DEF Resolving
<1> QED
  BY <1>1, <1>3, <1>4, <1>5 DEF Judging

\* A step of the comparison's own resolve.
LEMMA ResolvingStep ==
    ASSUME StaleInv, NEW b \in Blocks, Resolving(b), RequestStep(Comparer),
           UNCHANGED <<cache, mapping, snapshots>>
    PROVE  Resolving(b)'
<1> DEFINE v == req[Comparer]
           found == Found(v.coord, v.period)
           p == PickRow(found)
<1>1. CacheInv /\ v \in ReqLocals /\ req = [q \in Requests |-> req[q]]
  BY DEF StaleInv, CacheInv, ReqOK
<1>2. /\ v.task = "compare" /\ v.coord = snapshots[b].coord /\ v.period = Pinned[b]
      /\ v.version = mapping.version /\ v.pc \in {"validate", "read", "done"}
      /\ v.pc # "done" => mapping.active
  BY DEF Resolving
<1> DEFINE w == req'[Comparer]
<1>5. ASSUME v.pc # "done", w.pc = "done", w.task = v.task, w.coord = v.coord, w.period = v.period,
             w.version = v.version,
             w.out.kind = "hit" => /\ found # {} /\ w.out.period = p
                                   /\ w.out.rev = cache[v.coord][p].rev
                                   /\ w.out.stale = cache[v.coord][p].stale
      PROVE  Resolving(b)'
  <2>1. Found(v.coord, v.period)' = found
    BY <1>5 DEF Found, CachedPeriods
  <2>2. PickRow(Found(v.coord, v.period)') = p
    BY <2>1
  <2>3. mapping.active
    BY <1>2, <1>5
  <2> HIDE DEF p, found
  <2> QED
    BY <1>2, <1>5, <2>1, <2>2, <2>3 DEF Resolving
<1>6. ASSUME NEW kind \in {"miss", "invalid"}, v.pc # "done", Reply(Comparer, kind) PROVE Resolving(b)'
  <2> DEFINE out == [Unserved EXCEPT !.kind = kind]
             x == [v EXCEPT !.pc = "done", !.answer = NoAnswer, !.out = out]
  <2>1. out.kind = kind
    BY DEF Unserved
  <2> HIDE DEF out
  <2>2. /\ x.pc = "done" /\ x.out = out /\ x.task = v.task /\ x.coord = v.coord /\ x.period = v.period
        /\ x.version = v.version
    BY <1>1 DEF ReqLocals
  <2>3. w = x
    BY <1>1, <1>6 DEF Reply, out
  <2> HIDE DEF x
  <2> QED
    BY <1>5, <1>6, <2>1, <2>2, <2>3
<1>7. ASSUME v.pc = "validate", Goto(Comparer, "read") PROVE Resolving(b)'
  <2> DEFINE x == [v EXCEPT !.pc = "read"]
  <2>1. /\ x.pc = "read" /\ x.task = v.task /\ x.coord = v.coord /\ x.period = v.period
        /\ x.version = v.version
    BY <1>1 DEF ReqLocals
  <2>2. req'[Comparer] = x
    BY <1>1, <1>7 DEF Goto
  <2> HIDE DEF x
  <2> QED
    BY <1>2, <1>7, <2>1, <2>2 DEF Resolving
<1>8. CASE Validate(Comparer)
  BY <1>6, <1>7, <1>8 DEF Validate
<1>9. CASE Read(Comparer)
  <2>1. CASE found # {} /\ Serve(Comparer, "hit", p)
    <3> DEFINE out == [kind |-> "hit", period |-> p, rev |-> cache[v.coord][p].rev,
                       stale |-> cache[v.coord][p].stale]
    <3>1. /\ out.period = p /\ out.rev = cache[v.coord][p].rev /\ out.stale = cache[v.coord][p].stale
          /\ v.pc # "done"
      BY <1>9 DEF Read
    <3> DEFINE x == [v EXCEPT !.pc = "done", !.answer = NoAnswer, !.out = out]
    <3>2. w = x
      BY <1>1, <2>1 DEF Serve
    <3> HIDE DEF out
    <3>3. /\ x.pc = "done" /\ x.out = out /\ x.task = v.task /\ x.coord = v.coord /\ x.period = v.period
          /\ x.version = v.version
      BY <1>1 DEF ReqLocals
    <3> HIDE DEF x
    <3> QED
      BY <1>5, <2>1, <3>1, <3>2, <3>3
  <2>2. CASE Reply(Comparer, "miss")
    BY <1>6, <1>9, <2>2 DEF Read
  <2> QED
    BY <1>2, <1>9, <2>1, <2>2 DEF Read
<1> QED
  <2>1. req[Comparer].pc \notin {"prime", "persist", "requery"}
    BY <1>2
  <2>2. ~Prime(Comparer) /\ ~Persist(Comparer) /\ ~Requery(Comparer)
    BY <2>1, Zenon DEF Prime, Persist, Requery
  <2> QED
    BY <1>8, <1>9, <2>2 DEF RequestStep

LEMMA ResolvingBegins ==
    ASSUME StaleInv, NEW b \in Blocks, Ask(Comparer, "compare", snapshots[b].coord, Pinned[b]),
           UNCHANGED <<snapshots, mapping>>
    PROVE  Resolving(b)'
<1> DEFINE v == req'[Comparer]
           pc == IF mapping.active THEN "validate" ELSE "done"
           kind == IF mapping.active THEN "none" ELSE "unmapped"
           out == [Unserved EXCEPT !.kind = kind]
           w == [req[Comparer] EXCEPT !.task = "compare", !.coord = snapshots[b].coord, !.period = Pinned[b],
                   !.version = mapping.version, !.pc = pc, !.out = out]
<1>1. req[Comparer] \in ReqLocals /\ req = [q \in Requests |-> req[q]] /\ mapping.active \in BOOLEAN
  BY DEF StaleInv, CacheInv, ReqOK
<1>2. v = w
  BY <1>1 DEF Ask
<1>3. out.kind = kind
  BY DEF Unserved
<1> HIDE DEF out
<1>4. /\ w.task = "compare" /\ w.coord = snapshots[b].coord /\ w.period = Pinned[b]
      /\ w.version = mapping.version /\ w.pc = pc /\ w.out = out
  BY <1>1 DEF ReqLocals
<1> HIDE DEF w
<1>5. v.out.kind # "hit" /\ v.pc \in {"validate", "read", "done"} /\ (v.pc # "done" => mapping.active)
  BY <1>2, <1>3, <1>4
<1>6. /\ v.task = "compare" /\ v.coord = snapshots[b].coord /\ v.period = Pinned[b]
      /\ v.version = mapping.version
  BY <1>2, <1>4
<1> QED
  BY <1>5, <1>6 DEF Resolving

\* What a comparison's own steps keep.
LEMMA QuietCompare ==
    ASSUME StaleInv, QuietInv, CompareStep, Observe
    PROVE  QuietInv'
<1>1. /\ CacheInv /\ ComparerOK /\ UNCHANGED <<snapshots, cache, mapping>>
  BY DEF StaleInv, CompareStep, Compare, CompareBlock, CompareResult, CompareEnds, Ask, Finish, vvars
<1>2. comparer.pc # "idle" /\ ~moved' => ~moved
  BY DEF Observe
<1>3. comparer = [pc |-> comparer.pc, rows |-> comparer.rows, todo |-> comparer.todo,
                  block |-> comparer.block, results |-> comparer.results]
  BY <1>1 DEF ComparerOK
<1>4. Saved(snapshots)' = Saved(snapshots) /\ Saved(snapshots) \subseteq Blocks
  BY <1>1 DEF Saved
<1>5. \A b \in Blocks : Unchanged(b)' <=> Unchanged(b)
  BY <1>1, UnchangedKept
<1>6. CASE Compare
  <2> DEFINE pc == IF Saved(snapshots) = {} THEN "done" ELSE "next"
  <2>1. comparer' = [NotComparing EXCEPT !.rows = snapshots, !.todo = Saved(snapshots), !.pc = pc]
    BY <1>6 DEF Compare
  <2>2. /\ comparer'.rows = snapshots /\ comparer'.todo = Saved(snapshots) /\ comparer'.pc = pc
        /\ comparer'.results = [b \in Blocks |-> NoResult]
    BY <2>1 DEF NotComparing
  <2> QED
    BY <1>1, <1>4, <2>2 DEF QuietInv, Judging
<1>7. CASE CompareBlock
  <2> PICK b : b = First(comparer.todo)
    OBVIOUS
  <2>1. b \in comparer.todo /\ b \in Blocks
    BY <1>1, <1>7, FirstIn DEF CompareBlock, ComparerOK
  <2>2. /\ comparer' = [comparer EXCEPT !.pc = "resolve", !.todo = comparer.todo \ {b}, !.block = b]
        /\ Ask(Comparer, "compare", comparer.rows[b].coord, Pinned[b])
    BY <1>7 DEF CompareBlock
  <2>3. /\ comparer'.pc = "resolve" /\ comparer'.todo = comparer.todo \ {b} /\ comparer'.block = b
        /\ comparer'.rows = comparer.rows /\ comparer'.results = comparer.results
    BY <1>3, <2>2
  <2> SUFFICES ASSUME ~moved' PROVE Judging'
    BY <2>3 DEF QuietInv
  <2>4. Judging
    BY <1>2, <1>7 DEF QuietInv, CompareBlock
  <2>5. Resolving(b)'
    <3>1. Ask(Comparer, "compare", snapshots[b].coord, Pinned[b])
      BY <2>2, <2>4 DEF Judging
    <3> QED
      BY <1>1, <2>1, <3>1, ResolvingBegins
  <2>6. \A d \in Saved(snapshots) : JudgedAs(d, comparer.results[d])' <=> JudgedAs(d, comparer.results[d])
    BY <1>4, <1>5, <2>3 DEF JudgedAs
  <2>7. /\ comparer'.rows = snapshots' /\ comparer'.todo \subseteq Saved(snapshots)'
        /\ \A d \in Blocks \ Saved(snapshots)' : comparer'.results[d] = NoResult
    BY <1>1, <1>4, <2>3, <2>4 DEF Judging
  <2>8. \A d \in Saved(snapshots)' : d \in comparer'.todo \/ d = b \/ JudgedAs(d, comparer.results[d])'
    BY <1>4, <2>3, <2>4, <2>6, <1>7 DEF Judging, CompareBlock
  <2>9. comparer'.block \in Saved(snapshots)' /\ Resolving(comparer.block)'
    BY <1>4, <2>1, <2>3, <2>4, <2>5 DEF Judging
  <2> QED
    BY <2>3, <2>7, <2>8, <2>9 DEF Judging
<1>8. CASE CompareResult
  <2> DEFINE pc == IF comparer.todo = {} THEN "done" ELSE "next"
             b == comparer.block
             res == Result(comparer.rows[b], req[Comparer])
             results == [comparer.results EXCEPT ![b] = res]
  <2>1. comparer' = [comparer EXCEPT !.pc = pc, !.block = NoBlock, !.results = results]
    BY <1>8 DEF CompareResult
  <2>2. /\ comparer'.pc = pc /\ comparer'.todo = comparer.todo /\ comparer'.rows = comparer.rows
        /\ comparer'.results = results
    BY <1>3, <2>1
  <2>3. /\ results = [d \in Blocks |-> results[d]]
        /\ \A d \in Blocks : results[d] = IF d = b THEN res ELSE comparer.results[d]
    BY DEF QuietInv
  <2>4. comparer'.pc = "done" => comparer'.todo = {}
    BY <2>2
  <2> HIDE DEF pc, results
  <2> SUFFICES ASSUME ~moved' PROVE Judging'
    BY <2>2, <2>3, <2>4 DEF QuietInv
  <2>5. Judging /\ comparer.pc = "resolve" /\ req[Comparer].pc = "done"
    BY <1>2, <1>8 DEF QuietInv, CompareResult, Finish
  <2>6. b \in Saved(snapshots) /\ Resolving(b) /\ comparer.rows = snapshots
    BY <2>5 DEF Judging
  <2>7. JudgedAs(b, res)
    BY <1>1, <1>4, <2>5, <2>6, ResultRight
  <2> HIDE DEF res
  <2>8. \A d \in Saved(snapshots) : d \in comparer.todo \/ JudgedAs(d, results[d])
    BY <1>4, <2>3, <2>5, <2>6, <2>7 DEF Judging
  <2>9. \A d \in Saved(snapshots) : JudgedAs(d, comparer.results[d])' <=> JudgedAs(d, results[d])
    BY <1>4, <1>5, <2>2 DEF JudgedAs
  <2>10. \A d \in Blocks \ Saved(snapshots)' : comparer'.results[d] = NoResult
    BY <1>4, <2>2, <2>3, <2>5, <2>6 DEF Judging
  <2>11. comparer'.rows = snapshots' /\ comparer'.todo \subseteq Saved(snapshots)'
    BY <1>1, <1>4, <2>2, <2>5 DEF Judging
  <2>12. \A d \in Saved(snapshots)' : d \in comparer'.todo \/ JudgedAs(d, comparer.results[d])'
    BY <1>4, <2>2, <2>8, <2>9
  <2>13. comparer'.pc # "resolve"
    BY <2>2 DEF pc
  <2> QED
    BY <2>10, <2>11, <2>12, <2>13 DEF Judging
<1>9. CASE CompareEnds
  BY <1>9 DEF CompareEnds, NotComparing, QuietInv
<1> QED
  BY <1>6, <1>7, <1>8, <1>9 DEF CompareStep

LEMMA QuietInit == StaleInit => QuietInv
BY DEF StaleInit, QuietInv, NotComparing

LEMMA MovedIn == ASSUME Observe PROVE moved' \in BOOLEAN
BY DEF Observe

LEMMA QuietStep ==
    ASSUME StaleInv, QuietInv, moved \in BOOLEAN, StaleNext
    PROVE  QuietInv'
<1>1. /\ CacheInv /\ Observe /\ moved' \in BOOLEAN
      /\ Publisher \in Requests \ {Comparer} /\ Comparer \in Requests
      /\ comparer.pc # "idle" /\ moved' = FALSE => moved = FALSE /\ UNCHANGED <<cache, mapping, snapshots>>
  BY DEF StaleInv, StaleNext, Observe
<1>2. CASE CompareStep
  BY <1>1, <1>2, QuietCompare
<1>3. ASSUME UNCHANGED comparer, comparer.pc = "resolve" => req'[Comparer] = req[Comparer] PROVE QuietInv'
  <2>1. CASE comparer.pc = "idle"
    BY <1>3, <2>1 DEF QuietInv
  <2>2. CASE comparer.pc # "idle"
    BY <1>1, <1>3, <2>2, QuietStutter
  <2> QED
    BY <2>1, <2>2
<1>4. CASE PublishStep
  <2> DEFINE mine == \E v : req' = [req EXCEPT ![Publisher] = v]
  <2>1. ASSUME NEW bound, Publish(bound) PROVE UNCHANGED comparer /\ req' = req
    BY <2>1 DEF Publish, vvars, NotPublishing
  <2>2. ASSUME NEW c, CaptureBlock(c) PROVE UNCHANGED comparer /\ (mine \/ req' = req)
    <3>1. \A b, task : Ask(Publisher, task, c, b) => mine
      BY DEF Ask
    <3> QED
      BY <2>2, <3>1, Zenon DEF CaptureBlock, vvars
  <2>3. CASE CaptureStore
    <3>1. UNCHANGED comparer /\ Finish(Publisher)
      BY <2>3, Zenon DEF CaptureStore
    <3>2. mine
      BY <3>1 DEF Finish
    <3> QED
      BY <1>1, <1>3, <3>1, <3>2, OthersKept
  <2>4. CASE PublishCommit \/ PublishFails
    BY <1>3, <2>4 DEF PublishCommit, PublishFails, vvars
  <2> QED
    BY <1>1, <1>3, <1>4, <2>1, <2>2, <2>3, <2>4, OthersKept DEF PublishStep
<1>5. CASE CacheStep
  <2>1. UNCHANGED <<comparer, snapshots>>
    BY <1>5 DEF CacheStep
  <2>2. ASSUME NEW r \in Requests \ {Comparer}, RequestStep(r) \/ Finish(r) PROVE QuietInv'
    <3>1. \E v : req' = [req EXCEPT ![r] = v]
      BY <2>2, Zenon DEF RequestStep, Validate, Read, Prime, Persist, Requery, Finish, Goto, Reply, Serve
    <3> QED
      BY <1>1, <1>3, <2>1, <2>2, <3>1, OthersKept
  <2>3. ASSUME RequestStep(Comparer) PROVE QuietInv'
    <3>1. CASE comparer.pc # "resolve"
      BY <1>3, <2>1, <3>1
    <3>2. CASE comparer.pc = "resolve"
      <4> SUFFICES ASSUME ~moved' PROVE Judging'
        BY <2>1, <3>2 DEF QuietInv
      <4>1. Judging /\ UNCHANGED <<cache, mapping, snapshots>>
        BY <1>1, <3>2 DEF QuietInv
      <4>2. Saved(snapshots)' = Saved(snapshots) /\ Saved(snapshots) \subseteq Blocks
        BY <4>1 DEF Saved
      <4>3. Resolving(comparer.block)
        BY <3>2, <4>1 DEF Judging
      <4>4. comparer.block \in Blocks
        BY <3>2, <4>1, <4>2 DEF Judging
      <4> PICK b : b = comparer.block
        OBVIOUS
      <4>5. b = comparer'.block
        BY <2>1
      <4>6. Resolving(b)'
        BY <2>1, <2>3, <4>1, <4>3, <4>4, ResolvingStep
      <4>7. \A d \in Saved(snapshots) : JudgedAs(d, comparer.results[d])' <=> JudgedAs(d, comparer.results[d])
        BY <2>1, <4>1, <4>2, UnchangedKept DEF JudgedAs
      <4> QED
        BY <2>1, <3>2, <4>1, <4>2, <4>5, <4>6, <4>7 DEF Judging
    <3> QED
      BY <3>1, <3>2
  <2>4. ASSUME ~Waiting(Comparer), Finish(Comparer) PROVE QuietInv'
    BY <1>3, <2>1, <2>4 DEF Waiting
  <2>5. CASE StatCanStep \/ RefreshStep \/ SoftDelete
    <3>1. req' = req
      BY <2>5, Zenon DEF StatCanStep, Release, SoftDelete, RefreshStep, RefreshStart, RefreshFetchFails, RefreshSelect,
         RefreshUpdate, RefreshStoreFails, RefreshFetch, RefreshPersist
    <3> QED
      BY <1>3, <2>1, <3>1
  <2>6. ASSUME NEW r \in Requests \ {Publisher}, r = Comparer => comparer.pc = "idle", CallerStep(r)
        PROVE  QuietInv'
    <3>1. CASE r = Comparer
      BY <1>3, <2>1, <2>6, <3>1
    <3>2. CASE r # Comparer
      BY <1>1, <1>3, <2>1, <2>6, <3>2, CallerKept
    <3> QED
      BY <3>1, <3>2
  <2> QED
    BY <1>5, <2>2, <2>3, <2>4, <2>5, <2>6 DEF CacheStep
<1> QED
  BY <1>2, <1>4, <1>5 DEF StaleNext

LEMMA QuietHolds ==
    ASSUME QuietInv
    PROVE  ReportTrue
<1> SUFFICES ASSUME comparer.pc = "done", ~moved
             PROVE  /\ Overall(comparer.results) = "fresh" => \A b \in Saved(snapshots) : Unchanged(b)
                    /\ Overall(comparer.results) = "stale" => \E b \in Saved(snapshots) : ~Unchanged(b)
                    /\ Overall(comparer.results) = "unknown" =>
                         Saved(snapshots) = {} \/ \E b \in Saved(snapshots) : comparer.results[b].reasons = {"failed"}
  BY DEF ReportTrue
<1> DEFINE statuses == {comparer.results[b].status : b \in Blocks}
<1>1. \A b \in Saved(snapshots) : JudgedAs(b, comparer.results[b])
  BY DEF QuietInv, Judging
<1>2. \A b \in Blocks \ Saved(snapshots) : comparer.results[b].status = "none"
  BY DEF QuietInv, Judging, NoResult
<1>3. Saved(snapshots) \subseteq Blocks
  BY DEF Saved
<1>4. CASE "stale" \in statuses
  <2>1. PICK b \in Blocks : comparer.results[b].status = "stale"
    BY <1>4
  <2>2. Overall(comparer.results) = "stale"
    BY <1>4 DEF Overall
  <2> QED
    BY <1>1, <1>2, <2>1, <2>2 DEF JudgedAs
<1>5. CASE "stale" \notin statuses /\ ("unknown" \in statuses \/ statuses = {"none"})
  <2>1. Overall(comparer.results) = "unknown"
    BY <1>5 DEF Overall
  <2>2. CASE "unknown" \in statuses
    <3>1. PICK b \in Blocks : comparer.results[b].status = "unknown"
      BY <2>2
    <3> QED
      BY <1>1, <1>2, <2>1, <3>1 DEF JudgedAs
  <2>3. CASE statuses = {"none"}
    <3>1. \A b \in Saved(snapshots) : comparer.results[b].status = "none"
      BY <1>3, <2>3
    <3>2. Saved(snapshots) = {}
      BY <1>1, <3>1 DEF JudgedAs
    <3> QED
      BY <2>1, <3>2
  <2> QED
    BY <1>5, <2>2, <2>3
<1>6. CASE "stale" \notin statuses /\ "unknown" \notin statuses /\ statuses # {"none"}
  <2>1. Overall(comparer.results) = "fresh"
    BY <1>6 DEF Overall
  <2>2. \A b \in Saved(snapshots) : comparer.results[b].status \notin {"stale", "unknown"}
    BY <1>3, <1>6
  <2> QED
    BY <1>1, <2>1, <2>2 DEF JudgedAs
<1> QED
  BY <1>4, <1>5, <1>6

LEMMA QuietInvariant == StaleSpec => [](StaleInv /\ QuietInv /\ moved \in BOOLEAN)
<1>1. StaleInit => StaleInv /\ QuietInv /\ moved \in BOOLEAN
  BY InitOK, QuietInit DEF StaleInit
<1>2. StaleInv /\ QuietInv /\ moved \in BOOLEAN /\ [StaleNext]_vars => (StaleInv /\ QuietInv /\ moved \in BOOLEAN)'
  <2> SUFFICES ASSUME StaleInv, QuietInv, moved \in BOOLEAN, [StaleNext]_vars
               PROVE  StaleInv' /\ QuietInv' /\ moved' \in BOOLEAN
    OBVIOUS
  <2>1. StaleInv'
    BY StepKept
  <2>2. CASE StaleNext
    BY <2>1, <2>2, QuietStep, MovedIn DEF StaleNext
  <2>3. CASE UNCHANGED vars
    <3>1. UNCHANGED <<cache, mapping, snapshots, req, comparer, moved>>
      BY <2>3 DEF vars, vvars, svars
    <3>2. moved' = FALSE => moved = FALSE
      BY <3>1
    <3> QED
      BY <2>1, <3>1, <3>2, QuietStutter
  <2> QED
    BY <2>1, <2>2, <2>3
<1> QED
  BY <1>1, <1>2, PTL DEF StaleSpec

-----------------------------------------------------------------------------
(* The age of what is stored.                                               *)

\* An answer is no older than the rows it has periods of.
NoOlder(answer, rows) == \A p \in Periods : answer[p] # 0 => rows[p].rev <= answer[p]

\* What a step does to the answers that are held, and to the cache: an answer stays as it is
\* or has just come, and a revision changes only when a held answer is stored.
Held(v) == v.pc = "persist"
AgeStep ==
    /\ \A r \in Requests : Held(req'[r]) =>
          req'[r] = req[r] \/ (cache' = cache /\ NoOlder(req'[r].answer, cache[req'[r].coord]))
    /\ Held(refresh') =>
          refresh' = refresh \/ (cache' = cache /\ NoOlder(refresh'.answer, cache[refresh'.coord]))
    /\ \/ \A c \in Coords, p \in Periods : cache'[c][p].rev = cache[c][p].rev
       \/ \E r \in Requests : Held(req[r]) /\ cache' = Stored(req[r].coord, req[r].answer)
       \/ Held(refresh) /\ cache' = Stored(refresh.coord, refresh.answer)

\* A held answer that has not been overtaken is no older than the cache.
AgeInv ==
    /\ \A r \in Requests \ overtaken : Held(req[r]) => NoOlder(req[r].answer, cache[req[r].coord])
    /\ ~lateRefresh /\ Held(refresh) => NoOlder(refresh.answer, cache[refresh.coord])

\* StatCan answers with what it publishes now.
LEMMA AnswerNoOlder ==
    ASSUME CacheInv, NEW c \in Coords, NEW n, NEW answer \in GetData(c, n)
    PROVE  NoOlder(answer, cache[c])
<1>1. \A p \in Periods : AnswerFor(c, n)[p] \in {0, published[c][p]}
  BY DEF AnswerFor
<1>2. \A p \in Periods : answer[p] \in {0, published[c][p]}
  BY <1>1, NoAnswerIn DEF GetData
<1>3. \A p \in Periods : cache[c][p].rev <= published[c][p]
  BY DEF CacheInv, StoreOK
<1> QED
  BY <1>2, <1>3 DEF NoOlder

\* A step of one request that leaves it without an answer, and the cache alone.
LEMMA AgeAlone ==
    ASSUME CacheInv, NEW r \in Requests, NEW v, req' = [req EXCEPT ![r] = v], ~Held(v),
           UNCHANGED <<cache, refresh>>
    PROVE  AgeStep
<1>1. \A q \in Requests : req'[q] = IF q = r THEN v ELSE req[q]
  BY DEF CacheInv
<1> QED
  BY <1>1 DEF AgeStep

LEMMA AgeSame == ASSUME UNCHANGED <<cache, refresh, req>> PROVE AgeStep
BY DEF AgeStep

LEMMA AgeAsk ==
    ASSUME CacheInv, NEW r \in Requests, NEW task, NEW c, NEW period, Ask(r, task, c, period)
    PROVE  AgeStep
<1> DEFINE pc == IF mapping.active THEN "validate" ELSE "done"
           out == [Unserved EXCEPT !.kind = IF mapping.active THEN "none" ELSE "unmapped"]
           v == [req[r] EXCEPT !.task = task, !.coord = c, !.period = period,
                   !.version = mapping.version, !.pc = pc, !.out = out]
<1>1. req' = [req EXCEPT ![r] = v] /\ UNCHANGED <<cache, refresh>>
  BY DEF Ask
<1>2. req[r] \in ReqLocals
  BY DEF CacheInv, ReqOK
<1> HIDE DEF out
<1>3. v.pc = pc
  BY <1>2 DEF ReqLocals
<1> HIDE DEF v
<1>4. ~Held(v)
  BY <1>3 DEF Held
<1> QED
  BY <1>1, <1>4, AgeAlone

LEMMA AgeSave ==
    ASSUME CacheInv, NEW r \in Requests, NEW c, SaveMapping(r, c)
    PROVE  AgeStep
<1>1. PICK next \in {"prime", "done"} :
        req' = [req EXCEPT ![r] = [req[r] EXCEPT !.pc = next, !.task = "save", !.coord = c,
                                                 !.version = mapping.version + 1]]
  BY DEF SaveMapping
<1> DEFINE v == [req[r] EXCEPT !.pc = next, !.task = "save", !.coord = c, !.version = mapping.version + 1]
<1>2. req[r] \in ReqLocals /\ UNCHANGED <<cache, refresh>>
  BY DEF CacheInv, ReqOK, SaveMapping
<1>3. v.pc = next
  BY <1>2 DEF ReqLocals
<1>4. req' = [req EXCEPT ![r] = v]
  BY <1>1
<1> HIDE DEF v
<1>5. ~Held(v)
  BY <1>3 DEF Held
<1> QED
  BY <1>2, <1>4, <1>5, AgeAlone

LEMMA AgeFinish == ASSUME CacheInv, NEW r \in Requests, Finish(r) PROVE AgeStep
<1>1. ~Held(Idle)
  BY DEF Held, Idle
<1> QED
  BY <1>1, AgeAlone DEF Finish

LEMMA AgeRequest == ASSUME CacheInv, NEW r \in Requests, RequestStep(r) PROVE AgeStep
<1>1. /\ req[r] \in ReqLocals /\ req = [q \in Requests |-> req[q]]
      /\ req[r].coord \in Coords
  BY DEF CacheInv, ReqOK, ReqLocals
<1>2. ASSUME NEW pc, pc # "persist", Goto(r, pc), UNCHANGED <<cache, refresh>> PROVE AgeStep
  <2> DEFINE v == [req[r] EXCEPT !.pc = pc]
  <2>1. v.pc = pc /\ req' = [req EXCEPT ![r] = v]
    BY <1>1, <1>2 DEF ReqLocals, Goto
  <2> HIDE DEF v
  <2>2. ~Held(v)
    BY <1>2, <2>1 DEF Held
  <2> QED
    BY <1>2, <2>1, <2>2, AgeAlone
<1>3. ASSUME NEW out, UNCHANGED <<cache, refresh>>,
             req' = [req EXCEPT ![r] = [req[r] EXCEPT !.pc = "done", !.answer = NoAnswer, !.out = out]]
      PROVE  AgeStep
  <2> DEFINE v == [req[r] EXCEPT !.pc = "done", !.answer = NoAnswer, !.out = out]
  <2>1. v.pc = "done"
    BY <1>1 DEF ReqLocals
  <2> HIDE DEF v
  <2>2. ~Held(v) /\ req' = [req EXCEPT ![r] = v]
    BY <1>3, <2>1 DEF Held, v
  <2> QED
    BY <1>3, <2>2, AgeAlone
<1>4. ASSUME NEW kind, Reply(r, kind), UNCHANGED <<cache, refresh>> PROVE AgeStep
  BY <1>3, <1>4 DEF Reply
<1>5. ASSUME NEW kind, NEW p, Serve(r, kind, p), UNCHANGED <<cache, refresh>> PROVE AgeStep
  BY <1>3, <1>5 DEF Serve
<1>6. CASE Validate(r)
  BY <1>2, <1>4, <1>6 DEF Validate
<1>7. CASE Read(r)
  BY <1>2, <1>4, <1>5, <1>7 DEF Read
<1>8. CASE Requery(r)
  BY <1>4, <1>5, <1>8 DEF Requery
<1>9. CASE Prime(r)
  <2>1. PICK answer \in GetData(req[r].coord, PrimeWindow) :
          req' = [req EXCEPT ![r] = [req[r] EXCEPT
                    !.pc = IF answer = NoAnswer THEN AfterPrime(r) ELSE "persist", !.answer = answer]]
    BY <1>9 DEF Prime
  <2>2. UNCHANGED <<cache, refresh>> /\ NoOlder(answer, cache[req[r].coord])
    BY <1>1, <1>9, AnswerNoOlder DEF Prime
  <2> DEFINE pc == IF answer = NoAnswer THEN AfterPrime(r) ELSE "persist"
             v == [req[r] EXCEPT !.pc = pc, !.answer = answer]
  <2>3. req' = [req EXCEPT ![r] = v]
    BY <2>1
  <2> HIDE DEF pc
  <2>4. v.answer = answer /\ v.coord = req[r].coord
    BY <1>1 DEF ReqLocals
  <2> HIDE DEF v
  <2>5. \A q \in Requests : req'[q] = IF q = r THEN v ELSE req[q]
    BY <1>1, <2>3
  <2> QED
    BY <2>2, <2>4, <2>5 DEF AgeStep
<1>10. CASE Persist(r)
  <2> DEFINE pc == AfterPrime(r)
             v == [req[r] EXCEPT !.pc = pc, !.answer = NoAnswer]
  <2>1. /\ req' = [req EXCEPT ![r] = v] /\ UNCHANGED refresh /\ Held(req[r])
        /\ cache' \in {cache, Stored(req[r].coord, req[r].answer)}
    BY <1>10 DEF Persist, Held
  <2>2. pc # "persist"
    BY DEF AfterPrime
  <2> HIDE DEF pc
  <2>3. v.pc = pc
    BY <1>1 DEF ReqLocals
  <2> HIDE DEF v
  <2>4. ~Held(v)
    BY <2>2, <2>3 DEF Held
  <2>5. \A q \in Requests : req'[q] = IF q = r THEN v ELSE req[q]
    BY <1>1, <2>1
  <2> QED
    BY <2>1, <2>4, <2>5 DEF AgeStep
<1> QED
  BY <1>6, <1>7, <1>8, <1>9, <1>10 DEF RequestStep

LEMMA AgeRefresh == ASSUME CacheInv, RefreshStep PROVE AgeStep
<1>1. /\ refresh \in RefreshLocals /\ refresh.coord \in Coords /\ req' = req
      /\ cache \in [Coords -> [Periods -> Rows]]
  BY DEF CacheInv, RefreshOK, RefreshLocals, StoreOK, RefreshStep, RefreshStart, RefreshFetchFails, RefreshSelect,
     RefreshUpdate, RefreshStoreFails, RefreshFetch, RefreshPersist
<1>2. ASSUME NEW todo, refresh' \in NextCoord(todo) \cup {Resting} PROVE ~Held(refresh')
  <2>1. ASSUME NEW c \in todo, refresh' = [Resting EXCEPT !.pc = "fetch", !.todo = todo \ {c}, !.coord = c]
        PROVE  ~Held(refresh')
    BY <2>1 DEF Held, Resting
  <2>2. ~Held(Resting)
    BY DEF Held, Resting
  <2> QED
    BY <1>2, <2>1, <2>2 DEF NextCoord
<1>3. CASE RefreshStart \/ RefreshFetchFails \/ RefreshStoreFails
  <2>1. ~Held(refresh') /\ cache' = cache
    BY <1>2, <1>3 DEF RefreshStart, RefreshFetchFails, RefreshStoreFails
  <2> QED
    BY <1>1, <2>1 DEF AgeStep
<1>4. CASE RefreshSelect
  <2> DEFINE keep == LatestOf(CachedPeriods(refresh.coord), RefreshWindow)
  <2>1. refresh' = [refresh EXCEPT !.pc = "update", !.keep = keep] /\ cache' = cache
    BY <1>4 DEF RefreshSelect
  <2> HIDE DEF keep
  <2>2. refresh'.pc = "update"
    BY <1>1, <2>1 DEF RefreshLocals
  <2> QED
    BY <1>1, <2>1, <2>2 DEF AgeStep, Held
<1>5. CASE RefreshUpdate
  <2>1. ~Held(refresh') /\ cache' = Marked(refresh.coord, refresh.keep)
    BY <1>2, <1>5 DEF RefreshUpdate
  <2> DEFINE new(p) == IF p \in CachedPeriods(refresh.coord) \ refresh.keep
                       THEN [rev |-> cache[refresh.coord][p].rev, stale |-> TRUE]
                       ELSE cache[refresh.coord][p]
  <2>2. \A p \in Periods : new(p).rev = cache[refresh.coord][p].rev
    OBVIOUS
  <2>3. cache' = [cache EXCEPT ![refresh.coord] = [p \in Periods |-> new(p)]]
    BY <2>1 DEF Marked
  <2> HIDE DEF new
  <2>4. \A c \in Coords, p \in Periods : cache'[c][p].rev = cache[c][p].rev
    BY <1>1, <2>2, <2>3
  <2> QED
    BY <1>1, <2>1, <2>4 DEF AgeStep
<1>6. ASSUME NEW c \in Coords, RefreshFetch(c) PROVE AgeStep
  <2>1. PICK answer \in GetData(c, RefreshWindow) :
          refresh' = [refresh EXCEPT !.pc = "persist", !.answer = answer]
    BY <1>6 DEF RefreshFetch
  <2>2. cache' = cache /\ refresh.coord = c /\ NoOlder(answer, cache[c])
    BY <1>6, AnswerNoOlder DEF RefreshFetch
  <2>3. refresh'.answer = answer /\ refresh'.coord = c
    BY <1>1, <2>1, <2>2 DEF RefreshLocals
  <2> QED
    BY <1>1, <2>2, <2>3 DEF AgeStep
<1>7. ASSUME NEW c \in Coords, RefreshPersist(c) PROVE AgeStep
  <2>1. /\ refresh' = [refresh EXCEPT !.pc = "select", !.answer = NoAnswer]
        /\ Held(refresh) /\ cache' = Stored(refresh.coord, refresh.answer)
    BY <1>7 DEF RefreshPersist, Held
  <2>2. ~Held(refresh')
    <3>1. refresh'.pc = "select"
      BY <1>1, <2>1 DEF RefreshLocals
    <3> QED
      BY <3>1 DEF Held
  <2> QED
    BY <1>1, <2>1, <2>2 DEF AgeStep
<1> QED
  BY <1>3, <1>4, <1>5, <1>6, <1>7 DEF RefreshStep

LEMMA EveryAgeStep == ASSUME StaleInv, [StaleNext]_vars PROVE AgeStep
<1>1. CacheInv /\ Publisher \in Requests /\ Comparer \in Requests
  BY DEF StaleInv
<1>2. UNCHANGED vvars => AgeStep
  BY AgeSame DEF vvars
<1>3. CASE CompareStep
  <2>1. CASE CompareBlock
    <3>1. \A c, period : Ask(Comparer, "compare", c, period) => AgeStep
      BY <1>1, AgeAsk
    <3> QED
      BY <2>1, <3>1, Zenon DEF CompareBlock
  <2>2. CASE CompareResult
    BY <1>1, <2>2, AgeFinish DEF CompareResult
  <2> QED
    BY <1>2, <1>3, <2>1, <2>2 DEF CompareStep, Compare, CompareEnds
<1>4. CASE PublishStep
  <2>1. ASSUME NEW c, CaptureBlock(c) PROVE AgeStep
    <3>1. \A period : Ask(Publisher, "resolve", c, period) => AgeStep
      BY <1>1, AgeAsk
    <3> QED
      BY <1>2, <2>1, <3>1, Zenon DEF CaptureBlock
  <2>2. CASE CaptureStore
    <3>1. Finish(Publisher)
      BY <2>2, Zenon DEF CaptureStore
    <3> QED
      BY <1>1, <3>1, AgeFinish
  <2>3. ASSUME NEW bound, Publish(bound) PROVE AgeStep
    BY <1>2, <2>3 DEF Publish
  <2>4. CASE PublishCommit \/ PublishFails
    BY <1>2, <2>4 DEF PublishCommit, PublishFails
  <2> QED
    BY <1>4, <2>1, <2>2, <2>3, <2>4 DEF PublishStep
<1>5. CASE CacheStep
  <2>1. CASE StatCanStep \/ SoftDelete
    BY <2>1, AgeSame DEF StatCanStep, Release, SoftDelete
  <2>2. ASSUME NEW r \in Requests, CallerStep(r) PROVE AgeStep
    <3>1. \A c, period : Ask(r, "resolve", c, period) => AgeStep
      BY <1>1, AgeAsk
    <3>2. \A c : SaveMapping(r, c) => AgeStep
      BY <1>1, AgeSave
    <3> QED
      BY <2>2, <3>1, <3>2, Zenon DEF CallerStep
  <2>3. ASSUME NEW r \in Requests, RequestStep(r) \/ Finish(r) PROVE AgeStep
    BY <1>1, <2>3, AgeRequest, AgeFinish
  <2>4. CASE RefreshStep
    BY <1>1, <2>4, AgeRefresh
  <2> QED
    BY <1>5, <2>1, <2>2, <2>3, <2>4, Zenon DEF CacheStep
<1>6. CASE UNCHANGED vars
  BY <1>2, <1>6 DEF vars
<1> QED
  BY <1>3, <1>4, <1>5, <1>6 DEF StaleNext

\* Rows as new as an answer are kept or replaced by newer ones when it is stored.
LEMMA StoredAge ==
    ASSUME CacheInv, NEW d \in Coords, NEW answer \in Answers, NoOlder(answer, cache[d]),
           NEW c \in Coords, NEW p \in Periods
    PROVE  ~(Stored(d, answer)[c][p].rev < cache[c][p].rev)
<1>1. cache[c][p].rev \in 0 .. MaxRevision /\ cache[c][p] \in Rows
  BY DEF CacheInv, StoreOK, Rows
<1>2. CASE c # d
  BY <1>1, <1>2 DEF Stored, CacheInv, StoreOK
<1>3. CASE c = d
  <2>1. Stored(d, answer)[c][p] = UpsertPeriod(cache[c][p], answer[p])
    BY <1>3 DEF Stored, CacheInv, StoreOK
  <2>2. answer[p] \in Nat /\ (answer[p] # 0 => cache[c][p].rev <= answer[p])
    BY <1>3 DEF NoOlder, Answers
  <2>3. UpsertPeriod(cache[c][p], answer[p]).rev = IF answer[p] # 0 THEN answer[p] ELSE cache[c][p].rev
    BY <1>1 DEF UpsertPeriod, UpsertPeriodPg, Rows
  <2> QED
    BY <1>1, <2>1, <2>2, <2>3
<1> QED
  BY <1>2, <1>3

\* Only an overtaken answer takes a row back.
LEMMA BackOvertaken ==
    ASSUME StaleInv, AgeInv, AgeStep, NEW c \in Coords, NEW p \in Periods,
           cache'[c][p].rev < cache[c][p].rev
    PROVE  \/ \E r \in overtaken : req[r].coord = c
           \/ lateRefresh /\ refresh.coord = c
<1>1. /\ CacheInv /\ cache[c][p].rev \in Nat
      /\ \A r \in Requests : req[r].coord \in Coords /\ req[r].answer \in Answers
      /\ refresh.coord \in Coords /\ refresh.answer \in Answers
  BY Numbers DEF StaleInv, CacheInv, ReqOK, ReqLocals, RefreshOK, RefreshLocals
<1>2. ASSUME NEW d \in Coords, NEW answer, cache' = Stored(d, answer), c # d PROVE FALSE
  <2>1. cache'[c] = cache[c]
    BY <1>1, <1>2 DEF Stored, CacheInv, StoreOK
  <2> QED
    BY <1>1, <2>1
<1>3. ASSUME NEW d \in Coords, NEW answer \in Answers, cache' = Stored(d, answer), NoOlder(answer, cache[d])
      PROVE  FALSE
  BY <1>1, <1>3, StoredAge
<1>4. ASSUME NEW r \in Requests, Held(req[r]), cache' = Stored(req[r].coord, req[r].answer)
      PROVE  r \in overtaken /\ req[r].coord = c
  BY <1>1, <1>2, <1>3, <1>4 DEF AgeInv
<1>5. ASSUME Held(refresh), cache' = Stored(refresh.coord, refresh.answer)
      PROVE  lateRefresh /\ refresh.coord = c
  BY <1>1, <1>2, <1>3, <1>5 DEF AgeInv
<1>6. ~(\A d \in Coords, q \in Periods : cache'[d][q].rev = cache[d][q].rev)
  BY <1>1
<1> QED
  BY <1>4, <1>5, <1>6 DEF AgeStep

LEMMA AgeKept == ASSUME StaleInv, AgeInv, lateRefresh \in BOOLEAN, AgeStep, Overtake PROVE AgeInv'
<1>1. /\ \A r \in Requests : req[r].coord \in Coords
      /\ refresh.coord \in Coords
  BY DEF StaleInv, CacheInv, ReqOK, ReqLocals, RefreshOK, RefreshLocals
<1>2. ASSUME NEW d \in Coords, ~Restored(d), NEW answer, NoOlder(answer, cache[d])
      PROVE  NoOlder(answer, cache'[d])
  <2>1. \A p \in Periods : cache'[d][p].rev = cache[d][p].rev
    BY <1>2 DEF Restored
  <2> QED
    BY <1>2, <2>1 DEF NoOlder
<1>3. ASSUME NEW r \in Requests, r \notin overtaken', Held(req'[r])
      PROVE  NoOlder(req'[r].answer, cache'[req'[r].coord])
  <2>1. CASE req'[r] = req[r]
    <3>1. r \notin overtaken /\ ~Restored(req[r].coord) /\ Held(req[r])
      BY <1>3, <2>1 DEF Overtake, Held
    <3>2. NoOlder(req[r].answer, cache[req[r].coord])
      BY <3>1 DEF AgeInv
    <3> QED
      BY <1>1, <1>2, <2>1, <3>1, <3>2
  <2>2. CASE cache' = cache /\ NoOlder(req'[r].answer, cache[req'[r].coord])
    BY <2>2
  <2> QED
    BY <1>3, <2>1, <2>2 DEF AgeStep
<1>4. ASSUME ~lateRefresh', Held(refresh') PROVE NoOlder(refresh'.answer, cache'[refresh'.coord])
  <2>1. CASE refresh' = refresh
    <3>1. ~lateRefresh /\ ~Restored(refresh.coord) /\ Held(refresh)
      BY <1>4, <2>1 DEF Overtake, Held
    <3>2. NoOlder(refresh.answer, cache[refresh.coord])
      BY <3>1 DEF AgeInv
    <3> QED
      BY <1>1, <1>2, <2>1, <3>1, <3>2
  <2>2. CASE cache' = cache /\ NoOlder(refresh'.answer, cache[refresh'.coord])
    BY <2>2
  <2> QED
    BY <1>4, <2>1, <2>2 DEF AgeStep
<1>5. /\ \A r \in Requests \ overtaken' : Held(req'[r]) => NoOlder(req'[r].answer, cache'[req'[r].coord])
      /\ ~lateRefresh' /\ Held(refresh') => NoOlder(refresh'.answer, cache'[refresh'.coord])
  BY <1>3, <1>4
<1> QED
  BY <1>5 DEF AgeInv, Held, NoOlder

\* For any number of cells, periods, revisions, requests and versions: whatever the order
\* in which primes, saves and the refresh store their answers, nothing is cached,
\* in flight or served that StatCan has not published (value_cache.py:376), and a request
\* past its validation works on the cell pinned by the version it has read.
THEOREM ValuesGenuine == StaleSpec => []ValueInv
BY Invariant, ValuesHold, PTL

\* A resolve serves the cell pinned by the mapping version it names and the period asked
\* for, although the mapping is edited while it runs (resolve/filters.py:107).
THEOREM CellsPinned == StaleSpec => []NoCoordDrift
BY Invariant, ValuesHold, PTL

\* Every committed snapshot of every block is one answer of resolve_value: of the cell
\* pinned by its version, the block's own period, and a value StatCan has published
\* (staleness.py:160).
THEOREM SnapshotsAreAnswers == StaleSpec => []SnapshotsGenuine
BY Invariant, SnapshotsHold, PTL

\* If nothing was written while it ran, a comparison reports what is: fresh only when
\* every snapshot is what the cache holds, stale only when one is not, and unknown only
\* when one could not be resolved (staleness.py:203).
THEOREM ReportsTrue == StaleSpec => []ReportTrue
BY QuietInvariant, QuietHolds, PTL

LEMMA AgeInvariant == StaleSpec => [](StaleInv /\ AgeInv /\ lateRefresh \in BOOLEAN)
<1>1. StaleInit => StaleInv /\ AgeInv /\ lateRefresh \in BOOLEAN
  <2> SUFFICES ASSUME StaleInit PROVE StaleInv /\ AgeInv /\ lateRefresh \in BOOLEAN
    OBVIOUS
  <2>1. ~Held(Idle) /\ ~Held(Resting)
    BY DEF Held, Idle, Resting
  <2>2. refresh = Resting /\ \A r \in Requests : req[r] = Idle
    BY DEF StaleInit, ValueInit
  <2> QED
    BY <2>1, <2>2, InitOK DEF StaleInit, AgeInv
<1>2. StaleInv /\ AgeInv /\ lateRefresh \in BOOLEAN /\ [StaleNext]_vars
        => (StaleInv /\ AgeInv /\ lateRefresh \in BOOLEAN)'
  <2> SUFFICES ASSUME StaleInv, AgeInv, lateRefresh \in BOOLEAN, [StaleNext]_vars
               PROVE  StaleInv' /\ AgeInv' /\ lateRefresh' \in BOOLEAN
    OBVIOUS
  <2>1. StaleInv'
    BY StepKept
  <2>2. CASE StaleNext
    <3>1. Overtake
      BY <2>2, Zenon DEF StaleNext, Observe
    <3>2. AgeInv'
      BY <3>1, EveryAgeStep, AgeKept
    <3>3. lateRefresh' \in BOOLEAN
      BY <3>1 DEF Overtake
    <3> QED
      BY <2>1, <3>2, <3>3
  <2>3. CASE UNCHANGED vars
    <3>1. UNCHANGED <<cache, req, refresh, overtaken, lateRefresh>>
      BY <2>3 DEF vars, vvars, svars
    <3> QED
      BY <2>1, <3>1 DEF AgeInv, Held, NoOlder
  <2> QED
    BY <2>2, <2>3
<1> QED
  BY <1>1, <1>2, PTL DEF StaleSpec

\* In whatever order primes, saves and refreshes overlap: a cached value goes back to an
\* older revision, or is lost, only when the answer that is stored was overtaken by another
\* one stored for the cell since it was fetched (value_cache.py:161, 276).
THEOREM OnlyOvertakenGoBack == StaleSpec => NoGoingBack
<1>1. StaleInv /\ AgeInv /\ [StaleNext]_vars
        => [\A c \in Coords, p \in Periods : cache'[c][p].rev < cache[c][p].rev =>
              \/ \E r \in overtaken : req[r].coord = c
              \/ lateRefresh /\ refresh.coord = c]_vars
  BY EveryAgeStep, BackOvertaken
<1> QED
  BY <1>1, AgeInvariant, PTL DEF StaleSpec, NoGoingBack
=============================================================================

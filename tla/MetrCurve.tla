------------------------------ MODULE MetrCurve ------------------------------
(***************************************************************************)
(* The requests the METR calculator answers: the curve of a household over *)
(* a range of incomes with its dead zones, the comparison of the provinces *)
(* at one income, one income point, and the four cards of the publication. *)
(* The curve is computed point by point and then scanned for zones.        *)
(***************************************************************************)
EXTENDS MetrEngine, FiniteSets

CONSTANTS
    CurveRequests,    \* bound: the curves asked for
    CompareRequests   \* bound: the incomes and families compared

\* What the query parameters are held to; the bounds of incomes and children are wider here.
ASSUME RequestConstants ==
    /\ CurveRequests \subseteq
         [kind : {"curve"}, province : {Province[i] : i \in DOMAIN Province}, family : FamilyType,
          children : Nat, under6 : Nat, min : Nat, max : Int, step : Nat \ 0..499]
    /\ CompareRequests \subseteq
         [kind : {"compare"}, income : Nat, family : FamilyType, children : Nat, under6 : Nat]
         \cup [kind : {"calculate"}, income : Nat, province : {Province[i] : i \in DOMAIN Province},
               family : FamilyType, children : Nat, under6 : Nat]

VARIABLES
    stage,     \* of the request: idle, busy, answered or refused
    request,   \* the query parameters
    curve,     \* generate_curve's points
    scan,      \* find_dead_zones' local variables
    answer     \* the response body

metrVars == <<stage, request, curve, scan, answer>>

Nothing == [kind |-> "nothing"]
NotScanned == [seen |-> 0, zones |-> <<>>, inZone |-> FALSE, start |-> 0, peak |-> 0]

-----------------------------------------------------------------------------
(* The answers that are computed in one piece.                              *)

InputAt(r, income) == METRInput(income, r.province, r.family, r.children, r.under6)

\* sort(reverse=True) keeps provinces of equal METR in the order of the enum.
RanksBefore(a, b, metr) ==
    metr[a] > metr[b] \/ (metr[a] = metr[b] /\ a < b)
RankProvinces(income, family, children, under6) ==
    LET metr == [i \in DOMAIN Province |->
                   CalculateMetr(METRInput(income, Province[i], family, children, under6))]
        place(i) == 1 + Cardinality({j \in DOMAIN Province : RanksBefore(j, i, metr)})
        at(n) == CHOOSE i \in DOMAIN Province : place(i) = n
    IN  [n \in DOMAIN Province |-> [province |-> Province[at(n)], metr |-> metr[at(n)],
                                    zone |-> ClassifyZone(metr[at(n)])]]

Calculated(r) ==
    LET inp == InputAt(r, r.income)
    IN  [net |-> CalculateNetIncome(inp), metr |-> CalculateMetr(inp),
         zone |-> ClassifyZone(CalculateMetr(inp)), components |-> METRComponents(inp)]

\* The household of the cards: an Ontario single parent of two under six.
CardInput(income) == METRInput(income, "ON", "single_parent", 2, 2)

\* Card 1: the peak of their curve in steps of 5000 dollars, and what is kept.
Hero ==
    LET metr == [n \in 3..31 |-> CalculateMetr(CardInput(5000 * n))]
        peak == CHOOSE n \in 3..31 : \A m \in 3..31 : RanksBefore(n, m, metr) \/ n = m
    IN  [gross |-> 5000 * peak, metr |-> metr[peak], keep |-> Round((1000 - metr[peak]) * 1000)]

\* Card 2: what happens to a raise from 45 000 to 55 000 dollars.
Waterfall ==
    LET low == METRComponents(CardInput(45000))
        high == METRComponents(CardInput(55000))
        rise(name) == high[name] - low[name]
        loss(amount) == 0 - Greater(Round(amount), 0 - Round(amount))
    IN  [steps |-> << 10000, loss(rise("federal_tax")), loss(rise("provincial_tax")),
                      loss(rise("cpp") + rise("cpp2") + rise("ei")), Round(rise("ccb")),
                      Round(rise("cwb")), Round(rise("provincial_benefits")) >>,
         gain |-> CalculateNetIncome(CardInput(55000)) - CalculateNetIncome(CardInput(45000))]

\* Card 4: three raises of 10 000 dollars, the rate in hundredths of a percent.
Slopes ==
    [start \in {45000, 55000, 85000} |->
       LET gain == CalculateNetIncome(CardInput(start + 10000))
                   - CalculateNetIncome(CardInput(start))
       IN  [gain |-> gain, rate |-> 10000 - gain]]

Cards == [hero |-> Hero, waterfall |-> Waterfall, slopes |-> Slopes,
          bars |-> RankProvinces(47000, "single_parent", 2, 2)]

-----------------------------------------------------------------------------
(* The curve.                                                               *)

Incomplete == request.kind = "curve" /\ request.min + Len(curve) * request.step <= request.max

\* One turn of the loop in generate_curve.
AddPoint ==
    /\ stage = "busy"
    /\ Incomplete
    /\ LET inp == InputAt(request, request.min + Len(curve) * request.step)
           metr == CalculateMetr(inp)
       IN  curve' = Append(curve, [gross |-> inp.gross, net |-> CalculateNetIncome(inp),
                                   metr |-> metr, zone |-> ClassifyZone(metr)])
    /\ UNCHANGED <<stage, request, scan, answer>>

PeakKept(point) == [scan EXCEPT !.inZone = TRUE, !.start = point.gross,
                                !.peak = Greater(@, point.metr)]
Entered(point) == [scan EXCEPT !.inZone = TRUE, !.start = point.gross, !.peak = point.metr]
Closed(end) == [scan EXCEPT !.inZone = FALSE,
                  !.zones = Append(@, [start |-> scan.start, end |-> end, peak |-> scan.peak])]

\* One turn of the loop in find_dead_zones; prev_gross is the point before.
ScanPoint ==
    /\ stage = "busy"
    /\ request.kind = "curve" /\ ~Incomplete
    /\ scan.seen < Len(curve)
    /\ LET point == curve[scan.seen + 1]
           next == IF point.metr >= DeadZone
                   THEN IF ~scan.inZone THEN Entered(point)
                        ELSE [scan EXCEPT !.peak = Greater(@, point.metr)]
                   ELSE IF scan.inZone THEN Closed(curve[scan.seen].gross) ELSE scan
       IN  scan' = [next EXCEPT !.seen = @ + 1]
    /\ UNCHANGED <<stage, request, curve, answer>>

\* max(curve, key=metr): the first of the highest points.
PeakPoint == CHOOSE i \in DOMAIN curve :
    \A j \in DOMAIN curve : RanksBefore(i, j, [k \in DOMAIN curve |-> curve[k].metr]) \/ i = j

\* The first point after the last zone that is back to normal, if there is one.
Cleared(zones) ==
    LET back == {i \in DOMAIN curve : /\ zones # <<>>
                                      /\ curve[i].gross > zones[Len(zones)].end
                                      /\ curve[i].metr < High}
    IN  {i \in back : \A j \in back : i <= j}

\* The zone that is open at the end is closed, and the annotations are added.
AnswerCurve ==
    /\ stage = "busy"
    /\ request.kind = "curve" /\ ~Incomplete
    /\ scan.seen = Len(curve)
    /\ scan' = IF scan.inZone THEN Closed(curve[Len(curve)].gross) ELSE scan
    /\ answer' = [zones |-> scan'.zones,
                  peak |-> IF curve = <<>> THEN [gross |-> 0, metr |-> 0]
                           ELSE [gross |-> curve[PeakPoint].gross,
                                 metr |-> curve[PeakPoint].metr],
                  cleared |-> {curve[i].gross : i \in Cleared(scan'.zones)}]
    /\ stage' = "answered"
    /\ UNCHANGED <<request, curve>>

-----------------------------------------------------------------------------
(* Requests.  The rate limit of 200 a minute and address is in front.       *)

Arrive(r) ==
    /\ request' = r
    /\ stage' = IF r.under6 > r.children THEN "refused" ELSE "busy"
    /\ UNCHANGED <<curve, scan, answer>>

AnswerAtOnce ==
    /\ stage = "busy"
    /\ request.kind # "curve"
    /\ answer' = CASE request.kind = "calculate" -> Calculated(request)
                   [] request.kind = "compare" ->
                        RankProvinces(request.income, request.family, request.children,
                                      request.under6)
                   [] request.kind = "cards" -> Cards
    /\ stage' = "answered"
    /\ UNCHANGED <<request, curve, scan>>

MetrInit == /\ stage = "idle" /\ request = Nothing /\ curve = <<>>
            /\ scan = NotScanned /\ answer = Nothing

CardsRequest == [kind |-> "cards", children |-> 2, under6 |-> 2]
MetrNext ==
    \/ stage = "idle" /\ \E r \in CurveRequests \cup CompareRequests \cup {CardsRequest} : Arrive(r)
    \/ AddPoint \/ ScanPoint \/ AnswerCurve \/ AnswerAtOnce
MetrSpec == MetrInit /\ [][MetrNext]_metrVars

-----------------------------------------------------------------------------
(* Correctness.                                                             *)

Dead(i) == curve[i].metr >= DeadZone

\* Reference: the maximal runs of dead points among the first n.
Runs(n) ==
    {run \in (1..n) \X (1..n) :
       /\ run[1] <= run[2]
       /\ \A k \in run[1]..run[2] : Dead(k)
       /\ run[1] = 1 \/ ~Dead(run[1] - 1)
       /\ run[2] = n \/ ~Dead(run[2] + 1)}
ZoneOf(run) ==
    [start |-> curve[run[1]].gross, end |-> curve[run[2]].gross,
     peak |-> CHOOSE m \in {curve[k].metr : k \in run[1]..run[2]} :
                \A k \in run[1]..run[2] : curve[k].metr <= m]
ZonesListed(zones) == {zones[i] : i \in DOMAIN zones}
Ascending(zones) == \A i, j \in DOMAIN zones : i < j => zones[i].end < zones[j].start

\* A raise never leaves a household with less: along every curve, whatever taxes
\* and clawbacks overlap, net income rises with gross income.
RaisesPay == \A i, j \in DOMAIN curve : i < j => curve[i].net < curve[j].net

\* While find_dead_zones scans, it has listed the runs that have ended, and
\* knows the start and the peak of the one that has not.
ScanInv ==
    LET ended == {run \in Runs(scan.seen) : run[2] < scan.seen}
        open == Runs(scan.seen) \ ended
    IN  stage = "busy" =>
          /\ ZonesListed(scan.zones) = {ZoneOf(run) : run \in ended}
          /\ Ascending(scan.zones)
          /\ scan.inZone <=> open # {}
          /\ \A run \in open : /\ ZoneOf(run).start = scan.start
                               /\ ZoneOf(run).peak = scan.peak

\* The first of the highest points of a curve; an empty curve has none.
HighestOf(c, p) ==
    c # <<>> =>
      \E i \in DOMAIN c :
        /\ p = [gross |-> c[i].gross, metr |-> c[i].metr]
        /\ \A j \in DOMAIN c : c[j].metr <= c[i].metr /\ (c[j].metr = c[i].metr => i <= j)

\* The answer lists exactly the maximal dead runs, its peak is the first of the
\* highest points of the curve, and no dead point follows a "Clawbacks cleared".
CurveAnswerInv ==
    stage = "answered" /\ request.kind = "curve" =>
        /\ ZonesListed(answer.zones) = {ZoneOf(run) : run \in Runs(Len(curve))}
        /\ Ascending(answer.zones)
        /\ HighestOf(curve, answer.peak)
        /\ \A g \in answer.cleared : \A i \in DOMAIN curve : curve[i].gross >= g => ~Dead(i)

Ranked(bars) ==
    /\ {bars[i].province : i \in DOMAIN bars} = {Province[i] : i \in DOMAIN Province}
    /\ \A i, j \in DOMAIN bars : i < j => bars[i].metr >= bars[j].metr
Omitted(name) ==
    METRComponents(CardInput(55000))[name] - METRComponents(CardInput(45000))[name]
Total(steps) == steps[1] + steps[2] + steps[3] + steps[4] + steps[5] + steps[6] + steps[7]

\* A comparison ranks every province once, the highest rate first; the waterfall
\* of card 2 ends in the real gain but for the GST credit and the health premium
\* that it leaves out and five rounded dollars.
OtherAnswersInv ==
    stage = "answered" =>
      /\ request.kind = "compare" => Ranked(answer)
      /\ request.kind = "cards" =>
           /\ Ranked(answer.bars)
           /\ answer.waterfall.gain = answer.slopes[45000].gain
           /\ answer.waterfall.gain - Total(answer.waterfall.steps)
                - Round(Omitted("gst_credit") - Omitted("ohp")) \in -5..5

\* METR (services/metr): every curve rises, its zones are the maximal dead runs
\* while they are found and in the answer, and the other answers add up.
MetrInv == RaisesPay /\ ScanInv /\ CurveAnswerInv /\ OtherAnswersInv
=============================================================================

----------------------------- MODULE MetrEngine -----------------------------
(***************************************************************************)
(* The tax and benefit functions of the METR calculator, 2025 parameters.  *)
(* Incomes, widths and thresholds are whole dollars; an amount of money is *)
(* in ten-thousandths of a dollar and a rate in ten-thousandths, so that a *)
(* rate of an income is exact (the code's floating point is not).  Amounts *)
(* stay below 2^31 for incomes up to 165 000 dollars.                      *)
(***************************************************************************)
EXTENDS Integers, Sequences

Unit == 10000
Lesser(a, b) == IF a <= b THEN a ELSE b
Greater(a, b) == IF a >= b THEN a ELSE b

Province == <<"ON", "BC", "AB", "QC">>
FamilyType == {"single", "single_parent", "couple"}

\* __post_init__: a single person with children is a single parent.
METRInput(income, province, family, children, under6) ==
    [gross |-> income, province |-> province, children |-> children, under6 |-> under6,
     family |-> IF children > 0 /\ family = "single" THEN "single_parent" ELSE family]
IsFamily(family) == family # "single"

-----------------------------------------------------------------------------
(* Taxes and contributions.  A bracket is its width and its rate.           *)

Rest == 1000000    \* an unlimited width

FED_BRACKETS == << <<57375, 1500>>, <<57375, 2050>>, <<63025, 2600>>, <<75414, 2900>>,
                   <<Rest, 3300>> >>
FED_BASIC_PERSONAL == 16129

ON_BRACKETS == << <<52886, 505>>, <<52878, 915>>, <<44236, 1116>>, <<70000, 1216>>,
                  <<Rest, 1316>> >>
BC_BRACKETS == << <<47937, 506>>, <<47938, 770>>, <<13825, 1050>>, <<24930, 1229>>,
                  <<46592, 1470>>, <<66218, 1680>>, <<Rest, 2050>> >>
AB_BRACKETS == << <<Rest, 1000>> >>
QC_BRACKETS == << <<51780, 1400>>, <<51780, 1900>>, <<18940, 2400>>, <<Rest, 2575>> >>

\* The loop over the brackets; after a break nothing remains to be taxed.
ApplyBrackets(taxable, brackets) ==
    LET after[i \in 0..Len(brackets)] ==
          IF i = 0 THEN [tax |-> 0, remaining |-> taxable]
          ELSE LET taxed == Lesser(after[i - 1].remaining, brackets[i][1])
               IN  [tax |-> after[i - 1].tax + taxed * brackets[i][2],
                    remaining |-> after[i - 1].remaining - taxed]
    IN  after[Len(brackets)].tax

Above(gross, exemption) == Greater(0, gross - exemption)
FederalTax(gross) == ApplyBrackets(Above(gross, FED_BASIC_PERSONAL), FED_BRACKETS)

\* 20 % above the first threshold, and 36 % more above the second.
ON == [basic |-> 11865, surtax1 |-> 5315, surtax2 |-> 6802]
OntarioSurtax(base) == Greater(0, base - ON.surtax1 * Unit) \div 5
                       + (9 * Greater(0, base - ON.surtax2 * Unit)) \div 25

OntarioTax(gross) == LET base == ApplyBrackets(Above(gross, ON.basic), ON_BRACKETS)
                     IN  base + OntarioSurtax(base)

BC_BASIC_PERSONAL == 12580
AB_BASIC_PERSONAL == 21885
QC_BASIC_PERSONAL == 18056
ProvincialTax(gross, province) ==
    CASE province = "ON" -> OntarioTax(gross)
      [] province = "BC" -> ApplyBrackets(Above(gross, BC_BASIC_PERSONAL), BC_BRACKETS)
      [] province = "AB" -> ApplyBrackets(Above(gross, AB_BASIC_PERSONAL), AB_BRACKETS)
      [] province = "QC" -> ApplyBrackets(Above(gross, QC_BASIC_PERSONAL), QC_BRACKETS)

CPP == [rate |-> 595, exemption |-> 3500, ceiling |-> 71300]
CPP2 == [rate |-> 400, ceiling |-> 81200]
EI == [rate |-> 166, ceiling |-> 65700]

CppContribution(gross) == Greater(0, Lesser(gross, CPP.ceiling) - CPP.exemption) * CPP.rate
Cpp2Contribution(gross) ==
    IF gross <= CPP.ceiling THEN 0
    ELSE (Lesser(gross, CPP2.ceiling) - CPP.ceiling) * CPP2.rate
EiPremium(gross) == Lesser(gross, EI.ceiling) * EI.rate

\* A band starts above `from`: base and a rate on the excess, up to the cap.
OhpBands == { [from |-> 20000, cap |-> 300, base |-> 0,   rate |-> 600],
              [from |-> 25000, cap |-> 450, base |-> 300, rate |-> 600],
              [from |-> 36000, cap |-> 600, base |-> 450, rate |-> 2500],
              [from |-> 38500, cap |-> 750, base |-> 600, rate |-> 2500],
              [from |-> 48000, cap |-> 900, base |-> 750, rate |-> 2500],
              [from |-> 72000, cap |-> 900, base |-> 900, rate |-> 0] }
OntarioHealthPremium(gross) ==
    IF gross <= 20000 THEN 0
    ELSE LET band == CHOOSE b \in OhpBands :
                       /\ b.from < gross
                       /\ \A c \in OhpBands : c.from < gross => c.from <= b.from
         IN  Lesser(band.cap * Unit, band.base * Unit + (gross - band.from) * band.rate)

-----------------------------------------------------------------------------
(* Benefits.                                                                *)

\* A benefit of `amount` dollars that is clawed back at `rate` above a threshold.
PhasedOut(amount, gross, threshold, rate) ==
    IF gross <= threshold THEN amount * Unit
    ELSE Greater(0, amount * Unit - (gross - threshold) * rate)

\* One rate for two and more children; the rate of a second tier, 0.057, is not used.
CCB == [under6 |-> 7787, to17 |-> 6570, threshold |-> 36502, one |-> 700, more |-> 1350]
CcbBenefit(gross, children, under6) ==
    IF children = 0 THEN 0
    ELSE PhasedOut(under6 * CCB.under6 + (children - under6) * CCB.to17, gross,
                   CCB.threshold, IF children = 1 THEN CCB.one ELSE CCB.more)

GST == [base |-> 340, spouse |-> 340, child |-> 179, threshold |-> 44530, rate |-> 500]
GstCredit(gross, family, children) ==
    PhasedOut(GST.base + (IF IsFamily(family) THEN GST.spouse ELSE 0) + children * GST.child,
              gross, GST.threshold, GST.rate)

CWB(family) == [max |-> IF IsFamily(family) THEN 2730 ELSE 1590, rate |-> 2700,
                from |-> 3000, start |-> IF IsFamily(family) THEN 28494 ELSE 24975,
                clawback |-> 1500]
CwbBenefit(gross, family) ==
    LET cwb == CWB(family)
    IN  IF gross < cwb.from THEN 0
        ELSE Greater(0, Lesser(cwb.max * Unit, (gross - cwb.from) * cwb.rate)
                        - Above(gross, cwb.start) * cwb.clawback)

OTB == [single |-> 1013, family |-> 1213, threshold |-> 32864, rate |-> 400]
OntarioTrillium(gross, family) ==
    PhasedOut(IF IsFamily(family) THEN OTB.family ELSE OTB.single, gross,
              OTB.threshold, OTB.rate)
BCF == [child |-> 2188, threshold |-> 25506, one |-> 132, more |-> 264]
BcFamilyBenefit(gross, children) ==
    PhasedOut(children * BCF.child, gross, BCF.threshold,
              IF children = 1 THEN BCF.one ELSE BCF.more)
ACFB == [child |-> 1330, supplement |-> 764, threshold |-> 27024, rate |-> 400]
AlbertaCfb(gross, children) ==
    IF children = 0 THEN 0
    ELSE PhasedOut(Lesser(children, 4) * ACFB.child + ACFB.supplement, gross,
                   ACFB.threshold, ACFB.rate)
QCS == [single |-> 1032, family |-> 1548, threshold |-> 39710, rate |-> 600]
QcSolidarity(gross, family) ==
    PhasedOut(IF IsFamily(family) THEN QCS.family ELSE QCS.single, gross,
              QCS.threshold, QCS.rate)

ProvincialBenefits(inp) ==
    CASE inp.province = "ON" -> OntarioTrillium(inp.gross, inp.family)
      [] inp.province = "BC" -> BcFamilyBenefit(inp.gross, inp.children)
      [] inp.province = "AB" -> AlbertaCfb(inp.gross, inp.children)
      [] inp.province = "QC" -> QcSolidarity(inp.gross, inp.family)

-----------------------------------------------------------------------------
(* Net income and the marginal rate.                                        *)

METRComponents(inp) ==
    [federal_tax |-> FederalTax(inp.gross),
     provincial_tax |-> ProvincialTax(inp.gross, inp.province),
     cpp |-> CppContribution(inp.gross), cpp2 |-> Cpp2Contribution(inp.gross),
     ei |-> EiPremium(inp.gross),
     ohp |-> IF inp.province = "ON" THEN OntarioHealthPremium(inp.gross) ELSE 0,
     ccb |-> CcbBenefit(inp.gross, inp.children, inp.under6),
     gst_credit |-> GstCredit(inp.gross, inp.family, inp.children),
     cwb |-> CwbBenefit(inp.gross, inp.family),
     provincial_benefits |-> ProvincialBenefits(inp)]

TotalTaxes(c) == c.federal_tax + c.provincial_tax + c.cpp + c.cpp2 + c.ei + c.ohp
TotalBenefits(c) == c.ccb + c.gst_credit + c.cwb + c.provincial_benefits

\* round: to whole dollars, a half to the even one.
Round(amount) ==
    LET whole == amount \div Unit
        part == amount % Unit
    IN  IF \/ part > Unit \div 2
           \/ part = Unit \div 2 /\ whole % 2 = 1
        THEN whole + 1 ELSE whole

CalculateNetIncome(inp) ==
    LET c == METRComponents(inp)
    IN  Round(inp.gross * Unit - TotalTaxes(c) + TotalBenefits(c))

\* In tenths of a percent, by a forward difference of a thousand dollars: one
\* dollar that does not reach the net income is one tenth.
Delta == 1000
CalculateMetr(inp) ==
    Delta - (CalculateNetIncome([inp EXCEPT !.gross = @ + Delta]) - CalculateNetIncome(inp))

\* Thresholds in tenths of a percent.
High == 450
DeadZone == 550
ClassifyZone(metr) ==
    CASE metr >= 700 -> "extreme"
      [] metr >= DeadZone /\ metr < 700 -> "dead_zone"
      [] metr >= High /\ metr < DeadZone -> "high"
      [] OTHER -> "normal"
=============================================================================

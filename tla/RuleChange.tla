---------------------------- MODULE RuleChange ----------------------------
(***************************************************************************)
(* Scans seen by two rule versions, one after the other, under one        *)
(* calibration: what the classifier, CompareVersions, TraceFlip and the    *)
(* quality score say about the change.  Every step replaces one of the     *)
(* inputs, so that the reachable states are all combinations of them.      *)
(***************************************************************************)
EXTENDS Classifier, FiniteSets, Sequences

CONSTANTS
    Params,      \* rule parameters somebody submits, valid or not
    Default,     \* model.DefaultRuleParams
    Cals,        \* calibrations of the station
    Gates,       \* the variables of a gate
    Scans        \* the gates of a scan, in the order they are listed

ASSUME ChangeAssumption ==
    /\ Params \subseteq RuleParams
    /\ Default \in RuleParams /\ Validate(Default)
    /\ Cals \subseteq Calibration
    /\ Gates \subseteq GateVars
    /\ Scans \subseteq Seq(Gates)

VARIABLES
    from, to,    \* the parameters of the previous and of the present version
    cal          \* the effective calibration, or Null

vars == <<from, to, cal>>

Init ==
    /\ from = Default
    /\ to = Default
    /\ cal = Null

\* CreateDraft refuses the parameters, or they are published.
NewVersion(p) ==
    /\ IF Validate(p)
       THEN from' = to /\ to' = p
       ELSE UNCHANGED <<from, to>>
    /\ UNCHANGED cal

\* CreateDraft of a calibration limits the correction of RHOHV only.
NewCalibration(c) ==
    /\ cal' = IF -One <= 2 * c.rhohv_bias /\ 2 * c.rhohv_bias <= One THEN c ELSE cal
    /\ UNCHANGED <<from, to>>

Next ==
    \/ \E p \in Params : NewVersion(p)
    \/ \E c \in Cals : NewCalibration(c)

Spec == Init /\ [][Next]_vars

-----------------------------------------------------------------------------
\* What Mark classifies.
Corrected(g) == Apply(cal, g)

\* Fault: only the gates that were valid before can be listed.
FaultyFlips(f, t, scan) ==
    {i \in DOMAIN scan : Label(f, scan[i]) = "valid" /\ Label(t, scan[i]) # "valid"}

\* TraceFlip: the gates whose label differs.  It classifies the raw variables.
Flips(f, t, scan) == {i \in DOMAIN scan : Label(f, scan[i]) # Label(t, scan[i])}

LabelledBy(p, scan, label) ==
    {i \in DOMAIN scan : Label(p, Corrected(scan[i])) = label}

ScoreBy(p, scan) ==
    Score(Cardinality(LabelledBy(p, scan, "valid")),
          Cardinality(LabelledBy(p, scan, "missing")),
          Len(scan))

-----------------------------------------------------------------------------
(***************************************************************************)
(* Properties.                                                             *)
(***************************************************************************)
\* Type invariant: published parameters have passed Validate, and a calibrated gate
\* is a possible measurement again, with RHOHV in [0,1] (applier.go:53).
TypeOK ==
    /\ from \in RuleParams /\ Validate(from)
    /\ to \in RuleParams /\ Validate(to)
    /\ cal \in Calibration \cup {Null}
    /\ \A g \in Gates : Corrected(g) \in GateVars

\* The three limits DescribeThresholds prints (classifier.go:94).
WithinLimits(p, g) ==
    /\ g.zh <= p["zh_max"]
    /\ g.rhohv >= p["rhohv_min"]
    /\ p["zdr_min"] <= g.zdr /\ g.zdr <= p["zdr_max"]

\* The condition of its last clause.
OffZero(p, g) == Abs(g.zdr) >= p["zdr_abs_max"] \/ g.zh <= p["zh_clutter_min"]

\* The five ordered tests amount to one condition: a complete gate, as the calibration
\* leaves it, is valid if and only if it is within the limits and the condition of the
\* last clause holds of it.  The words of that clause say the opposite, see
\* NearZeroAsPrinted.
ValidWithinLimits ==
    \A g \in Gates : ~Incomplete(g) =>
        (Label(to, Corrected(g)) = "valid" <=>
            WithinLimits(to, Corrected(g)) /\ OffZero(to, Corrected(g)))

\* Thresholds that admit at least as much as the previous ones.  For zdr_abs_max and
\* zh_clutter_min, which delimit a region of clutter, this is not the direction
\* CompareVersions calls loosened.
Admits(f, t) ==
    /\ f["zh_max"] <= t["zh_max"] /\ f["zdr_max"] <= t["zdr_max"]
    /\ f["rhohv_min"] >= t["rhohv_min"] /\ f["zdr_min"] >= t["zdr_min"]
    /\ f["zdr_abs_max"] >= t["zdr_abs_max"]
    /\ f["zh_clutter_min"] <= t["zh_clutter_min"]

\* A version that admits more finds every gate valid that the previous one did: the
\* order of the tests cannot turn a valid gate into an anomaly or clutter.
AdmittingKeepsValid ==
    Admits(from, to) =>
        \A g \in Gates : Label(from, Corrected(g)) = "valid" =>
            Label(to, Corrected(g)) = "valid"

\* ... and never scores a scan lower (quality.go:5-13).  The score is 100 when every
\* gate is valid, 0 when all are missing, and a missing gate costs coverage only
\* (aggregator.go:40): when the others are valid it keeps the 80 points of the ratio.
ScoreFollowsValidity ==
    \A scan \in Scans :
        LET valid   == LabelledBy(to, scan, "valid")
            missing == LabelledBy(to, scan, "missing")
            score   == ScoreBy(to, scan)
        IN /\ Admits(from, to) => ScoreBy(from, scan) <= score
           /\ score \in 0..1000
           /\ missing = DOMAIN scan => score = 0
           /\ valid # {} /\ valid = DOMAIN scan => score = 1000
           /\ valid # {} /\ valid \cup missing = DOMAIN scan => score >= 800

\* A comparison read backwards exchanges loosened and tightened (versioning.go:31),
\* and two versions it finds equal flip no gate (trace.go:12).
CompareAccountsForFlips ==
    /\ Loosened(from, to) = Tightened(to, from)
    /\ \A scan \in Scans : Flips(from, to, scan) # {} => Changed(from, to) # {}

\* A correction by d cannot carry v to the threshold x or across it.
Beyond(v, x, d) == d = 0 \/ Abs(v - x) > Abs(d)

\* The calibration leaves g where it is with respect to every threshold of p: those of
\* ZDR are its range and both ends of the near-zero region.
Clear(p, g) ==
    \/ cal = Null \/ Incomplete(g)
    \/ /\ \A x \in {"zh_max", "zh_clutter_min"} : Beyond(g.zh, p[x], cal.zh_offset)
       /\ Beyond(g.rhohv, p["rhohv_min"], cal.rhohv_bias)
       /\ \A x \in {p["zdr_min"], p["zdr_max"], p["zdr_abs_max"], -p["zdr_abs_max"]} :
             Beyond(g.zdr, x, cal.zdr_bias)

\* TraceFlip judges the variables as they were uploaded, although Classify is documented
\* to take corrected ones (trace.go:60, classifier.go:39); Mark corrects them first
\* (mark_service.go:104).  The trace is right about the gates whose variables differ
\* from every threshold by more than the correction: it lists such a gate if and only
\* if a Mark under the one and a Mark under the other version label it differently.
\* Of the others it may list too many and too few.
TraceRightBeyondCorrection ==
    \A scan \in Scans : \A i \in DOMAIN scan :
        Clear(from, scan[i]) /\ Clear(to, scan[i]) =>
            (i \in Flips(from, to, scan) <=>
                Label(from, Corrected(scan[i])) # Label(to, Corrected(scan[i])))

-----------------------------------------------------------------------------
(***************************************************************************)
(* What the program says and does not do.                                  *)
(***************************************************************************)
\* versioning.go:83: after a change that is loosening as a whole, more gates are
\* valid; none that was valid is clutter now.
LooseningKeepsValid ==
    ReportsLoosening(from, to) =>
        \A g \in Gates : Label(from, Corrected(g)) = "valid" =>
            Label(to, Corrected(g)) = "valid"

\* classifier.go:95, printed by /api/health (stats_handler.go:33): of the gates within
\* the limits, those with a large |ZDR| or a small ZH are judged to be near-zero clutter
\* ("判近零杂波").  The test of classifier.go:64 is the opposite one.
NearZeroAsPrinted ==
    \A g \in Gates :
        /\ ~Incomplete(g)
        /\ WithinLimits(to, Corrected(g)) /\ OffZero(to, Corrected(g))
        => Label(to, Corrected(g)) = "clutter"
=============================================================================

---------------------------- MODULE Classifier ----------------------------
(***************************************************************************)
(* The pure part of the service: validation of the rule parameters, the    *)
(* calibration of a gate, its classification, the comparison of two rule   *)
(* versions and the quality score.                                         *)
(*                                                                         *)
(* The floats of the program are integers here, ZH and ZDR in units of the *)
(* decibel and RHOHV in units of 1 / One: the code only compares, adds and *)
(* subtracts them.  The score is computed in exact arithmetic, so the last *)
(* bit of a float that sits on a rounding boundary is not modelled.        *)
(***************************************************************************)
EXTENDS Integers

CONSTANTS
    One,     \* the RHOHV value 1
    Null     \* a nil variable, and no calibration at all

Threshold == {"zh_max", "zdr_min", "zdr_max", "rhohv_min", "zdr_abs_max",
              "zh_clutter_min"}
RuleParams  == [Threshold -> Int]
Calibration == [zh_offset : Int, zdr_bias : Int, rhohv_bias : Int]

\* ValidateGates stores no variable at all when one is missing, and skips a row whose
\* RHOHV is not in [0,1].
MissingGate == [zh |-> Null, zdr |-> Null, rhohv |-> Null]
GateVars    == [zh : Int, zdr : Int, rhohv : 0..One] \cup {MissingGate}

ASSUME ClassifierAssumption ==
    /\ One \in Nat \ {0}
    /\ Null \notin Int

-----------------------------------------------------------------------------
(***************************************************************************)
(* RuleParams.Validate.                                                    *)
(***************************************************************************)
Validate(p) ==
    /\ 0 < p["zh_max"] /\ p["zh_max"] <= 100
    /\ p["zdr_min"] < p["zdr_max"]
    /\ 0 <= p["rhohv_min"] /\ p["rhohv_min"] <= One
    /\ 0 <= p["zdr_abs_max"] /\ p["zdr_abs_max"] <= 5
    /\ 0 <= p["zh_clutter_min"] /\ p["zh_clutter_min"] <= p["zh_max"]

-----------------------------------------------------------------------------
(***************************************************************************)
(* Applier.Apply.                                                          *)
(***************************************************************************)
\* Fault: a positive bias is not cut off.
FaultyClamp01(v) == IF v < 0 THEN 0 ELSE v

Clamp01(v) == IF v < 0 THEN 0 ELSE IF v > One THEN One ELSE v

\* A nil variable stays nil; without a calibration nothing is corrected.
Apply(cal, g) ==
    IF cal = Null THEN g
    ELSE [zh    |-> IF g.zh = Null THEN Null ELSE g.zh + cal.zh_offset,
          zdr   |-> IF g.zdr = Null THEN Null ELSE g.zdr - cal.zdr_bias,
          rhohv |-> IF g.rhohv = Null THEN Null ELSE Clamp01(g.rhohv + cal.rhohv_bias)]

-----------------------------------------------------------------------------
(***************************************************************************)
(* Classifier.Classify: the first condition that holds decides.            *)
(***************************************************************************)
Abs(x) == IF x < 0 THEN -x ELSE x

Incomplete(g) == g.zh = Null \/ g.zdr = Null \/ g.rhohv = Null

\* Fault: ZDR is compared without its absolute value.
FaultyNearZero(p, g) ==
    g.zdr < p["zdr_abs_max"] /\ g.zh > p["zh_clutter_min"]

NearZero(p, g) ==
    Abs(g.zdr) < p["zdr_abs_max"] /\ g.zh > p["zh_clutter_min"]

\* Fault: the comparison with the lower limit of RHOHV is turned round.
FaultyCode(p, g) ==
    IF Incomplete(g) THEN "MISSING"
    ELSE IF g.zh > p["zh_max"] THEN "CLUTTER_HIGH_ZH"
    ELSE IF g.rhohv > p["rhohv_min"] THEN "CLUTTER_LOW_RHOHV"
    ELSE IF NearZero(p, g) THEN "CLUTTER_ZERO_ZDR_HIGH_ZH"
    ELSE IF g.zdr < p["zdr_min"] \/ g.zdr > p["zdr_max"] THEN "ANOMALOUS_ZDR"
    ELSE "VALID"

Code(p, g) ==
    IF Incomplete(g) THEN "MISSING"
    ELSE IF g.zh > p["zh_max"] THEN "CLUTTER_HIGH_ZH"
    ELSE IF g.rhohv < p["rhohv_min"] THEN "CLUTTER_LOW_RHOHV"
    ELSE IF NearZero(p, g) THEN "CLUTTER_ZERO_ZDR_HIGH_ZH"
    ELSE IF g.zdr < p["zdr_min"] \/ g.zdr > p["zdr_max"] THEN "ANOMALOUS_ZDR"
    ELSE "VALID"

Label(p, g) ==
    CASE Code(p, g) = "MISSING" -> "missing"
      [] Code(p, g) = "ANOMALOUS_ZDR" -> "anomaly"
      [] Code(p, g) = "VALID" -> "valid"
      [] OTHER -> "clutter"

-----------------------------------------------------------------------------
(***************************************************************************)
(* CompareVersions: the thresholds that changed, and the direction of each *)
(* change as the program reports it.                                       *)
(***************************************************************************)
\* Fault: one threshold is not compared.
FaultyChanged(from, to) == {x \in Threshold \ {"zdr_min"} : from[x] # to[x]}

Changed(from, to) == {x \in Threshold : from[x] # to[x]}

Loosens(x, from, to) ==
    IF x \in {"zh_max", "zdr_max", "zdr_abs_max"} THEN to[x] > from[x]
    ELSE to[x] < from[x]

Loosened(from, to)  == {x \in Changed(from, to) : Loosens(x, from, to)}
Tightened(from, to) == {x \in Changed(from, to) : ~Loosens(x, from, to)}

\* "More gates become valid": the summary of a comparison with loosened thresholds
\* only.
ReportsLoosening(from, to) == Loosened(from, to) # {} /\ Tightened(from, to) = {}

-----------------------------------------------------------------------------
(***************************************************************************)
(* Aggregator.Compute and Score, in tenths of a point.                     *)
(***************************************************************************)
\* math.Round of the quotient of two naturals.
Round(num, den) == (2 * num + den) \div (2 * den)

\* Fault: the ratio is taken over all gates, missing ones included.
FaultyScore(valid, missing, total) ==
    IF total = 0 THEN 0
    ELSE Round(800 * valid + 200 * (total - missing), total)

\* The valid ratio (70 + 10 points) is over the gates that are not missing, the
\* coverage (20 points) over all of them.  The ratios are in [0,1], so that no
\* part has to be clamped.
Score(valid, missing, total) ==
    LET decided == total - missing IN
    IF total = 0 THEN 0
    ELSE IF decided = 0 THEN Round(200 * decided, total)
    ELSE Round(800 * valid * total + 200 * decided * decided, decided * total)
=============================================================================

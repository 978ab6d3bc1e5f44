------------------------- MODULE RuleChange_proofs -------------------------
(***************************************************************************)
(* Theorems about RuleChange, for all rule parameters, calibrations, gates *)
(* and scans.                                                              *)
(***************************************************************************)
EXTENDS RuleChange, FiniteSetTheorems, TLAPS

(***************************************************************************)
(* Type correctness.                                                       *)
(***************************************************************************)
\* The calibrated variables of a gate are those of a possible gate.
LEMMA ApplyType ==
    ASSUME NEW c \in Calibration \cup {Null}, NEW g \in GateVars
    PROVE  Apply(c, g) \in GateVars
<1> USE ClassifierAssumption DEF GateVars, MissingGate
<1>1. CASE c = Null
  BY <1>1 DEF Apply
<1>2. CASE c # Null /\ g = MissingGate
  BY <1>2 DEF Apply
<1>3. CASE c # Null /\ g \in [zh : Int, zdr : Int, rhohv : 0..One]
  <2>1. c.zh_offset \in Int /\ c.zdr_bias \in Int /\ c.rhohv_bias \in Int
    BY <1>3 DEF Calibration
  <2>2. g.zh \in Int /\ g.zdr \in Int /\ g.rhohv \in Int
    BY <1>3
  <2>3. Clamp01(g.rhohv + c.rhohv_bias) \in 0..One
    BY <2>1, <2>2 DEF Clamp01
  <2>4. Apply(c, g) = [zh |-> g.zh + c.zh_offset, zdr |-> g.zdr - c.zdr_bias,
                       rhohv |-> Clamp01(g.rhohv + c.rhohv_bias)]
    BY <1>3, <2>2 DEF Apply
  <2> QED
    BY <2>1, <2>2, <2>3, <2>4
<1> QED
  BY <1>1, <1>2, <1>3

\* Published parameters have passed Validate, and calibration leaves possible gates.
LEMMA TypeStep == ASSUME TypeOK, [Next]_vars PROVE TypeOK'
<1> USE ChangeAssumption DEF TypeOK, Corrected
<1>1. CASE UNCHANGED vars
  BY <1>1 DEF vars
<1>2. ASSUME NEW p \in Params, NewVersion(p) PROVE TypeOK'
  BY <1>2 DEF NewVersion
<1>3. ASSUME NEW c \in Cals, NewCalibration(c) PROVE TypeOK'
  <2>1. cal' \in Calibration \cup {Null}
    BY <1>3 DEF NewCalibration
  <2>2. \A g \in Gates : Apply(cal', g) \in GateVars
    BY <2>1, ApplyType
  <2> QED
    BY <1>3, <2>1, <2>2 DEF NewCalibration
<1> QED
  BY <1>1, <1>2, <1>3 DEF Next

\* The rules in use are valid and every corrected RHOHV is in [0,1] (constants.go:26,
\* applier.go:53).
THEOREM TypeCorrect == Spec => []TypeOK
<1>1. Init => TypeOK
  BY ChangeAssumption, ApplyType DEF Init, TypeOK, Corrected
<1>2. TypeOK /\ [Next]_vars => TypeOK'
  BY TypeStep
<1> QED
  BY <1>1, <1>2, PTL DEF Spec

-----------------------------------------------------------------------------
(***************************************************************************)
(* The classifier.                                                         *)
(***************************************************************************)
\* The five tests, read as one condition.
LEMMA ValidMeansWithin ==
    ASSUME NEW p \in RuleParams, NEW g \in GateVars, ~Incomplete(g)
    PROVE  Label(p, g) = "valid" <=> WithinLimits(p, g) /\ OffZero(p, g)
<1>1. g.zh \in Int /\ g.zdr \in Int /\ g.rhohv \in Int
  BY ClassifierAssumption DEF GateVars, MissingGate, Incomplete
<1>2. \A x \in Threshold : p[x] \in Int
  BY DEF RuleParams
<1>3. /\ p["zh_max"] \in Int /\ p["zdr_min"] \in Int /\ p["zdr_max"] \in Int
      /\ p["rhohv_min"] \in Int /\ p["zdr_abs_max"] \in Int /\ p["zh_clutter_min"] \in Int
  BY <1>2 DEF Threshold
<1>4. Label(p, g) = "valid" <=> Code(p, g) = "VALID"
  BY DEF Label, Code
<1>5. Code(p, g) = "VALID" <=>
        /\ ~(g.zh > p["zh_max"]) /\ ~(g.rhohv < p["rhohv_min"]) /\ ~NearZero(p, g)
        /\ ~(g.zdr < p["zdr_min"] \/ g.zdr > p["zdr_max"])
  BY DEF Code
<1> QED
  BY <1>1, <1>3, <1>4, <1>5 DEF WithinLimits, OffZero, NearZero, Abs

\* A gate is incomplete after the correction if and only if it was before.
LEMMA ApplyKeepsMissing ==
    ASSUME NEW c \in Calibration \cup {Null}, NEW g \in GateVars
    PROVE  Incomplete(Apply(c, g)) <=> Incomplete(g)
<1> USE ClassifierAssumption DEF GateVars, MissingGate, Incomplete, Apply
<1>1. CASE g = MissingGate
  BY <1>1
<1>2. CASE g \in [zh : Int, zdr : Int, rhohv : 0..One]
  <2>1. g.zh \in Int /\ g.zdr \in Int /\ g.rhohv \in Int
    BY <1>2
  <2>2. CASE c = Null
    BY <2>2
  <2>3. CASE c \in Calibration
    <3>1. c.zh_offset \in Int /\ c.zdr_bias \in Int /\ c.rhohv_bias \in Int
      BY <2>3 DEF Calibration
    <3>2. g.zh + c.zh_offset \in Int /\ g.zdr - c.zdr_bias \in Int
      BY <2>1, <3>1
    <3>3. Clamp01(g.rhohv + c.rhohv_bias) \in Int
      BY <2>1, <3>1 DEF Clamp01
    <3> QED
      BY <2>1, <3>2, <3>3
  <2> QED
    BY <2>2, <2>3
<1> QED
  BY <1>1, <1>2

\* The order of the tests does not matter: a gate is valid if and only if it is within
\* the limits and outside the near-zero region, for all parameters and calibrations
\* (classifier.go:40).
THEOREM LimitsAreExact == Spec => []ValidWithinLimits
<1>1. ASSUME TypeOK PROVE ValidWithinLimits
  <2> SUFFICES ASSUME NEW g \in Gates, ~Incomplete(g)
               PROVE  Label(to, Corrected(g)) = "valid" <=>
                      WithinLimits(to, Corrected(g)) /\ OffZero(to, Corrected(g))
    BY DEF ValidWithinLimits
  <2>1. Corrected(g) \in GateVars /\ ~Incomplete(Corrected(g))
    BY <1>1, ApplyKeepsMissing, ChangeAssumption DEF TypeOK, Corrected
  <2> QED
    BY <1>1, <2>1, ValidMeansWithin DEF TypeOK
<1> QED
  BY <1>1, TypeCorrect, PTL

\* A version that admits more keeps every valid gate valid, whatever the order of the
\* tests (classifier.go:40).
THEOREM AdmittingIsMonotone == Spec => []AdmittingKeepsValid
<1>1. ASSUME TypeOK PROVE AdmittingKeepsValid
  <2> SUFFICES ASSUME Admits(from, to), NEW g \in Gates,
                      Label(from, Corrected(g)) = "valid"
               PROVE  Label(to, Corrected(g)) = "valid"
    BY DEF AdmittingKeepsValid
  <2> DEFINE c == Corrected(g)
  <2>1. c \in GateVars
    BY <1>1 DEF TypeOK
  <2>2. ~Incomplete(c)
    BY DEF Label, Code
  <2>3. c.zh \in Int /\ c.zdr \in Int /\ c.rhohv \in Int
    BY <2>1, <2>2, ClassifierAssumption DEF GateVars, MissingGate, Incomplete
  <2>4. \A x \in Threshold : from[x] \in Int /\ to[x] \in Int
    BY <1>1 DEF TypeOK, RuleParams
  <2>5. WithinLimits(from, c) /\ OffZero(from, c)
    BY <1>1, <2>1, <2>2, ValidMeansWithin DEF TypeOK
  <2>6. Abs(c.zdr) \in Int
    BY <2>3 DEF Abs
  <2>7. WithinLimits(to, c) /\ OffZero(to, c)
    <3> HIDE DEF c
    <3> QED
      BY <2>3, <2>4, <2>5, <2>6 DEF WithinLimits, OffZero, Admits, Threshold
  <2> QED
    BY <1>1, <2>1, <2>2, <2>7, ValidMeansWithin DEF TypeOK
<1> QED
  BY <1>1, TypeCorrect, PTL

-----------------------------------------------------------------------------
(***************************************************************************)
(* The comparison of versions and the trace of flips.                      *)
(***************************************************************************)
\* Versions without a changed threshold are the same function.
LEMMA UnchangedIsEqual ==
    ASSUME NEW f \in RuleParams, NEW t \in RuleParams, Changed(f, t) = {}
    PROVE  f = t
<1>1. \A x \in Threshold : f[x] = t[x]
  BY DEF Changed
<1>2. f = [x \in Threshold |-> f[x]] /\ t = [x \in Threshold |-> t[x]]
  BY DEF RuleParams
<1> QED
  BY <1>1, <1>2

\* A threshold is loosened one way if and only if it is tightened the other way.
LEMMA OppositeDirections ==
    ASSUME NEW f \in RuleParams, NEW t \in RuleParams, NEW x \in Changed(f, t)
    PROVE  x \in Changed(t, f) /\ (Loosens(x, f, t) <=> ~Loosens(x, t, f))
<1>1. x \in Threshold /\ f[x] # t[x]
  BY DEF Changed
<1>2. f[x] \in Int /\ t[x] \in Int
  BY <1>1 DEF RuleParams
<1> QED
  BY <1>1, <1>2 DEF Changed, Loosens

\* What a comparison calls loosened it calls tightened when it is read backwards, and
\* versions that it finds equal flip no gate (versioning.go:31, trace.go:12).
THEOREM ComparisonIsSymmetric == Spec => []CompareAccountsForFlips
<1>1. ASSUME TypeOK PROVE CompareAccountsForFlips
  <2>1. from \in RuleParams /\ to \in RuleParams
    BY <1>1 DEF TypeOK
  <2>2. \A x : x \in Loosened(from, to) <=> x \in Tightened(to, from)
    BY <2>1, OppositeDirections DEF Loosened, Tightened, Changed
  <2>3. ASSUME NEW scan \in Scans, Changed(from, to) = {} PROVE Flips(from, to, scan) = {}
    <3>1. from = to
      BY <2>1, <2>3, UnchangedIsEqual
    <3> QED
      BY <3>1 DEF Flips
  <2> QED
    BY <2>2, <2>3 DEF CompareAccountsForFlips
<1> QED
  BY <1>1, TypeCorrect, PTL

\* A correction that cannot reach a threshold leaves both kinds of comparison with it
\* as they are.
LEMMA BeyondKeepsOrder ==
    ASSUME NEW v \in Int, NEW x \in Int, NEW d \in Int, Beyond(v, x, d)
    PROVE  /\ v + d > x <=> v > x
           /\ v + d < x <=> v < x
           /\ v - d > x <=> v > x
           /\ v - d < x <=> v < x
BY DEF Beyond, Abs

\* So does one that is cut off at 0 and One, when the threshold lies between them.
LEMMA ClampKeepsOrder ==
    ASSUME NEW v \in 0..One, NEW x \in 0..One, NEW d \in Int, Beyond(v, x, d)
    PROVE  Clamp01(v + d) < x <=> v < x
<1>1. v \in Int /\ x \in Int /\ One \in Int
  BY ClassifierAssumption
<1>2. v + d < x <=> v < x
  BY <1>1, BeyondKeepsOrder
<1>3. CASE v + d < 0
  <2>1. v < x
    BY <1>1, <1>2, <1>3
  <2>2. 0 < x
    BY <1>1, <2>1
  <2> QED
    BY <1>3, <2>1, <2>2 DEF Clamp01
<1>4. CASE v + d > One
  BY <1>1, <1>2, <1>4 DEF Clamp01
<1>5. CASE ~(v + d < 0) /\ ~(v + d > One)
  BY <1>2, <1>5 DEF Clamp01
<1> QED
  BY <1>3, <1>4, <1>5

\* The near-zero region is an interval around 0, so that its two ends decide.
LEMMA AbsBelow ==
    ASSUME NEW v \in Int, NEW x \in Int
    PROVE  Abs(v) < x <=> v < x /\ v > -x
BY DEF Abs

\* A gate that its correction carries to no threshold has the label of the corrected
\* gate: the four tests, one by one.
LEMMA ClearKeepsLabel ==
    ASSUME NEW p \in RuleParams, Validate(p), cal \in Calibration \cup {Null},
           NEW g \in GateVars, Clear(p, g)
    PROVE  Label(p, g) = Label(p, Corrected(g))
<1> DEFINE h == Corrected(g)
<1>1. Incomplete(h) <=> Incomplete(g)
  BY ApplyKeepsMissing DEF Corrected
<1>2. CASE cal = Null
  BY <1>2 DEF Corrected, Apply
<1>3. CASE Incomplete(g)
  <2>1. Code(p, g) = Code(p, h)
    BY <1>1, <1>3 DEF Code
  <2> QED
    BY <2>1 DEF Label
<1>4. CASE cal # Null /\ ~Incomplete(g)
  <2>1. g.zh \in Int /\ g.zdr \in Int /\ g.rhohv \in 0..One
    BY <1>4, ClassifierAssumption DEF GateVars, MissingGate, Incomplete
  <2>2. cal.zh_offset \in Int /\ cal.zdr_bias \in Int /\ cal.rhohv_bias \in Int
    BY <1>4 DEF Calibration
  <2>3. \A x \in Threshold : p[x] \in Int
    BY DEF RuleParams
  <2>4. /\ p["zh_max"] \in Int /\ p["zh_clutter_min"] \in Int
        /\ p["zdr_min"] \in Int /\ p["zdr_max"] \in Int /\ p["zdr_abs_max"] \in Int
        /\ p["rhohv_min"] \in 0..One
    BY <2>3, ClassifierAssumption DEF Threshold, Validate
  <2>5. /\ h.zh = g.zh + cal.zh_offset
        /\ h.zdr = g.zdr - cal.zdr_bias
        /\ h.rhohv = Clamp01(g.rhohv + cal.rhohv_bias)
    BY <1>4 DEF Corrected, Apply, Incomplete
  <2>6. /\ Beyond(g.zh, p["zh_max"], cal.zh_offset)
        /\ Beyond(g.zh, p["zh_clutter_min"], cal.zh_offset)
        /\ Beyond(g.rhohv, p["rhohv_min"], cal.rhohv_bias)
        /\ Beyond(g.zdr, p["zdr_min"], cal.zdr_bias)
        /\ Beyond(g.zdr, p["zdr_max"], cal.zdr_bias)
        /\ Beyond(g.zdr, p["zdr_abs_max"], cal.zdr_bias)
        /\ Beyond(g.zdr, -p["zdr_abs_max"], cal.zdr_bias)
    BY <1>4 DEF Clear
  <2> HIDE DEF h
  <2>7. h.zh > p["zh_max"] <=> g.zh > p["zh_max"]
    BY <2>1, <2>2, <2>4, <2>5, <2>6, BeyondKeepsOrder
  <2>8. h.rhohv < p["rhohv_min"] <=> g.rhohv < p["rhohv_min"]
    BY <2>1, <2>2, <2>4, <2>5, <2>6, ClampKeepsOrder
  <2>9. /\ h.zdr < p["zdr_min"] <=> g.zdr < p["zdr_min"]
        /\ h.zdr > p["zdr_max"] <=> g.zdr > p["zdr_max"]
    BY <2>1, <2>2, <2>4, <2>5, <2>6, BeyondKeepsOrder
  <2>10. NearZero(p, h) <=> NearZero(p, g)
    <3>1. h.zh > p["zh_clutter_min"] <=> g.zh > p["zh_clutter_min"]
      BY <2>1, <2>2, <2>4, <2>5, <2>6, BeyondKeepsOrder
    <3>2. h.zdr < p["zdr_abs_max"] <=> g.zdr < p["zdr_abs_max"]
      BY <2>1, <2>2, <2>4, <2>5, <2>6, BeyondKeepsOrder
    <3>3. h.zdr > -p["zdr_abs_max"] <=> g.zdr > -p["zdr_abs_max"]
      <4>1. -p["zdr_abs_max"] \in Int
        BY <2>4
      <4> QED
        BY <4>1, <2>1, <2>2, <2>5, <2>6, BeyondKeepsOrder
    <3>4. h.zdr \in Int
      BY <2>1, <2>2, <2>5
    <3>5. /\ Abs(h.zdr) < p["zdr_abs_max"] <=>
                h.zdr < p["zdr_abs_max"] /\ h.zdr > -p["zdr_abs_max"]
          /\ Abs(g.zdr) < p["zdr_abs_max"] <=>
                g.zdr < p["zdr_abs_max"] /\ g.zdr > -p["zdr_abs_max"]
      BY <2>1, <2>4, <3>4, AbsBelow
    <3> QED
      BY <3>1, <3>2, <3>3, <3>5 DEF NearZero
  <2>11. Code(p, g) = Code(p, h)
    BY <1>1, <1>4, <2>7, <2>8, <2>9, <2>10 DEF Code
  <2> QED
    BY <2>11 DEF Label, h
<1> QED
  BY <1>2, <1>3, <1>4

\* The trace of flips agrees with two Marks on every gate that differs from all
\* thresholds of both versions by more than its correction, for all versions and
\* calibrations (trace.go:60).
THEOREM TraceIsRight == Spec => []TraceRightBeyondCorrection
<1>1. ASSUME TypeOK PROVE TraceRightBeyondCorrection
  <2> SUFFICES ASSUME NEW scan \in Scans, NEW i \in DOMAIN scan,
                      Clear(from, scan[i]), Clear(to, scan[i])
               PROVE  i \in Flips(from, to, scan) <=>
                      Label(from, Corrected(scan[i])) # Label(to, Corrected(scan[i]))
    BY DEF TraceRightBeyondCorrection
  <2>1. scan[i] \in GateVars
    BY ChangeAssumption
  <2>2. /\ Label(from, scan[i]) = Label(from, Corrected(scan[i]))
        /\ Label(to, scan[i]) = Label(to, Corrected(scan[i]))
    BY <1>1, <2>1, ClearKeepsLabel DEF TypeOK
  <2> QED
    BY <2>2 DEF Flips
<1> QED
  BY <1>1, TypeCorrect, PTL

-----------------------------------------------------------------------------
(***************************************************************************)
(* The quality score.                                                      *)
(***************************************************************************)
LEMMA DivBounds ==
    ASSUME NEW a \in Nat, NEW d \in Nat \ {0}
    PROVE  a \div d \in Nat /\ d * (a \div d) <= a /\ a < d * (a \div d) + d
OBVIOUS

LEMMA MulMonotone ==
    ASSUME NEW d \in Nat, NEW x \in Nat, NEW y \in Nat, x <= y
    PROVE  d * x <= d * y
OBVIOUS

\* A rounded quotient lies between the same whole numbers as the quotient.
LEMMA RoundBounds ==
    ASSUME NEW num \in Nat, NEW den \in Nat \ {0}, NEW k \in Nat
    PROVE  /\ Round(num, den) \in Nat
           /\ num <= k * den => Round(num, den) <= k
           /\ k * den <= num => k <= Round(num, den)
<1> DEFINE q == Round(num, den)
<1>1. 2 * num + den \in Nat /\ 2 * den \in Nat \ {0}
  OBVIOUS
<1>2. q \in Nat /\ (2 * den) * q <= 2 * num + den /\ 2 * num + den < (2 * den) * q + 2 * den
  BY <1>1, DivBounds DEF Round
<1> HIDE DEF q
<1>3. (2 * den) * (k + 1) = 2 * (k * den) + 2 * den
  OBVIOUS
<1>4. ASSUME num <= k * den, k + 1 <= q PROVE FALSE
  <2>1. (2 * den) * (k + 1) <= (2 * den) * q
    BY <1>1, <1>2, <1>4, MulMonotone
  <2>2. k * den \in Nat /\ (2 * den) * q \in Nat
    BY <1>2
  <2> QED
    BY <1>2, <1>3, <1>4, <2>1, <2>2
<1>5. ASSUME k * den <= num, q + 1 <= k PROVE FALSE
  <2>1. (2 * den) * (q + 1) <= (2 * den) * k
    BY <1>1, <1>2, <1>5, MulMonotone
  <2>2. (2 * den) * (q + 1) = (2 * den) * q + 2 * den /\ (2 * den) * k = 2 * (k * den)
    BY <1>2
  <2>3. k * den \in Nat /\ (2 * den) * q \in Nat
    BY <1>2
  <2> QED
    BY <1>2, <1>5, <2>1, <2>2, <2>3
<1> QED
  BY <1>2, <1>4, <1>5 DEF q

LEMMA RoundMonotone ==
    ASSUME NEW x \in Nat, NEW y \in Nat, NEW den \in Nat \ {0}, x <= y
    PROVE  Round(x, den) <= Round(y, den)
<1> DEFINE p == Round(x, den)
           q == Round(y, den)
<1>1. 2 * x + den \in Nat /\ 2 * y + den \in Nat /\ 2 * den \in Nat \ {0}
  OBVIOUS
<1>2. p \in Nat /\ (2 * den) * p <= 2 * x + den
  BY <1>1, DivBounds DEF Round
<1>3. q \in Nat /\ 2 * y + den < (2 * den) * q + 2 * den
  BY <1>1, DivBounds DEF Round
<1> HIDE DEF p, q
<1>4. ASSUME q + 1 <= p PROVE FALSE
  <2>1. (2 * den) * (q + 1) <= (2 * den) * p
    BY <1>1, <1>2, <1>3, <1>4, MulMonotone
  <2>2. (2 * den) * (q + 1) = (2 * den) * q + 2 * den
    BY <1>3
  <2>3. (2 * den) * p \in Nat /\ (2 * den) * q \in Nat
    BY <1>2, <1>3
  <2> QED
    BY <1>2, <1>3, <2>1, <2>2, <2>3
<1> QED
  BY <1>2, <1>3, <1>4 DEF p, q

\* The score in terms of the counts alone: its range, and how it grows.
LEMMA ScoreBounds ==
    \A v, m, n \in Nat : v + m <= n =>
        /\ Score(v, m, n) \in Nat /\ Score(v, m, n) <= 1000
        /\ m = n => Score(v, m, n) = 0
        /\ v # 0 /\ v = n => Score(v, m, n) = 1000
        /\ v # 0 /\ v + m = n => Score(v, m, n) >= 800
<1> SUFFICES ASSUME NEW v \in Nat, NEW m \in Nat, NEW n \in Nat, v + m <= n
             PROVE  /\ Score(v, m, n) \in Nat /\ Score(v, m, n) <= 1000
                    /\ m = n => Score(v, m, n) = 0
                    /\ v # 0 /\ v = n => Score(v, m, n) = 1000
                    /\ v # 0 /\ v + m = n => Score(v, m, n) >= 800
  OBVIOUS
<1> DEFINE d == n - m
           num == 800 * v * n + 200 * d * d
           den == d * n
<1>1. CASE n = 0
  BY <1>1 DEF Score
<1>2. CASE n # 0 /\ d = 0
  <2>1. v = 0 /\ Score(v, m, n) = Round(0, n)
    BY <1>2 DEF Score
  <2>2. Round(0, n) \in Nat /\ Round(0, n) <= 0
    BY <1>2, RoundBounds
  <2> QED
    BY <1>2, <2>1, <2>2
<1>3. CASE n # 0 /\ d # 0
  <2>1. d \in Nat \ {0} /\ d <= n /\ v <= d
    BY <1>3
  <2>2. Score(v, m, n) = Round(num, den)
    BY <1>3 DEF Score
  <2>3. /\ v * n \in Nat /\ d * d \in Nat /\ den \in Nat \ {0} /\ num \in Nat
        /\ num = 800 * (v * n) + 200 * (d * d)
    BY <1>3, <2>1
  <2>4. v * n <= den /\ d * d <= den
    <3>1. n * v <= n * d /\ d * d <= d * n
      BY <2>1, MulMonotone
    <3> QED
      BY <2>1, <3>1
  <2>5. num <= 1000 * den
    BY <2>3, <2>4
  <2>6. Round(num, den) \in Nat /\ Round(num, den) <= 1000
    BY <2>3, <2>5, RoundBounds
  <2>7. v = n => Round(num, den) = 1000
    <3>1. SUFFICES ASSUME v = n PROVE 1000 <= Round(num, den)
      BY <2>6
    <3>2. num = 1000 * den
      BY <2>1, <2>3, <3>1
    <3> QED
      BY <2>3, <3>2, RoundBounds
  <2>8. v + m = n => 800 <= Round(num, den)
    <3>1. SUFFICES ASSUME v = d PROVE 800 <= Round(num, den)
      BY <2>1
    <3>2. 800 * den <= num
      BY <2>3, <3>1
    <3> QED
      BY <2>3, <3>2, RoundBounds
  <2>9. m # n
    BY <1>3
  <2> HIDE DEF num, den, d
  <2> QED
    BY <2>2, <2>6, <2>7, <2>8, <2>9
<1> QED
  BY <1>1, <1>2, <1>3

LEMMA ScoreMonotone ==
    ASSUME NEW v \in Nat, NEW w \in Nat, NEW m \in Nat, NEW n \in Nat, v <= w, w + m <= n
    PROVE  Score(v, m, n) <= Score(w, m, n)
<1> DEFINE d == n - m
<1>1. CASE n = 0 \/ d = 0
  <2>1. Score(v, m, n) = Score(w, m, n)
    BY <1>1 DEF Score
  <2>2. v + m <= n
    OBVIOUS
  <2>3. Score(v, m, n) \in Nat
    BY <2>2, ScoreBounds
  <2>4. Score(v, m, n) <= Score(v, m, n)
    BY <2>3
  <2> QED
    BY <2>1, <2>4, Zenon
<1>2. CASE n # 0 /\ d # 0
  <2>1. d \in Nat \ {0} /\ d * d \in Nat /\ d * n \in Nat \ {0}
    BY <1>2
  <2>2. n * v <= n * w /\ n * v \in Nat /\ n * w \in Nat
    BY MulMonotone
  <2>3. /\ 800 * v * n + 200 * d * d \in Nat
        /\ 800 * w * n + 200 * d * d \in Nat
        /\ 800 * v * n + 200 * d * d <= 800 * w * n + 200 * d * d
    BY <2>1, <2>2
  <2> QED
    BY <1>2, <2>1, <2>3, RoundMonotone DEF Score
<1> QED
  BY <1>1, <1>2

\* A gate gets the label "missing" if and only if a variable of it is missing.
LEMMA MissingMeansIncomplete ==
    ASSUME NEW p, NEW g
    PROVE  Label(p, g) = "missing" <=> Incomplete(g)
<1>1. Code(p, g) = "MISSING" <=> Incomplete(g)
  BY DEF Code
<1>2. Label(p, g) = "missing" <=> Code(p, g) = "MISSING"
  BY DEF Label, Code
<1> QED
  BY <1>1, <1>2

\* The sets the score counts are disjoint and finite.
LEMMA LabelledSets ==
    ASSUME NEW p, NEW scan \in Scans
    PROVE  LET V == LabelledBy(p, scan, "valid")
               M == LabelledBy(p, scan, "missing")
           IN /\ IsFiniteSet(V) /\ IsFiniteSet(M)
              /\ Cardinality(V) \in Nat /\ Cardinality(M) \in Nat /\ Len(scan) \in Nat
              /\ Cardinality(V \cup M) = Cardinality(V) + Cardinality(M)
              /\ Cardinality(V) + Cardinality(M) <= Len(scan)
              /\ Cardinality(DOMAIN scan) = Len(scan)
<1> DEFINE V == LabelledBy(p, scan, "valid")
           M == LabelledBy(p, scan, "missing")
           D == DOMAIN scan
<1>1. D = 1..Len(scan) /\ Len(scan) \in Nat
  BY ChangeAssumption
<1>2. IsFiniteSet(D) /\ Cardinality(D) = Len(scan)
  <2>1. ASSUME NEW n \in Nat PROVE IsFiniteSet(1..n) /\ Cardinality(1..n) = n
    BY <2>1, FS_Interval
  <2> QED
    BY <1>1, <2>1
<1>3. V \subseteq D /\ M \subseteq D /\ V \cap M = {}
  BY DEF LabelledBy
<1> HIDE DEF V, M, D
<1>4. IsFiniteSet(V) /\ IsFiniteSet(M) /\ IsFiniteSet(V \cup M)
  BY <1>2, <1>3, FS_Subset
<1>5. Cardinality(V \cup M) = Cardinality(V) + Cardinality(M) - Cardinality(V \cap M)
  BY <1>4, FS_Union
<1>6. Cardinality({}) = 0
  BY FS_EmptySet
<1>7. Cardinality(V \cup M) <= Cardinality(D)
  BY <1>2, <1>3, FS_Subset
<1>8. Cardinality(V) \in Nat /\ Cardinality(M) \in Nat
  BY <1>4, FS_CardinalityType
<1>9. Cardinality(V \cup M) = Cardinality(V) + Cardinality(M)
  <2>1. Cardinality(V \cap M) = 0
    BY <1>3, <1>6, Zenon
  <2> QED
    BY <1>5, <1>8, <2>1
<1>10. Cardinality(V) + Cardinality(M) <= Len(scan)
  BY <1>2, <1>7, <1>9
<1> QED
  BY <1>1, <1>2, <1>4, <1>8, <1>9, <1>10 DEF V, M, D

\* The score rises with the gates a version admits, stays between 0 and 100 points,
\* and reaches its bounds exactly when it should (quality.go:5).
THEOREM ScoreIsFair == Spec => []ScoreFollowsValidity
<1>1. ASSUME TypeOK, AdmittingKeepsValid PROVE ScoreFollowsValidity
  <2> SUFFICES ASSUME NEW scan \in Scans
               PROVE
        LET valid   == LabelledBy(to, scan, "valid")
            missing == LabelledBy(to, scan, "missing")
            score   == ScoreBy(to, scan)
        IN /\ Admits(from, to) => ScoreBy(from, scan) <= score
           /\ score \in 0..1000
           /\ missing = DOMAIN scan => score = 0
           /\ valid # {} /\ valid = DOMAIN scan => score = 1000
           /\ valid # {} /\ valid \cup missing = DOMAIN scan => score >= 800
    BY DEF ScoreFollowsValidity
  <2> DEFINE F == LabelledBy(from, scan, "valid")
             V == LabelledBy(to, scan, "valid")
             M == LabelledBy(to, scan, "missing")
  <2>1. LabelledBy(from, scan, "missing") = M
    BY MissingMeansIncomplete DEF LabelledBy
  <2>2. /\ ScoreBy(to, scan) = Score(Cardinality(V), Cardinality(M), Len(scan))
        /\ ScoreBy(from, scan) = Score(Cardinality(F), Cardinality(M), Len(scan))
    BY <2>1 DEF ScoreBy
  <2>3. /\ IsFiniteSet(V) /\ Cardinality(V) \in Nat /\ Cardinality(M) \in Nat
        /\ Len(scan) \in Nat /\ Cardinality(V \cup M) = Cardinality(V) + Cardinality(M)
        /\ Cardinality(V) + Cardinality(M) <= Len(scan)
        /\ Cardinality(DOMAIN scan) = Len(scan)
    BY LabelledSets
  <2>4. Admits(from, to) => F \subseteq V
    <3>1. \A i \in DOMAIN scan : scan[i] \in Gates
      BY ChangeAssumption
    <3> QED
      BY <1>1, <3>1 DEF AdmittingKeepsValid, LabelledBy
  <2>5. V # {} => Cardinality(V) # 0
    BY <2>3, FS_EmptySet
  <2>6. Cardinality(F) \in Nat
    BY LabelledSets
  <2> HIDE DEF F, V, M
  <2>7. Admits(from, to) => ScoreBy(from, scan) <= ScoreBy(to, scan)
    <3>1. ASSUME Admits(from, to) PROVE Cardinality(F) <= Cardinality(V)
      BY <2>3, <2>4, <3>1, FS_Subset
    <3> QED
      BY <2>2, <2>3, <2>6, <3>1, ScoreMonotone
  <2>8. /\ ScoreBy(to, scan) \in 0..1000
        /\ M = DOMAIN scan => ScoreBy(to, scan) = 0
        /\ V # {} /\ V = DOMAIN scan => ScoreBy(to, scan) = 1000
        /\ V # {} /\ V \cup M = DOMAIN scan => ScoreBy(to, scan) >= 800
    <3> DEFINE v == Cardinality(V)
               m == Cardinality(M)
               n == Len(scan)
    <3>1. v \in Nat /\ m \in Nat /\ n \in Nat /\ v + m <= n
      BY <2>3
    <3> HIDE DEF v, m, n
    <3>2. /\ Score(v, m, n) \in Nat /\ Score(v, m, n) <= 1000
          /\ m = n => Score(v, m, n) = 0
          /\ v # 0 /\ v = n => Score(v, m, n) = 1000
          /\ v # 0 /\ v + m = n => Score(v, m, n) >= 800
      BY <3>1, ScoreBounds
    <3> USE DEF v, m, n
    <3>3. /\ M = DOMAIN scan => m = n
          /\ V = DOMAIN scan => v = n
          /\ V \cup M = DOMAIN scan => v + m = n
      BY <2>3
    <3>4. V # {} => v # 0
      BY <2>5
    <3>5. ScoreBy(to, scan) = Score(v, m, n)
      BY <2>2
    <3> HIDE DEF v, m, n
    <3> QED
      BY <3>2, <3>3, <3>4, <3>5
  <2> QED
    BY <2>7, <2>8 DEF V, M
<1> QED
  BY <1>1, TypeCorrect, AdmittingIsMonotone, PTL
=============================================================================

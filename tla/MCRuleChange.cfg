\* All pairs of 48 valid rules under four calibrations or none, 49 gates.
SPECIFICATION Spec
CONSTANTS
  One = 3
  Null = Null
  Params <- MCParams
  Default <- MCDefault
  Cals <- MCCals
  Gates <- MCGates
  Scans <- MCScans
INVARIANTS
  TypeOK
  ValidWithinLimits
  AdmittingKeepsValid
  ScoreFollowsValidity
  CompareAccountsForFlips
  TraceRightBeyondCorrection

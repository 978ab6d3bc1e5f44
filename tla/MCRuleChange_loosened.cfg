\* A change reported as loosening makes valid gates clutter.
SPECIFICATION Spec
CONSTANTS
  One = 3
  Null = Null
  Params <- MCParams
  Default <- MCDefault
  Cals <- MCCals
  Gates <- MCGates
  Scans <- MCScans
INVARIANTS
  LooseningKeepsValid

\* The description of a rule calls the gates outside its near-zero region clutter.
SPECIFICATION Spec
CONSTANTS
  One = 3
  Null = Null
  Params <- MCParams
  Default <- MCDefault
  Cals <- MCCals
  Gates <- MCGates
  Scans <- MCScans
INVARIANTS
  NearZeroAsPrinted

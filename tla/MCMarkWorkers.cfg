\* Four elevations, all orders of the map, all interleavings of the workers.
SPECIFICATION FairSpec
CONSTANTS
  a1 = a1
  b1 = b1
  b2 = b2
  c1 = c1
  d1 = d1
  Group <- MCGroup
  Verdict = {"valid", "clutter", "anomaly", "missing"}
  Classify <- MCClassify
INVARIANTS
  TypeOK
  NoReadBeforeDone
  MergedAlike
PROPERTIES
  MarkEnds

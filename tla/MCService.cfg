SPECIFICATION Spec
CONSTANTS
  n1 = n1
  n2 = n2
  st1 = st1
  st2 = st2
  sn1 = sn1
  v1 = v1
  r1 = r1
  r2 = r2
  s1 = s1
  s2 = s2
  q1 = q1
  q2 = q2
  Station = {st1, st2}
  Number = {sn1}
  Gate = {1}
  Value = {v1}
  Missing = Missing
  Absent = Absent
  Name = {n1, n2}
  MaxRuleVersion = 2
  MaxCalVersion = 2
  Decide <- MCDecide
  RuleReq = {r1, r2}
  StationReq = {s1, s2}
  ScanReq = {q1, q2}
  NoKey = NoKey
  Nobody = Nobody
  Nothing = Nothing
  NoRule = NoRule
  NoCal = NoCal
  NoReq = NoReq
  MaxRows = 1
SYMMETRY Symmetry
CONSTRAINT Explored
INVARIANTS
  TypeOK
  AtMostOneEffective
  VersionsDense
  VersionsInUsePublished
PROPERTIES
  PublishedForGood
  ActsAsRegisters
  NumberClaimedOnce
  ClosedReceivesNothing
  ActsAsPipeline

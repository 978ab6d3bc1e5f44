\* A Mark that fails between its labels and its history.
SPECIFICATION Spec
CONSTANTS
  s1 = s1
  s2 = s2
  st = st
  v1 = v1
  r1 = r1
  r2 = r2
  c1 = c1
  q1 = q1
  q2 = q2
  q3 = q3
  Scan = {s1}
  Station = {st}
  StationOf <- MCStationOf
  Gate = {1}
  Value = {v1}
  Missing = Missing
  Absent = Absent
  Rule = {r1, r2}
  NoRule = NoRule
  Cal = {c1}
  NoCal = NoCal
  Decide <- MCDecide
  Req = {q1, q2, q3}
  NoReq = NoReq
  MaxRows = 2
INVARIANTS
  LabelsTraceable

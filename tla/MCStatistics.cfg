\* One scan, two gates, two requests that end, one report.
SPECIFICATION StatsSpec
CONSTANTS
  s1 = s1
  st = st
  v1 = v1
  r1 = r1
  r2 = r2
  c1 = c1
  q1 = q1
  q2 = q2
  Scan = {s1}
  Station = {st}
  StationOf <- MCStationOf
  Gate = {1, 2}
  Value = {v1}
  Missing = Missing
  Absent = Absent
  Rule = {r1, r2}
  NoRule = NoRule
  Cal = {c1}
  NoCal = NoCal
  Decide <- MCDecide
  Req = {q1, q2}
  NoReq = NoReq
  MaxRows = 1
INVARIANTS
  ReportHolds
PROPERTIES
  RequestsEnd

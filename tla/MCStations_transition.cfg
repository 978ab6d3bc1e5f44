\* A stale Transition puts a disabled station straight back into service.
SPECIFICATION Spec
CONSTANTS
  st1 = st1
  n1 = n1
  q1 = q1
  q2 = q2
  Station = {st1}
  MaxVersion = 2
  Number = {n1}
  Req = {q1, q2}
  Nobody = Nobody
  Nothing = Nothing
PROPERTIES
  TransitionsLegal

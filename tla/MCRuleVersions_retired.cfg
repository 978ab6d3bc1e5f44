\* The second of two Publish requests makes a retired version effective again.
SPECIFICATION Spec
CONSTANTS
  n1 = n1
  n2 = n2
  q1 = q1
  q2 = q2
  Name = {n1, n2}
  MaxVersion = 2
  Req = {q1, q2}
  NoKey = NoKey
PROPERTIES
  RetiredIsTerminal
